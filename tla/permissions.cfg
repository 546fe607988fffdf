SPECIFICATION Spec
CONSTANTS
    u1 = u1  u2 = u2
    k11 = k11  k12 = k12  k21 = k21  k22 = k22  p1 = p1
    plain = plain  ibc = ibc  salt = salt
    Nil = Nil
    Authority = gov
    Address <- MCAddress
    Propagate = {"Instantiate"}
    Scenarios = {"consent", "codeaccess", "upload", "pins"}
INVARIANTS
    AdminConsent
    CodeConsent
    UploadConsent
PROPERTY
    PinSync
