----------------------------- MODULE WireAuthz ------------------------------
(***************************************************************************)
(* The codec tables of authz.pb.go: authorizations, grants, limits and      *)
(* filters. Each table is read off the function it is named for; see Wire   *)
(* for what an entry stands for.                                            *)
(***************************************************************************)
EXTENDS WireState

CodeGrant == <<Str(1), Ptr(2, AccessConfig)>>
CodeGrantUnmarshal == <<Str(1), Ptr(2, AccessConfigUnmarshal)>>
CodeGrantMarshal == <<Str(1), Ptr(2, AccessConfigMarshal)>>
CodeGrantSize == <<Str(1), Ptr(2, AccessConfigSize)>>

StoreCodeAuthorization == <<List(1, CodeGrant)>>
StoreCodeAuthorizationUnmarshal == <<List(1, CodeGrantUnmarshal)>>
StoreCodeAuthorizationMarshal == <<List(1, CodeGrantMarshal)>>
StoreCodeAuthorizationSize == <<List(1, CodeGrantSize)>>

ContractGrant == <<Str(1), Ptr(2, Opaque), Ptr(3, Opaque)>>
ContractGrantUnmarshal == <<Str(1), Ptr(2, Opaque), Ptr(3, Opaque)>>
ContractGrantMarshal == <<Str(1), Ptr(2, Opaque), Ptr(3, Opaque)>>
ContractGrantSize == <<Str(1), Ptr(2, Opaque), Ptr(3, Opaque)>>

ContractExecutionAuthorization == <<List(1, ContractGrant)>>
ContractExecutionAuthorizationUnmarshal == <<List(1, ContractGrantUnmarshal)>>
ContractExecutionAuthorizationMarshal == <<List(1, ContractGrantMarshal)>>
ContractExecutionAuthorizationSize == <<List(1, ContractGrantSize)>>

ContractMigrationAuthorization == <<List(1, ContractGrant)>>
ContractMigrationAuthorizationUnmarshal == <<List(1, ContractGrantUnmarshal)>>
ContractMigrationAuthorizationMarshal == <<List(1, ContractGrantMarshal)>>
ContractMigrationAuthorizationSize == <<List(1, ContractGrantSize)>>

MaxCallsLimit == <<Num(1)>>
MaxCallsLimitUnmarshal == <<Num(1)>>
MaxCallsLimitMarshal == <<Num(1)>>
MaxCallsLimitSize == <<Num(1)>>

MaxFundsLimit == <<List(1, Opaque)>>
MaxFundsLimitUnmarshal == <<List(1, Opaque)>>
MaxFundsLimitMarshal == <<List(1, Opaque)>>
MaxFundsLimitSize == <<List(1, Opaque)>>

CombinedLimit == <<Num(1), List(2, Opaque)>>
CombinedLimitUnmarshal == <<Num(1), List(2, Opaque)>>
CombinedLimitMarshal == <<Num(1), List(2, Opaque)>>
CombinedLimitSize == <<Num(1), List(2, Opaque)>>

AllowAllMessagesFilter == <<>>
AllowAllMessagesFilterUnmarshal == <<>>
AllowAllMessagesFilterMarshal == <<>>
AllowAllMessagesFilterSize == <<>>

AcceptedMessageKeysFilter == <<Strs(1)>>
AcceptedMessageKeysFilterUnmarshal == <<Strs(1)>>
AcceptedMessageKeysFilterMarshal == <<Strs(1)>>
AcceptedMessageKeysFilterSize == <<Strs(1)>>

AcceptedMessagesFilter == <<Strs(1)>>
AcceptedMessagesFilterUnmarshal == <<Strs(1)>>
AcceptedMessagesFilterMarshal == <<Strs(1)>>
AcceptedMessagesFilterSize == <<Strs(1)>>

----------------------------------------------------------------------------

AuthzMessages ==
  << Message(CodeGrant, CodeGrantUnmarshal, CodeGrantMarshal, CodeGrantSize),
     Message(StoreCodeAuthorization, StoreCodeAuthorizationUnmarshal,
             StoreCodeAuthorizationMarshal, StoreCodeAuthorizationSize),
     Message(ContractGrant, ContractGrantUnmarshal, ContractGrantMarshal,
             ContractGrantSize),
     Message(ContractExecutionAuthorization,
             ContractExecutionAuthorizationUnmarshal,
             ContractExecutionAuthorizationMarshal,
             ContractExecutionAuthorizationSize),
     Message(ContractMigrationAuthorization,
             ContractMigrationAuthorizationUnmarshal,
             ContractMigrationAuthorizationMarshal,
             ContractMigrationAuthorizationSize),
     Message(MaxCallsLimit, MaxCallsLimitUnmarshal, MaxCallsLimitMarshal,
             MaxCallsLimitSize),
     Message(MaxFundsLimit, MaxFundsLimitUnmarshal, MaxFundsLimitMarshal,
             MaxFundsLimitSize),
     Message(CombinedLimit, CombinedLimitUnmarshal, CombinedLimitMarshal,
             CombinedLimitSize),
     Message(AllowAllMessagesFilter, AllowAllMessagesFilterUnmarshal,
             AllowAllMessagesFilterMarshal, AllowAllMessagesFilterSize),
     Message(AcceptedMessageKeysFilter, AcceptedMessageKeysFilterUnmarshal,
             AcceptedMessageKeysFilterMarshal, AcceptedMessageKeysFilterSize),
     Message(AcceptedMessagesFilter, AcceptedMessagesFilterUnmarshal,
             AcceptedMessagesFilterMarshal, AcceptedMessagesFilterSize) >>
=============================================================================
