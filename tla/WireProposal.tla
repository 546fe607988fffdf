---------------------------- MODULE WireProposal ----------------------------
(***************************************************************************)
(* The codec tables of proposal_legacy.pb.go: the contents of legacy        *)
(* governance proposals. Each table is read off the function it is named    *)
(* for; see Wire for what an entry stands for.                              *)
(***************************************************************************)
EXTENDS WireState

StoreCodeProposal ==
  <<Str(1), Str(2), Str(3), Str(4), Ptr(7, AccessConfig), Flag(8), Str(9),
    Str(10), Str(11)>>
StoreCodeProposalUnmarshal ==
  <<Str(1), Str(2), Str(3), Str(4), Ptr(7, AccessConfigUnmarshal), Flag(8),
    Str(9), Str(10), Str(11)>>
StoreCodeProposalMarshal ==
  <<Str(1), Str(2), Str(3), Str(4), Ptr(7, AccessConfigMarshal), Flag(8),
    Str(9), Str(10), Str(11)>>
StoreCodeProposalSize ==
  <<Str(1), Str(2), Str(3), Str(4), Ptr(7, AccessConfigSize), Flag(8), Str(9),
    Str(10), Str(11)>>
StoreCodeProposalEqual ==
  <<Str(1), Str(2), Str(3), Str(4), Ptr(7, AccessConfigEqual), Flag(8), Str(9),
    Str(10), Str(11)>>

InstantiateContractProposal ==
  <<Str(1), Str(2), Str(3), Str(4), Num(5), Str(6), Str(7), List(8, Opaque)>>
InstantiateContractProposalUnmarshal ==
  <<Str(1), Str(2), Str(3), Str(4), Num(5), Str(6), Str(7), List(8, Opaque)>>
InstantiateContractProposalMarshal ==
  <<Str(1), Str(2), Str(3), Str(4), Num(5), Str(6), Str(7), List(8, Opaque)>>
InstantiateContractProposalSize ==
  <<Str(1), Str(2), Str(3), Str(4), Num(5), Str(6), Str(7), List(8, Opaque)>>
InstantiateContractProposalEqual ==
  <<Str(1), Str(2), Str(3), Str(4), Num(5), Str(6), Str(7), List(8, Opaque)>>

InstantiateContract2Proposal ==
  <<Str(1), Str(2), Str(3), Str(4), Num(5), Str(6), Str(7), List(8, Opaque),
    Str(9), Flag(10)>>
InstantiateContract2ProposalUnmarshal ==
  <<Str(1), Str(2), Str(3), Str(4), Num(5), Str(6), Str(7), List(8, Opaque),
    Str(9), Flag(10)>>
InstantiateContract2ProposalMarshal ==
  <<Str(1), Str(2), Str(3), Str(4), Num(5), Str(6), Str(7), List(8, Opaque),
    Str(9), Flag(10)>>
InstantiateContract2ProposalSize ==
  <<Str(1), Str(2), Str(3), Str(4), Num(5), Str(6), Str(7), List(8, Opaque),
    Str(9), Flag(10)>>
InstantiateContract2ProposalEqual ==
  <<Str(1), Str(2), Str(3), Str(4), Num(5), Str(6), Str(7), List(8, Opaque),
    Str(9), Flag(10)>>

MigrateContractProposal == <<Str(1), Str(2), Str(4), Num(5), Str(6)>>
MigrateContractProposalUnmarshal == <<Str(1), Str(2), Str(4), Num(5), Str(6)>>
MigrateContractProposalMarshal == <<Str(1), Str(2), Str(4), Num(5), Str(6)>>
MigrateContractProposalSize == <<Str(1), Str(2), Str(4), Num(5), Str(6)>>
MigrateContractProposalEqual == <<Str(1), Str(2), Str(4), Num(5), Str(6)>>

SudoContractProposal == <<Str(1), Str(2), Str(3), Str(4)>>
SudoContractProposalUnmarshal == <<Str(1), Str(2), Str(3), Str(4)>>
SudoContractProposalMarshal == <<Str(1), Str(2), Str(3), Str(4)>>
SudoContractProposalSize == <<Str(1), Str(2), Str(3), Str(4)>>
SudoContractProposalEqual == <<Str(1), Str(2), Str(3), Str(4)>>

ExecuteContractProposal ==
  <<Str(1), Str(2), Str(3), Str(4), Str(5), List(6, Opaque)>>
ExecuteContractProposalUnmarshal ==
  <<Str(1), Str(2), Str(3), Str(4), Str(5), List(6, Opaque)>>
ExecuteContractProposalMarshal ==
  <<Str(1), Str(2), Str(3), Str(4), Str(5), List(6, Opaque)>>
ExecuteContractProposalSize ==
  <<Str(1), Str(2), Str(3), Str(4), Str(5), List(6, Opaque)>>
ExecuteContractProposalEqual ==
  <<Str(1), Str(2), Str(3), Str(4), Str(5), List(6, Opaque)>>

UpdateAdminProposal == <<Str(1), Str(2), Str(3), Str(4)>>
UpdateAdminProposalUnmarshal == <<Str(1), Str(2), Str(3), Str(4)>>
UpdateAdminProposalMarshal == <<Str(1), Str(2), Str(3), Str(4)>>
UpdateAdminProposalSize == <<Str(1), Str(2), Str(3), Str(4)>>
UpdateAdminProposalEqual == <<Str(1), Str(2), Str(3), Str(4)>>

ClearAdminProposal == <<Str(1), Str(2), Str(3)>>
ClearAdminProposalUnmarshal == <<Str(1), Str(2), Str(3)>>
ClearAdminProposalMarshal == <<Str(1), Str(2), Str(3)>>
ClearAdminProposalSize == <<Str(1), Str(2), Str(3)>>
ClearAdminProposalEqual == <<Str(1), Str(2), Str(3)>>

PinCodesProposal == <<Str(1), Str(2), Nums(3)>>
PinCodesProposalUnmarshal == <<Str(1), Str(2), Nums(3)>>
PinCodesProposalMarshal == <<Str(1), Str(2), Nums(3)>>
PinCodesProposalSize == <<Str(1), Str(2), Nums(3)>>
PinCodesProposalEqual == <<Str(1), Str(2), Nums(3)>>

UnpinCodesProposal == <<Str(1), Str(2), Nums(3)>>
UnpinCodesProposalUnmarshal == <<Str(1), Str(2), Nums(3)>>
UnpinCodesProposalMarshal == <<Str(1), Str(2), Nums(3)>>
UnpinCodesProposalSize == <<Str(1), Str(2), Nums(3)>>
UnpinCodesProposalEqual == <<Str(1), Str(2), Nums(3)>>

AccessConfigUpdate == <<Num(1), Emb(2, AccessConfig)>>
AccessConfigUpdateUnmarshal == <<Num(1), Emb(2, AccessConfigUnmarshal)>>
AccessConfigUpdateMarshal == <<Num(1), Emb(2, AccessConfigMarshal)>>
AccessConfigUpdateSize == <<Num(1), Emb(2, AccessConfigSize)>>
AccessConfigUpdateEqual == <<Num(1), Emb(2, AccessConfigEqual)>>

UpdateInstantiateConfigProposal ==
  <<Str(1), Str(2), List(3, AccessConfigUpdate)>>
UpdateInstantiateConfigProposalUnmarshal ==
  <<Str(1), Str(2), List(3, AccessConfigUpdateUnmarshal)>>
UpdateInstantiateConfigProposalMarshal ==
  <<Str(1), Str(2), List(3, AccessConfigUpdateMarshal)>>
UpdateInstantiateConfigProposalSize ==
  <<Str(1), Str(2), List(3, AccessConfigUpdateSize)>>
UpdateInstantiateConfigProposalEqual ==
  <<Str(1), Str(2), List(3, AccessConfigUpdateEqual)>>

StoreAndInstantiateContractProposal ==
  <<Str(1), Str(2), Str(3), Str(4), Ptr(5, AccessConfig), Flag(6), Str(7),
    Str(8), Str(9), List(10, Opaque), Str(11), Str(12), Str(13)>>
StoreAndInstantiateContractProposalUnmarshal ==
  <<Str(1), Str(2), Str(3), Str(4), Ptr(5, AccessConfigUnmarshal), Flag(6),
    Str(7), Str(8), Str(9), List(10, Opaque), Str(11), Str(12), Str(13)>>
StoreAndInstantiateContractProposalMarshal ==
  <<Str(1), Str(2), Str(3), Str(4), Ptr(5, AccessConfigMarshal), Flag(6),
    Str(7), Str(8), Str(9), List(10, Opaque), Str(11), Str(12), Str(13)>>
StoreAndInstantiateContractProposalSize ==
  <<Str(1), Str(2), Str(3), Str(4), Ptr(5, AccessConfigSize), Flag(6), Str(7),
    Str(8), Str(9), List(10, Opaque), Str(11), Str(12), Str(13)>>
StoreAndInstantiateContractProposalEqual ==
  <<Str(1), Str(2), Str(3), Str(4), Ptr(5, AccessConfigEqual), Flag(6), Str(7),
    Str(8), Str(9), List(10, Opaque), Str(11), Str(12), Str(13)>>

----------------------------------------------------------------------------

ProposalMessages ==
  << Comparable(StoreCodeProposal, StoreCodeProposalUnmarshal,
                StoreCodeProposalMarshal, StoreCodeProposalSize,
                StoreCodeProposalEqual),
     Comparable(InstantiateContractProposal,
                InstantiateContractProposalUnmarshal,
                InstantiateContractProposalMarshal,
                InstantiateContractProposalSize,
                InstantiateContractProposalEqual),
     Comparable(InstantiateContract2Proposal,
                InstantiateContract2ProposalUnmarshal,
                InstantiateContract2ProposalMarshal,
                InstantiateContract2ProposalSize,
                InstantiateContract2ProposalEqual),
     Comparable(MigrateContractProposal, MigrateContractProposalUnmarshal,
                MigrateContractProposalMarshal, MigrateContractProposalSize,
                MigrateContractProposalEqual),
     Comparable(SudoContractProposal, SudoContractProposalUnmarshal,
                SudoContractProposalMarshal, SudoContractProposalSize,
                SudoContractProposalEqual),
     Comparable(ExecuteContractProposal, ExecuteContractProposalUnmarshal,
                ExecuteContractProposalMarshal, ExecuteContractProposalSize,
                ExecuteContractProposalEqual),
     Comparable(UpdateAdminProposal, UpdateAdminProposalUnmarshal,
                UpdateAdminProposalMarshal, UpdateAdminProposalSize,
                UpdateAdminProposalEqual),
     Comparable(ClearAdminProposal, ClearAdminProposalUnmarshal,
                ClearAdminProposalMarshal, ClearAdminProposalSize,
                ClearAdminProposalEqual),
     Comparable(PinCodesProposal, PinCodesProposalUnmarshal,
                PinCodesProposalMarshal, PinCodesProposalSize,
                PinCodesProposalEqual),
     Comparable(UnpinCodesProposal, UnpinCodesProposalUnmarshal,
                UnpinCodesProposalMarshal, UnpinCodesProposalSize,
                UnpinCodesProposalEqual),
     Comparable(AccessConfigUpdate, AccessConfigUpdateUnmarshal,
                AccessConfigUpdateMarshal, AccessConfigUpdateSize,
                AccessConfigUpdateEqual),
     Comparable(UpdateInstantiateConfigProposal,
                UpdateInstantiateConfigProposalUnmarshal,
                UpdateInstantiateConfigProposalMarshal,
                UpdateInstantiateConfigProposalSize,
                UpdateInstantiateConfigProposalEqual),
     Comparable(StoreAndInstantiateContractProposal,
                StoreAndInstantiateContractProposalUnmarshal,
                StoreAndInstantiateContractProposalMarshal,
                StoreAndInstantiateContractProposalSize,
                StoreAndInstantiateContractProposalEqual) >>
=============================================================================
