----------------------------- MODULE WireState ------------------------------
(***************************************************************************)
(* The codec tables of types.pb.go, genesis.pb.go and ibc.pb.go: the        *)
(* stored types, the genesis document and the messages that contracts send  *)
(* over IBC. Each table is read off the function it is named for; see Wire  *)
(* for what an entry stands for.                                            *)
(***************************************************************************)
EXTENDS Wire

AccessTypeParam == <<Num(1)>>
AccessTypeParamUnmarshal == <<Num(1)>>
AccessTypeParamMarshal == <<Num(1)>>
AccessTypeParamSize == <<Num(1)>>
AccessTypeParamEqual == <<Num(1)>>

AccessConfig == <<Num(1), Strs(3)>>
AccessConfigUnmarshal == <<Num(1), Strs(3)>>
AccessConfigMarshal == <<Num(1), Strs(3)>>
AccessConfigSize == <<Num(1), Strs(3)>>
AccessConfigEqual == <<Num(1), Strs(3)>>

Params == <<Emb(1, AccessConfig), Num(2)>>
ParamsUnmarshal == <<Emb(1, AccessConfigUnmarshal), Num(2)>>
ParamsMarshal == <<Emb(1, AccessConfigMarshal), Num(2)>>
ParamsSize == <<Emb(1, AccessConfigSize), Num(2)>>
ParamsEqual == <<Emb(1, AccessConfigEqual), Num(2)>>

CodeInfo == <<Str(1), Str(2), Emb(5, AccessConfig)>>
CodeInfoUnmarshal == <<Str(1), Str(2), Emb(5, AccessConfigUnmarshal)>>
CodeInfoMarshal == <<Str(1), Str(2), Emb(5, AccessConfigMarshal)>>
CodeInfoSize == <<Str(1), Str(2), Emb(5, AccessConfigSize)>>
CodeInfoEqual == <<Str(1), Str(2), Emb(5, AccessConfigEqual)>>

AbsoluteTxPosition == <<Num(1), Num(2)>>
AbsoluteTxPositionUnmarshal == <<Num(1), Num(2)>>
AbsoluteTxPositionMarshal == <<Num(1), Num(2)>>
AbsoluteTxPositionSize == <<Num(1), Num(2)>>
AbsoluteTxPositionEqual == <<Num(1), Num(2)>>

ContractInfo ==
  <<Num(1), Str(2), Str(3), Str(4), Ptr(5, AbsoluteTxPosition), Str(6),
    Ptr(7, Opaque), Str(8)>>
ContractInfoUnmarshal ==
  <<Num(1), Str(2), Str(3), Str(4), Ptr(5, AbsoluteTxPositionUnmarshal), Str(6),
    Ptr(7, Opaque), Str(8)>>
ContractInfoMarshal ==
  <<Num(1), Str(2), Str(3), Str(4), Ptr(5, AbsoluteTxPositionMarshal), Str(6),
    Ptr(7, Opaque), Str(8)>>
(* Mutant: the IBC v2 port, which was added last, is not counted. *)
ContractInfoSizeNoIBC2 ==
  <<Num(1), Str(2), Str(3), Str(4), Ptr(5, AbsoluteTxPositionSize), Str(6),
    Ptr(7, Opaque)>>

ContractInfoSize ==
  <<Num(1), Str(2), Str(3), Str(4), Ptr(5, AbsoluteTxPositionSize), Str(6),
    Ptr(7, Opaque), Str(8)>>
ContractInfoEqual ==
  <<Num(1), Str(2), Str(3), Str(4), Ptr(5, AbsoluteTxPositionEqual), Str(6),
    Ptr(7, Opaque), Str(8)>>

ContractCodeHistoryEntry ==
  <<Num(1), Num(2), Ptr(3, AbsoluteTxPosition), Str(4)>>
ContractCodeHistoryEntryUnmarshal ==
  <<Num(1), Num(2), Ptr(3, AbsoluteTxPositionUnmarshal), Str(4)>>
ContractCodeHistoryEntryMarshal ==
  <<Num(1), Num(2), Ptr(3, AbsoluteTxPositionMarshal), Str(4)>>
ContractCodeHistoryEntrySize ==
  <<Num(1), Num(2), Ptr(3, AbsoluteTxPositionSize), Str(4)>>
ContractCodeHistoryEntryEqual ==
  <<Num(1), Num(2), Ptr(3, AbsoluteTxPositionEqual), Str(4)>>

Model == <<Str(1), Str(2)>>
ModelUnmarshal == <<Str(1), Str(2)>>
ModelMarshal == <<Str(1), Str(2)>>
ModelSize == <<Str(1), Str(2)>>
ModelEqual == <<Str(1), Str(2)>>

Code == <<Num(1), Emb(2, CodeInfo), Str(3), Flag(4)>>
CodeUnmarshal == <<Num(1), Emb(2, CodeInfoUnmarshal), Str(3), Flag(4)>>
CodeMarshal == <<Num(1), Emb(2, CodeInfoMarshal), Str(3), Flag(4)>>
CodeSize == <<Num(1), Emb(2, CodeInfoSize), Str(3), Flag(4)>>

Contract ==
  <<Str(1), Emb(2, ContractInfo), List(3, Model),
    List(4, ContractCodeHistoryEntry)>>
ContractUnmarshal ==
  <<Str(1), Emb(2, ContractInfoUnmarshal), List(3, ModelUnmarshal),
    List(4, ContractCodeHistoryEntryUnmarshal)>>
ContractMarshal ==
  <<Str(1), Emb(2, ContractInfoMarshal), List(3, ModelMarshal),
    List(4, ContractCodeHistoryEntryMarshal)>>
ContractSize ==
  <<Str(1), Emb(2, ContractInfoSize), List(3, ModelSize),
    List(4, ContractCodeHistoryEntrySize)>>

Sequence == <<Str(1), Num(2)>>
SequenceUnmarshal == <<Str(1), Num(2)>>
SequenceMarshal == <<Str(1), Num(2)>>
SequenceSize == <<Str(1), Num(2)>>

GenesisState ==
  <<Emb(1, Params), List(2, Code), List(3, Contract), List(4, Sequence)>>
GenesisStateUnmarshal ==
  <<Emb(1, ParamsUnmarshal), List(2, CodeUnmarshal), List(3, ContractUnmarshal),
    List(4, SequenceUnmarshal)>>
GenesisStateMarshal ==
  <<Emb(1, ParamsMarshal), List(2, CodeMarshal), List(3, ContractMarshal),
    List(4, SequenceMarshal)>>
GenesisStateSize ==
  <<Emb(1, ParamsSize), List(2, CodeSize), List(3, ContractSize),
    List(4, SequenceSize)>>

MsgIBCSend == <<Str(2), Num(4), Num(5), Str(6)>>
MsgIBCSendUnmarshal == <<Str(2), Num(4), Num(5), Str(6)>>
MsgIBCSendMarshal == <<Str(2), Num(4), Num(5), Str(6)>>
MsgIBCSendSize == <<Str(2), Num(4), Num(5), Str(6)>>

MsgIBCSendResponse == <<Num(1)>>
MsgIBCSendResponseUnmarshal == <<Num(1)>>
MsgIBCSendResponseMarshal == <<Num(1)>>
MsgIBCSendResponseSize == <<Num(1)>>

MsgIBCWriteAcknowledgementResponse == <<>>
MsgIBCWriteAcknowledgementResponseUnmarshal == <<>>
MsgIBCWriteAcknowledgementResponseMarshal == <<>>
MsgIBCWriteAcknowledgementResponseSize == <<>>

MsgIBCCloseChannel == <<Str(2)>>
MsgIBCCloseChannelUnmarshal == <<Str(2)>>
MsgIBCCloseChannelMarshal == <<Str(2)>>
MsgIBCCloseChannelSize == <<Str(2)>>

----------------------------------------------------------------------------

StateMessages ==
  << Comparable(AccessTypeParam, AccessTypeParamUnmarshal,
                AccessTypeParamMarshal, AccessTypeParamSize,
                AccessTypeParamEqual),
     Comparable(AccessConfig, AccessConfigUnmarshal, AccessConfigMarshal,
                AccessConfigSize, AccessConfigEqual),
     Comparable(Params, ParamsUnmarshal, ParamsMarshal, ParamsSize,
                ParamsEqual),
     Comparable(CodeInfo, CodeInfoUnmarshal, CodeInfoMarshal, CodeInfoSize,
                CodeInfoEqual),
     Comparable(AbsoluteTxPosition, AbsoluteTxPositionUnmarshal,
                AbsoluteTxPositionMarshal, AbsoluteTxPositionSize,
                AbsoluteTxPositionEqual),
     Comparable(ContractInfo, ContractInfoUnmarshal, ContractInfoMarshal,
                ContractInfoSize, ContractInfoEqual),
     Comparable(ContractCodeHistoryEntry, ContractCodeHistoryEntryUnmarshal,
                ContractCodeHistoryEntryMarshal, ContractCodeHistoryEntrySize,
                ContractCodeHistoryEntryEqual),
     Comparable(Model, ModelUnmarshal, ModelMarshal, ModelSize, ModelEqual),
     Message(Code, CodeUnmarshal, CodeMarshal, CodeSize),
     Message(Contract, ContractUnmarshal, ContractMarshal, ContractSize),
     Message(Sequence, SequenceUnmarshal, SequenceMarshal, SequenceSize),
     Message(GenesisState, GenesisStateUnmarshal, GenesisStateMarshal,
             GenesisStateSize),
     Message(MsgIBCSend, MsgIBCSendUnmarshal, MsgIBCSendMarshal,
             MsgIBCSendSize),
     Message(MsgIBCSendResponse, MsgIBCSendResponseUnmarshal,
             MsgIBCSendResponseMarshal, MsgIBCSendResponseSize),
     Message(MsgIBCWriteAcknowledgementResponse,
             MsgIBCWriteAcknowledgementResponseUnmarshal,
             MsgIBCWriteAcknowledgementResponseMarshal,
             MsgIBCWriteAcknowledgementResponseSize),
     Message(MsgIBCCloseChannel, MsgIBCCloseChannelUnmarshal,
             MsgIBCCloseChannelMarshal, MsgIBCCloseChannelSize) >>
=============================================================================
