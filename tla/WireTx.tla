------------------------------- MODULE WireTx -------------------------------
(***************************************************************************)
(* The codec tables of tx.pb.go: the messages of the message server and     *)
(* their responses. Each table is read off the function it is named for;    *)
(* see Wire for what an entry stands for.                                   *)
(***************************************************************************)
EXTENDS WireState

MsgStoreCode == <<Str(1), Str(2), Ptr(5, AccessConfig)>>
MsgStoreCodeUnmarshal == <<Str(1), Str(2), Ptr(5, AccessConfigUnmarshal)>>
MsgStoreCodeMarshal == <<Str(1), Str(2), Ptr(5, AccessConfigMarshal)>>
MsgStoreCodeSize == <<Str(1), Str(2), Ptr(5, AccessConfigSize)>>

MsgStoreCodeResponse == <<Num(1), Str(2)>>
MsgStoreCodeResponseUnmarshal == <<Num(1), Str(2)>>
MsgStoreCodeResponseMarshal == <<Num(1), Str(2)>>
MsgStoreCodeResponseSize == <<Num(1), Str(2)>>

MsgInstantiateContract ==
  <<Str(1), Str(2), Num(3), Str(4), Str(5), List(6, Opaque)>>
MsgInstantiateContractUnmarshal ==
  <<Str(1), Str(2), Num(3), Str(4), Str(5), List(6, Opaque)>>
MsgInstantiateContractMarshal ==
  <<Str(1), Str(2), Num(3), Str(4), Str(5), List(6, Opaque)>>
MsgInstantiateContractSize ==
  <<Str(1), Str(2), Num(3), Str(4), Str(5), List(6, Opaque)>>

MsgInstantiateContractResponse == <<Str(1), Str(2)>>
MsgInstantiateContractResponseUnmarshal == <<Str(1), Str(2)>>
MsgInstantiateContractResponseMarshal == <<Str(1), Str(2)>>
MsgInstantiateContractResponseSize == <<Str(1), Str(2)>>

MsgInstantiateContract2 ==
  <<Str(1), Str(2), Num(3), Str(4), Str(5), List(6, Opaque), Str(7), Flag(8)>>
MsgInstantiateContract2Unmarshal ==
  <<Str(1), Str(2), Num(3), Str(4), Str(5), List(6, Opaque), Str(7), Flag(8)>>
MsgInstantiateContract2Marshal ==
  <<Str(1), Str(2), Num(3), Str(4), Str(5), List(6, Opaque), Str(7), Flag(8)>>
MsgInstantiateContract2Size ==
  <<Str(1), Str(2), Num(3), Str(4), Str(5), List(6, Opaque), Str(7), Flag(8)>>

MsgInstantiateContract2Response == <<Str(1), Str(2)>>
MsgInstantiateContract2ResponseUnmarshal == <<Str(1), Str(2)>>
MsgInstantiateContract2ResponseMarshal == <<Str(1), Str(2)>>
MsgInstantiateContract2ResponseSize == <<Str(1), Str(2)>>

MsgExecuteContract == <<Str(1), Str(2), Str(3), List(5, Opaque)>>
MsgExecuteContractUnmarshal == <<Str(1), Str(2), Str(3), List(5, Opaque)>>
MsgExecuteContractMarshal == <<Str(1), Str(2), Str(3), List(5, Opaque)>>
MsgExecuteContractSize == <<Str(1), Str(2), Str(3), List(5, Opaque)>>

MsgExecuteContractResponse == <<Str(1)>>
MsgExecuteContractResponseUnmarshal == <<Str(1)>>
MsgExecuteContractResponseMarshal == <<Str(1)>>
MsgExecuteContractResponseSize == <<Str(1)>>

MsgMigrateContract == <<Str(1), Str(2), Num(3), Str(4)>>
MsgMigrateContractUnmarshal == <<Str(1), Str(2), Num(3), Str(4)>>
MsgMigrateContractMarshal == <<Str(1), Str(2), Num(3), Str(4)>>
MsgMigrateContractSize == <<Str(1), Str(2), Num(3), Str(4)>>

MsgMigrateContractResponse == <<Str(1)>>
MsgMigrateContractResponseUnmarshal == <<Str(1)>>
MsgMigrateContractResponseMarshal == <<Str(1)>>
MsgMigrateContractResponseSize == <<Str(1)>>

MsgUpdateAdmin == <<Str(1), Str(2), Str(3)>>
MsgUpdateAdminUnmarshal == <<Str(1), Str(2), Str(3)>>
MsgUpdateAdminMarshal == <<Str(1), Str(2), Str(3)>>
MsgUpdateAdminSize == <<Str(1), Str(2), Str(3)>>

MsgUpdateAdminResponse == <<>>
MsgUpdateAdminResponseUnmarshal == <<>>
MsgUpdateAdminResponseMarshal == <<>>
MsgUpdateAdminResponseSize == <<>>

MsgClearAdmin == <<Str(1), Str(3)>>
MsgClearAdminUnmarshal == <<Str(1), Str(3)>>
MsgClearAdminMarshal == <<Str(1), Str(3)>>
MsgClearAdminSize == <<Str(1), Str(3)>>

MsgClearAdminResponse == <<>>
MsgClearAdminResponseUnmarshal == <<>>
MsgClearAdminResponseMarshal == <<>>
MsgClearAdminResponseSize == <<>>

MsgUpdateInstantiateConfig == <<Str(1), Num(2), Ptr(3, AccessConfig)>>
MsgUpdateInstantiateConfigUnmarshal ==
  <<Str(1), Num(2), Ptr(3, AccessConfigUnmarshal)>>
MsgUpdateInstantiateConfigMarshal ==
  <<Str(1), Num(2), Ptr(3, AccessConfigMarshal)>>
MsgUpdateInstantiateConfigSize == <<Str(1), Num(2), Ptr(3, AccessConfigSize)>>

MsgUpdateInstantiateConfigResponse == <<>>
MsgUpdateInstantiateConfigResponseUnmarshal == <<>>
MsgUpdateInstantiateConfigResponseMarshal == <<>>
MsgUpdateInstantiateConfigResponseSize == <<>>

MsgUpdateParams == <<Str(1), Emb(2, Params)>>
MsgUpdateParamsUnmarshal == <<Str(1), Emb(2, ParamsUnmarshal)>>
MsgUpdateParamsMarshal == <<Str(1), Emb(2, ParamsMarshal)>>
MsgUpdateParamsSize == <<Str(1), Emb(2, ParamsSize)>>

MsgUpdateParamsResponse == <<>>
MsgUpdateParamsResponseUnmarshal == <<>>
MsgUpdateParamsResponseMarshal == <<>>
MsgUpdateParamsResponseSize == <<>>

MsgSudoContract == <<Str(1), Str(2), Str(3)>>
MsgSudoContractUnmarshal == <<Str(1), Str(2), Str(3)>>
MsgSudoContractMarshal == <<Str(1), Str(2), Str(3)>>
MsgSudoContractSize == <<Str(1), Str(2), Str(3)>>

MsgSudoContractResponse == <<Str(1)>>
MsgSudoContractResponseUnmarshal == <<Str(1)>>
MsgSudoContractResponseMarshal == <<Str(1)>>
MsgSudoContractResponseSize == <<Str(1)>>

MsgPinCodes == <<Str(1), Nums(2)>>
MsgPinCodesUnmarshal == <<Str(1), Nums(2)>>
MsgPinCodesMarshal == <<Str(1), Nums(2)>>
MsgPinCodesSize == <<Str(1), Nums(2)>>

MsgPinCodesResponse == <<>>
MsgPinCodesResponseUnmarshal == <<>>
MsgPinCodesResponseMarshal == <<>>
MsgPinCodesResponseSize == <<>>

MsgUnpinCodes == <<Str(1), Nums(2)>>
MsgUnpinCodesUnmarshal == <<Str(1), Nums(2)>>
MsgUnpinCodesMarshal == <<Str(1), Nums(2)>>
MsgUnpinCodesSize == <<Str(1), Nums(2)>>

MsgUnpinCodesResponse == <<>>
MsgUnpinCodesResponseUnmarshal == <<>>
MsgUnpinCodesResponseMarshal == <<>>
MsgUnpinCodesResponseSize == <<>>

MsgStoreAndInstantiateContract ==
  <<Str(1), Str(3), Ptr(4, AccessConfig), Flag(5), Str(6), Str(7), Str(8),
    List(9, Opaque), Str(10), Str(11), Str(12)>>
MsgStoreAndInstantiateContractUnmarshal ==
  <<Str(1), Str(3), Ptr(4, AccessConfigUnmarshal), Flag(5), Str(6), Str(7),
    Str(8), List(9, Opaque), Str(10), Str(11), Str(12)>>
MsgStoreAndInstantiateContractMarshal ==
  <<Str(1), Str(3), Ptr(4, AccessConfigMarshal), Flag(5), Str(6), Str(7),
    Str(8), List(9, Opaque), Str(10), Str(11), Str(12)>>
MsgStoreAndInstantiateContractSize ==
  <<Str(1), Str(3), Ptr(4, AccessConfigSize), Flag(5), Str(6), Str(7), Str(8),
    List(9, Opaque), Str(10), Str(11), Str(12)>>

MsgStoreAndInstantiateContractResponse == <<Str(1), Str(2)>>
MsgStoreAndInstantiateContractResponseUnmarshal == <<Str(1), Str(2)>>
MsgStoreAndInstantiateContractResponseMarshal == <<Str(1), Str(2)>>
MsgStoreAndInstantiateContractResponseSize == <<Str(1), Str(2)>>

MsgAddCodeUploadParamsAddresses == <<Str(1), Strs(2)>>
MsgAddCodeUploadParamsAddressesUnmarshal == <<Str(1), Strs(2)>>
MsgAddCodeUploadParamsAddressesMarshal == <<Str(1), Strs(2)>>
MsgAddCodeUploadParamsAddressesSize == <<Str(1), Strs(2)>>

MsgAddCodeUploadParamsAddressesResponse == <<>>
MsgAddCodeUploadParamsAddressesResponseUnmarshal == <<>>
MsgAddCodeUploadParamsAddressesResponseMarshal == <<>>
MsgAddCodeUploadParamsAddressesResponseSize == <<>>

MsgRemoveCodeUploadParamsAddresses == <<Str(1), Strs(2)>>
MsgRemoveCodeUploadParamsAddressesUnmarshal == <<Str(1), Strs(2)>>
MsgRemoveCodeUploadParamsAddressesMarshal == <<Str(1), Strs(2)>>
MsgRemoveCodeUploadParamsAddressesSize == <<Str(1), Strs(2)>>

MsgRemoveCodeUploadParamsAddressesResponse == <<>>
MsgRemoveCodeUploadParamsAddressesResponseUnmarshal == <<>>
MsgRemoveCodeUploadParamsAddressesResponseMarshal == <<>>
MsgRemoveCodeUploadParamsAddressesResponseSize == <<>>

MsgStoreAndMigrateContract ==
  <<Str(1), Str(2), Ptr(3, AccessConfig), Str(4), Str(5)>>
MsgStoreAndMigrateContractUnmarshal ==
  <<Str(1), Str(2), Ptr(3, AccessConfigUnmarshal), Str(4), Str(5)>>
MsgStoreAndMigrateContractMarshal ==
  <<Str(1), Str(2), Ptr(3, AccessConfigMarshal), Str(4), Str(5)>>
MsgStoreAndMigrateContractSize ==
  <<Str(1), Str(2), Ptr(3, AccessConfigSize), Str(4), Str(5)>>

MsgStoreAndMigrateContractResponse == <<Num(1), Str(2), Str(3)>>
MsgStoreAndMigrateContractResponseUnmarshal == <<Num(1), Str(2), Str(3)>>
MsgStoreAndMigrateContractResponseMarshal == <<Num(1), Str(2), Str(3)>>
MsgStoreAndMigrateContractResponseSize == <<Num(1), Str(2), Str(3)>>

MsgUpdateContractLabel == <<Str(1), Str(2), Str(3)>>
MsgUpdateContractLabelUnmarshal == <<Str(1), Str(2), Str(3)>>
MsgUpdateContractLabelMarshal == <<Str(1), Str(2), Str(3)>>
MsgUpdateContractLabelSize == <<Str(1), Str(2), Str(3)>>

MsgUpdateContractLabelResponse == <<>>
MsgUpdateContractLabelResponseUnmarshal == <<>>
MsgUpdateContractLabelResponseMarshal == <<>>
MsgUpdateContractLabelResponseSize == <<>>

----------------------------------------------------------------------------

TxMessages ==
  << Message(MsgStoreCode, MsgStoreCodeUnmarshal, MsgStoreCodeMarshal,
             MsgStoreCodeSize),
     Message(MsgStoreCodeResponse, MsgStoreCodeResponseUnmarshal,
             MsgStoreCodeResponseMarshal, MsgStoreCodeResponseSize),
     Message(MsgInstantiateContract, MsgInstantiateContractUnmarshal,
             MsgInstantiateContractMarshal, MsgInstantiateContractSize),
     Message(MsgInstantiateContractResponse,
             MsgInstantiateContractResponseUnmarshal,
             MsgInstantiateContractResponseMarshal,
             MsgInstantiateContractResponseSize),
     Message(MsgInstantiateContract2, MsgInstantiateContract2Unmarshal,
             MsgInstantiateContract2Marshal, MsgInstantiateContract2Size),
     Message(MsgInstantiateContract2Response,
             MsgInstantiateContract2ResponseUnmarshal,
             MsgInstantiateContract2ResponseMarshal,
             MsgInstantiateContract2ResponseSize),
     Message(MsgExecuteContract, MsgExecuteContractUnmarshal,
             MsgExecuteContractMarshal, MsgExecuteContractSize),
     Message(MsgExecuteContractResponse, MsgExecuteContractResponseUnmarshal,
             MsgExecuteContractResponseMarshal, MsgExecuteContractResponseSize),
     Message(MsgMigrateContract, MsgMigrateContractUnmarshal,
             MsgMigrateContractMarshal, MsgMigrateContractSize),
     Message(MsgMigrateContractResponse, MsgMigrateContractResponseUnmarshal,
             MsgMigrateContractResponseMarshal, MsgMigrateContractResponseSize),
     Message(MsgUpdateAdmin, MsgUpdateAdminUnmarshal, MsgUpdateAdminMarshal,
             MsgUpdateAdminSize),
     Message(MsgUpdateAdminResponse, MsgUpdateAdminResponseUnmarshal,
             MsgUpdateAdminResponseMarshal, MsgUpdateAdminResponseSize),
     Message(MsgClearAdmin, MsgClearAdminUnmarshal, MsgClearAdminMarshal,
             MsgClearAdminSize),
     Message(MsgClearAdminResponse, MsgClearAdminResponseUnmarshal,
             MsgClearAdminResponseMarshal, MsgClearAdminResponseSize),
     Message(MsgUpdateInstantiateConfig, MsgUpdateInstantiateConfigUnmarshal,
             MsgUpdateInstantiateConfigMarshal, MsgUpdateInstantiateConfigSize),
     Message(MsgUpdateInstantiateConfigResponse,
             MsgUpdateInstantiateConfigResponseUnmarshal,
             MsgUpdateInstantiateConfigResponseMarshal,
             MsgUpdateInstantiateConfigResponseSize),
     Message(MsgUpdateParams, MsgUpdateParamsUnmarshal, MsgUpdateParamsMarshal,
             MsgUpdateParamsSize),
     Message(MsgUpdateParamsResponse, MsgUpdateParamsResponseUnmarshal,
             MsgUpdateParamsResponseMarshal, MsgUpdateParamsResponseSize),
     Message(MsgSudoContract, MsgSudoContractUnmarshal, MsgSudoContractMarshal,
             MsgSudoContractSize),
     Message(MsgSudoContractResponse, MsgSudoContractResponseUnmarshal,
             MsgSudoContractResponseMarshal, MsgSudoContractResponseSize),
     Message(MsgPinCodes, MsgPinCodesUnmarshal, MsgPinCodesMarshal,
             MsgPinCodesSize),
     Message(MsgPinCodesResponse, MsgPinCodesResponseUnmarshal,
             MsgPinCodesResponseMarshal, MsgPinCodesResponseSize),
     Message(MsgUnpinCodes, MsgUnpinCodesUnmarshal, MsgUnpinCodesMarshal,
             MsgUnpinCodesSize),
     Message(MsgUnpinCodesResponse, MsgUnpinCodesResponseUnmarshal,
             MsgUnpinCodesResponseMarshal, MsgUnpinCodesResponseSize),
     Message(MsgStoreAndInstantiateContract,
             MsgStoreAndInstantiateContractUnmarshal,
             MsgStoreAndInstantiateContractMarshal,
             MsgStoreAndInstantiateContractSize),
     Message(MsgStoreAndInstantiateContractResponse,
             MsgStoreAndInstantiateContractResponseUnmarshal,
             MsgStoreAndInstantiateContractResponseMarshal,
             MsgStoreAndInstantiateContractResponseSize),
     Message(MsgAddCodeUploadParamsAddresses,
             MsgAddCodeUploadParamsAddressesUnmarshal,
             MsgAddCodeUploadParamsAddressesMarshal,
             MsgAddCodeUploadParamsAddressesSize),
     Message(MsgAddCodeUploadParamsAddressesResponse,
             MsgAddCodeUploadParamsAddressesResponseUnmarshal,
             MsgAddCodeUploadParamsAddressesResponseMarshal,
             MsgAddCodeUploadParamsAddressesResponseSize),
     Message(MsgRemoveCodeUploadParamsAddresses,
             MsgRemoveCodeUploadParamsAddressesUnmarshal,
             MsgRemoveCodeUploadParamsAddressesMarshal,
             MsgRemoveCodeUploadParamsAddressesSize),
     Message(MsgRemoveCodeUploadParamsAddressesResponse,
             MsgRemoveCodeUploadParamsAddressesResponseUnmarshal,
             MsgRemoveCodeUploadParamsAddressesResponseMarshal,
             MsgRemoveCodeUploadParamsAddressesResponseSize),
     Message(MsgStoreAndMigrateContract, MsgStoreAndMigrateContractUnmarshal,
             MsgStoreAndMigrateContractMarshal, MsgStoreAndMigrateContractSize),
     Message(MsgStoreAndMigrateContractResponse,
             MsgStoreAndMigrateContractResponseUnmarshal,
             MsgStoreAndMigrateContractResponseMarshal,
             MsgStoreAndMigrateContractResponseSize),
     Message(MsgUpdateContractLabel, MsgUpdateContractLabelUnmarshal,
             MsgUpdateContractLabelMarshal, MsgUpdateContractLabelSize),
     Message(MsgUpdateContractLabelResponse,
             MsgUpdateContractLabelResponseUnmarshal,
             MsgUpdateContractLabelResponseMarshal,
             MsgUpdateContractLabelResponseSize) >>
=============================================================================
