----------------------------- MODULE WireQuery ------------------------------
(***************************************************************************)
(* The codec tables of query.pb.go: the requests and responses of the       *)
(* query server. Each table is read off the function it is named for; see   *)
(* Wire for what an entry stands for.                                       *)
(***************************************************************************)
EXTENDS WireState

QueryContractInfoRequest == <<Str(1)>>
QueryContractInfoRequestUnmarshal == <<Str(1)>>
QueryContractInfoRequestMarshal == <<Str(1)>>
QueryContractInfoRequestSize == <<Str(1)>>

QueryContractInfoResponse == <<Str(1), Emb(2, ContractInfo)>>
QueryContractInfoResponseUnmarshal == <<Str(1), Emb(2, ContractInfoUnmarshal)>>
QueryContractInfoResponseMarshal == <<Str(1), Emb(2, ContractInfoMarshal)>>
QueryContractInfoResponseSize == <<Str(1), Emb(2, ContractInfoSize)>>
QueryContractInfoResponseEqual == <<Str(1), Emb(2, ContractInfoEqual)>>

QueryContractHistoryRequest == <<Str(1), Ptr(2, Opaque)>>
QueryContractHistoryRequestUnmarshal == <<Str(1), Ptr(2, Opaque)>>
QueryContractHistoryRequestMarshal == <<Str(1), Ptr(2, Opaque)>>
QueryContractHistoryRequestSize == <<Str(1), Ptr(2, Opaque)>>

QueryContractHistoryResponse ==
  <<List(1, ContractCodeHistoryEntry), Ptr(2, Opaque)>>
QueryContractHistoryResponseUnmarshal ==
  <<List(1, ContractCodeHistoryEntryUnmarshal), Ptr(2, Opaque)>>
QueryContractHistoryResponseMarshal ==
  <<List(1, ContractCodeHistoryEntryMarshal), Ptr(2, Opaque)>>
QueryContractHistoryResponseSize ==
  <<List(1, ContractCodeHistoryEntrySize), Ptr(2, Opaque)>>

QueryContractsByCodeRequest == <<Num(1), Ptr(2, Opaque)>>
QueryContractsByCodeRequestUnmarshal == <<Num(1), Ptr(2, Opaque)>>
QueryContractsByCodeRequestMarshal == <<Num(1), Ptr(2, Opaque)>>
QueryContractsByCodeRequestSize == <<Num(1), Ptr(2, Opaque)>>

QueryContractsByCodeResponse == <<Strs(1), Ptr(2, Opaque)>>
QueryContractsByCodeResponseUnmarshal == <<Strs(1), Ptr(2, Opaque)>>
QueryContractsByCodeResponseMarshal == <<Strs(1), Ptr(2, Opaque)>>
QueryContractsByCodeResponseSize == <<Strs(1), Ptr(2, Opaque)>>

QueryAllContractStateRequest == <<Str(1), Ptr(2, Opaque)>>
QueryAllContractStateRequestUnmarshal == <<Str(1), Ptr(2, Opaque)>>
QueryAllContractStateRequestMarshal == <<Str(1), Ptr(2, Opaque)>>
QueryAllContractStateRequestSize == <<Str(1), Ptr(2, Opaque)>>

QueryAllContractStateResponse == <<List(1, Model), Ptr(2, Opaque)>>
QueryAllContractStateResponseUnmarshal ==
  <<List(1, ModelUnmarshal), Ptr(2, Opaque)>>
QueryAllContractStateResponseMarshal ==
  <<List(1, ModelMarshal), Ptr(2, Opaque)>>
QueryAllContractStateResponseSize == <<List(1, ModelSize), Ptr(2, Opaque)>>

QueryRawContractStateRequest == <<Str(1), Str(2)>>
QueryRawContractStateRequestUnmarshal == <<Str(1), Str(2)>>
QueryRawContractStateRequestMarshal == <<Str(1), Str(2)>>
QueryRawContractStateRequestSize == <<Str(1), Str(2)>>

QueryRawContractStateResponse == <<Str(1)>>
QueryRawContractStateResponseUnmarshal == <<Str(1)>>
QueryRawContractStateResponseMarshal == <<Str(1)>>
QueryRawContractStateResponseSize == <<Str(1)>>

QuerySmartContractStateRequest == <<Str(1), Str(2)>>
QuerySmartContractStateRequestUnmarshal == <<Str(1), Str(2)>>
QuerySmartContractStateRequestMarshal == <<Str(1), Str(2)>>
QuerySmartContractStateRequestSize == <<Str(1), Str(2)>>

QuerySmartContractStateResponse == <<Str(1)>>
QuerySmartContractStateResponseUnmarshal == <<Str(1)>>
QuerySmartContractStateResponseMarshal == <<Str(1)>>
QuerySmartContractStateResponseSize == <<Str(1)>>

QueryCodeRequest == <<Num(1)>>
QueryCodeRequestUnmarshal == <<Num(1)>>
QueryCodeRequestMarshal == <<Num(1)>>
QueryCodeRequestSize == <<Num(1)>>

QueryCodeInfoRequest == <<Num(1)>>
QueryCodeInfoRequestUnmarshal == <<Num(1)>>
QueryCodeInfoRequestMarshal == <<Num(1)>>
QueryCodeInfoRequestSize == <<Num(1)>>

QueryCodeInfoResponse == <<Num(1), Str(2), Str(3), Emb(4, AccessConfig)>>
QueryCodeInfoResponseUnmarshal ==
  <<Num(1), Str(2), Str(3), Emb(4, AccessConfigUnmarshal)>>
QueryCodeInfoResponseMarshal ==
  <<Num(1), Str(2), Str(3), Emb(4, AccessConfigMarshal)>>
QueryCodeInfoResponseSize ==
  <<Num(1), Str(2), Str(3), Emb(4, AccessConfigSize)>>
QueryCodeInfoResponseEqual ==
  <<Num(1), Str(2), Str(3), Emb(4, AccessConfigEqual)>>

CodeInfoResponse == <<Num(1), Str(2), Str(3), Emb(6, AccessConfig)>>
CodeInfoResponseUnmarshal ==
  <<Num(1), Str(2), Str(3), Emb(6, AccessConfigUnmarshal)>>
CodeInfoResponseMarshal ==
  <<Num(1), Str(2), Str(3), Emb(6, AccessConfigMarshal)>>
CodeInfoResponseSize == <<Num(1), Str(2), Str(3), Emb(6, AccessConfigSize)>>
CodeInfoResponseEqual == <<Num(1), Str(2), Str(3), Emb(6, AccessConfigEqual)>>

QueryCodeResponse == <<Ptr(1, CodeInfoResponse), Str(2)>>
QueryCodeResponseUnmarshal == <<Ptr(1, CodeInfoResponseUnmarshal), Str(2)>>
QueryCodeResponseMarshal == <<Ptr(1, CodeInfoResponseMarshal), Str(2)>>
QueryCodeResponseSize == <<Ptr(1, CodeInfoResponseSize), Str(2)>>
QueryCodeResponseEqual == <<Ptr(1, CodeInfoResponseEqual), Str(2)>>

QueryCodesRequest == <<Ptr(1, Opaque)>>
QueryCodesRequestUnmarshal == <<Ptr(1, Opaque)>>
QueryCodesRequestMarshal == <<Ptr(1, Opaque)>>
QueryCodesRequestSize == <<Ptr(1, Opaque)>>

QueryCodesResponse == <<List(1, CodeInfoResponse), Ptr(2, Opaque)>>
QueryCodesResponseUnmarshal ==
  <<List(1, CodeInfoResponseUnmarshal), Ptr(2, Opaque)>>
QueryCodesResponseMarshal ==
  <<List(1, CodeInfoResponseMarshal), Ptr(2, Opaque)>>
QueryCodesResponseSize == <<List(1, CodeInfoResponseSize), Ptr(2, Opaque)>>

QueryPinnedCodesRequest == <<Ptr(2, Opaque)>>
QueryPinnedCodesRequestUnmarshal == <<Ptr(2, Opaque)>>
QueryPinnedCodesRequestMarshal == <<Ptr(2, Opaque)>>
QueryPinnedCodesRequestSize == <<Ptr(2, Opaque)>>

QueryPinnedCodesResponse == <<Nums(1), Ptr(2, Opaque)>>
QueryPinnedCodesResponseUnmarshal == <<Nums(1), Ptr(2, Opaque)>>
QueryPinnedCodesResponseMarshal == <<Nums(1), Ptr(2, Opaque)>>
QueryPinnedCodesResponseSize == <<Nums(1), Ptr(2, Opaque)>>

QueryParamsRequest == <<>>
QueryParamsRequestUnmarshal == <<>>
QueryParamsRequestMarshal == <<>>
QueryParamsRequestSize == <<>>

QueryParamsResponse == <<Emb(1, Params)>>
QueryParamsResponseUnmarshal == <<Emb(1, ParamsUnmarshal)>>
QueryParamsResponseMarshal == <<Emb(1, ParamsMarshal)>>
QueryParamsResponseSize == <<Emb(1, ParamsSize)>>

QueryContractsByCreatorRequest == <<Str(1), Ptr(2, Opaque)>>
QueryContractsByCreatorRequestUnmarshal == <<Str(1), Ptr(2, Opaque)>>
QueryContractsByCreatorRequestMarshal == <<Str(1), Ptr(2, Opaque)>>
QueryContractsByCreatorRequestSize == <<Str(1), Ptr(2, Opaque)>>

QueryContractsByCreatorResponse == <<Strs(1), Ptr(2, Opaque)>>
QueryContractsByCreatorResponseUnmarshal == <<Strs(1), Ptr(2, Opaque)>>
QueryContractsByCreatorResponseMarshal == <<Strs(1), Ptr(2, Opaque)>>
QueryContractsByCreatorResponseSize == <<Strs(1), Ptr(2, Opaque)>>

QueryWasmLimitsConfigRequest == <<>>
QueryWasmLimitsConfigRequestUnmarshal == <<>>
QueryWasmLimitsConfigRequestMarshal == <<>>
QueryWasmLimitsConfigRequestSize == <<>>

QueryWasmLimitsConfigResponse == <<Str(1)>>
QueryWasmLimitsConfigResponseUnmarshal == <<Str(1)>>
QueryWasmLimitsConfigResponseMarshal == <<Str(1)>>
QueryWasmLimitsConfigResponseSize == <<Str(1)>>

QueryBuildAddressRequest == <<Str(1), Str(2), Str(3), Str(4)>>
QueryBuildAddressRequestUnmarshal == <<Str(1), Str(2), Str(3), Str(4)>>
QueryBuildAddressRequestMarshal == <<Str(1), Str(2), Str(3), Str(4)>>
QueryBuildAddressRequestSize == <<Str(1), Str(2), Str(3), Str(4)>>

QueryBuildAddressResponse == <<Str(1)>>
QueryBuildAddressResponseUnmarshal == <<Str(1)>>
QueryBuildAddressResponseMarshal == <<Str(1)>>
QueryBuildAddressResponseSize == <<Str(1)>>

----------------------------------------------------------------------------

QueryMessages ==
  << Message(QueryContractInfoRequest, QueryContractInfoRequestUnmarshal,
             QueryContractInfoRequestMarshal, QueryContractInfoRequestSize),
     Comparable(QueryContractInfoResponse, QueryContractInfoResponseUnmarshal,
                QueryContractInfoResponseMarshal, QueryContractInfoResponseSize,
                QueryContractInfoResponseEqual),
     Message(QueryContractHistoryRequest, QueryContractHistoryRequestUnmarshal,
             QueryContractHistoryRequestMarshal,
             QueryContractHistoryRequestSize),
     Message(QueryContractHistoryResponse,
             QueryContractHistoryResponseUnmarshal,
             QueryContractHistoryResponseMarshal,
             QueryContractHistoryResponseSize),
     Message(QueryContractsByCodeRequest, QueryContractsByCodeRequestUnmarshal,
             QueryContractsByCodeRequestMarshal,
             QueryContractsByCodeRequestSize),
     Message(QueryContractsByCodeResponse,
             QueryContractsByCodeResponseUnmarshal,
             QueryContractsByCodeResponseMarshal,
             QueryContractsByCodeResponseSize),
     Message(QueryAllContractStateRequest,
             QueryAllContractStateRequestUnmarshal,
             QueryAllContractStateRequestMarshal,
             QueryAllContractStateRequestSize),
     Message(QueryAllContractStateResponse,
             QueryAllContractStateResponseUnmarshal,
             QueryAllContractStateResponseMarshal,
             QueryAllContractStateResponseSize),
     Message(QueryRawContractStateRequest,
             QueryRawContractStateRequestUnmarshal,
             QueryRawContractStateRequestMarshal,
             QueryRawContractStateRequestSize),
     Message(QueryRawContractStateResponse,
             QueryRawContractStateResponseUnmarshal,
             QueryRawContractStateResponseMarshal,
             QueryRawContractStateResponseSize),
     Message(QuerySmartContractStateRequest,
             QuerySmartContractStateRequestUnmarshal,
             QuerySmartContractStateRequestMarshal,
             QuerySmartContractStateRequestSize),
     Message(QuerySmartContractStateResponse,
             QuerySmartContractStateResponseUnmarshal,
             QuerySmartContractStateResponseMarshal,
             QuerySmartContractStateResponseSize),
     Message(QueryCodeRequest, QueryCodeRequestUnmarshal,
             QueryCodeRequestMarshal, QueryCodeRequestSize),
     Message(QueryCodeInfoRequest, QueryCodeInfoRequestUnmarshal,
             QueryCodeInfoRequestMarshal, QueryCodeInfoRequestSize),
     Comparable(QueryCodeInfoResponse, QueryCodeInfoResponseUnmarshal,
                QueryCodeInfoResponseMarshal, QueryCodeInfoResponseSize,
                QueryCodeInfoResponseEqual),
     Comparable(CodeInfoResponse, CodeInfoResponseUnmarshal,
                CodeInfoResponseMarshal, CodeInfoResponseSize,
                CodeInfoResponseEqual),
     Comparable(QueryCodeResponse, QueryCodeResponseUnmarshal,
                QueryCodeResponseMarshal, QueryCodeResponseSize,
                QueryCodeResponseEqual),
     Message(QueryCodesRequest, QueryCodesRequestUnmarshal,
             QueryCodesRequestMarshal, QueryCodesRequestSize),
     Message(QueryCodesResponse, QueryCodesResponseUnmarshal,
             QueryCodesResponseMarshal, QueryCodesResponseSize),
     Message(QueryPinnedCodesRequest, QueryPinnedCodesRequestUnmarshal,
             QueryPinnedCodesRequestMarshal, QueryPinnedCodesRequestSize),
     Message(QueryPinnedCodesResponse, QueryPinnedCodesResponseUnmarshal,
             QueryPinnedCodesResponseMarshal, QueryPinnedCodesResponseSize),
     Message(QueryParamsRequest, QueryParamsRequestUnmarshal,
             QueryParamsRequestMarshal, QueryParamsRequestSize),
     Message(QueryParamsResponse, QueryParamsResponseUnmarshal,
             QueryParamsResponseMarshal, QueryParamsResponseSize),
     Message(QueryContractsByCreatorRequest,
             QueryContractsByCreatorRequestUnmarshal,
             QueryContractsByCreatorRequestMarshal,
             QueryContractsByCreatorRequestSize),
     Message(QueryContractsByCreatorResponse,
             QueryContractsByCreatorResponseUnmarshal,
             QueryContractsByCreatorResponseMarshal,
             QueryContractsByCreatorResponseSize),
     Message(QueryWasmLimitsConfigRequest,
             QueryWasmLimitsConfigRequestUnmarshal,
             QueryWasmLimitsConfigRequestMarshal,
             QueryWasmLimitsConfigRequestSize),
     Message(QueryWasmLimitsConfigResponse,
             QueryWasmLimitsConfigResponseUnmarshal,
             QueryWasmLimitsConfigResponseMarshal,
             QueryWasmLimitsConfigResponseSize),
     Message(QueryBuildAddressRequest, QueryBuildAddressRequestUnmarshal,
             QueryBuildAddressRequestMarshal, QueryBuildAddressRequestSize),
     Message(QueryBuildAddressResponse, QueryBuildAddressResponseUnmarshal,
             QueryBuildAddressResponseMarshal, QueryBuildAddressResponseSize) >>
=============================================================================
