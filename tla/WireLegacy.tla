----------------------------- MODULE WireLegacy -----------------------------
(***************************************************************************)
(* The codec tables of migrations/v2/legacy_types.go and                    *)
(* migrations/v3/legacy_types.go: the stored types of consensus versions 2  *)
(* and 3, edited by hand after they were generated. Each table is read off  *)
(* the function it is named for; see Wire for what an entry stands for.     *)
(***************************************************************************)
EXTENDS WireState

V2AccessTypeParam == <<Num(1)>>
V2AccessTypeParamUnmarshal == <<Num(1)>>
V2AccessTypeParamMarshal == <<Num(1)>>
V2AccessTypeParamSize == <<Num(1)>>
V2AccessTypeParamEqual == <<Num(1)>>

V2AccessConfig == <<Num(1), Str(2), Strs(3)>>
V2AccessConfigUnmarshal == <<Num(1), Str(2), Strs(3)>>
V2AccessConfigMarshal == <<Num(1), Str(2), Strs(3)>>
V2AccessConfigSize == <<Num(1), Str(2), Strs(3)>>
V2AccessConfigEqual == <<Num(1), Str(2), Strs(3)>>

V2Params == <<Emb(1, V2AccessConfig), Num(2)>>
V2ParamsUnmarshal == <<Emb(1, V2AccessConfigUnmarshal), Num(2)>>
V2ParamsMarshal == <<Emb(1, V2AccessConfigMarshal), Num(2)>>
V2ParamsSize == <<Emb(1, V2AccessConfigSize), Num(2)>>
V2ParamsEqual == <<Emb(1, V2AccessConfigEqual), Num(2)>>

V2CodeInfo == <<Str(1), Str(2), Emb(5, V2AccessConfig)>>
V2CodeInfoUnmarshal == <<Str(1), Str(2), Emb(5, V2AccessConfigUnmarshal)>>
V2CodeInfoMarshal == <<Str(1), Str(2), Emb(5, V2AccessConfigMarshal)>>
V2CodeInfoSize == <<Str(1), Str(2), Emb(5, V2AccessConfigSize)>>
V2CodeInfoEqual == <<Str(1), Str(2), Emb(5, V2AccessConfigEqual)>>

V3AccessTypeParam == <<Num(1)>>
V3AccessTypeParamUnmarshal == <<Num(1)>>
V3AccessTypeParamMarshal == <<Num(1)>>
V3AccessTypeParamSize == <<Num(1)>>
V3AccessTypeParamEqual == <<Num(1)>>

V3AccessConfig == <<Num(1), Str(2), Strs(3)>>
(* Mutant: the list of addresses, which came later, is not read. *)
V3AccessConfigUnmarshalOld == <<Num(1), Str(2)>>

V3AccessConfigUnmarshal == <<Num(1), Str(2), Strs(3)>>
V3AccessConfigMarshal == <<Num(1), Str(2), Strs(3)>>
V3AccessConfigSize == <<Num(1), Str(2), Strs(3)>>
V3AccessConfigEqual == <<Num(1), Str(2), Strs(3)>>

V3Params == <<Emb(1, V3AccessConfig), Num(2)>>
V3ParamsUnmarshal == <<Emb(1, V3AccessConfigUnmarshal), Num(2)>>
V3ParamsMarshal == <<Emb(1, V3AccessConfigMarshal), Num(2)>>
V3ParamsSize == <<Emb(1, V3AccessConfigSize), Num(2)>>
V3ParamsEqual == <<Emb(1, V3AccessConfigEqual), Num(2)>>

V3CodeInfo == <<Str(1), Str(2), Emb(5, V3AccessConfig)>>
V3CodeInfoUnmarshal == <<Str(1), Str(2), Emb(5, V3AccessConfigUnmarshal)>>
V3CodeInfoMarshal == <<Str(1), Str(2), Emb(5, V3AccessConfigMarshal)>>
V3CodeInfoSize == <<Str(1), Str(2), Emb(5, V3AccessConfigSize)>>
V3CodeInfoEqual == <<Str(1), Str(2), Emb(5, V3AccessConfigEqual)>>

----------------------------------------------------------------------------

LegacyMessages ==
  << Comparable(V2AccessTypeParam, V2AccessTypeParamUnmarshal,
                V2AccessTypeParamMarshal, V2AccessTypeParamSize,
                V2AccessTypeParamEqual),
     Comparable(V2AccessConfig, V2AccessConfigUnmarshal, V2AccessConfigMarshal,
                V2AccessConfigSize, V2AccessConfigEqual),
     Comparable(V2Params, V2ParamsUnmarshal, V2ParamsMarshal, V2ParamsSize,
                V2ParamsEqual),
     Comparable(V2CodeInfo, V2CodeInfoUnmarshal, V2CodeInfoMarshal,
                V2CodeInfoSize, V2CodeInfoEqual),
     Comparable(V3AccessTypeParam, V3AccessTypeParamUnmarshal,
                V3AccessTypeParamMarshal, V3AccessTypeParamSize,
                V3AccessTypeParamEqual),
     Comparable(V3AccessConfig, V3AccessConfigUnmarshal, V3AccessConfigMarshal,
                V3AccessConfigSize, V3AccessConfigEqual),
     Comparable(V3Params, V3ParamsUnmarshal, V3ParamsMarshal, V3ParamsSize,
                V3ParamsEqual),
     Comparable(V3CodeInfo, V3CodeInfoUnmarshal, V3CodeInfoMarshal,
                V3CodeInfoSize, V3CodeInfoEqual) >>
=============================================================================
