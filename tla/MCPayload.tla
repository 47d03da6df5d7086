----------------------------- MODULE MCPayload -----------------------------
(***************************************************************************)
(* The payload of a vault for TLC: the groups of its entries (GroupTree),  *)
(* its records (PayloadCodec) and the encoder under them (Cbor).  The      *)
(* three share no state, so a behaviour is one of the first, of the second *)
(* or of the third.                                                        *)
(***************************************************************************)
EXTENDS GroupTree, PayloadCodec, Cbor

VARIABLE part

Idle == "idle"

MCInit ==
  \/ /\ part = "groups" /\ GroupInit
     /\ kind = "attachment_ref" /\ doc = <<>> /\ use = Idle /\ enc = NewEncoder /\ calls = <<>> /\ raws = 0
  \/ /\ part = "records" /\ CodecInit
     /\ GroupInit /\ use = Idle /\ enc = NewEncoder /\ calls = <<>> /\ raws = 0
  \/ /\ part = "bytes" /\ CborInit
     /\ GroupInit /\ kind = "attachment_ref" /\ doc = <<>>

MCNext ==
  /\ UNCHANGED part
  /\ \/ part = "groups" /\ GroupNext /\ UNCHANGED codecVars /\ UNCHANGED cborVars
     \/ part = "records" /\ CodecNext /\ UNCHANGED groupVars /\ UNCHANGED cborVars
     \/ part = "bytes" /\ CborNext /\ UNCHANGED groupVars /\ UNCHANGED codecVars

MCSpec == MCInit /\ [][MCNext]_<<part, groupVars, codecVars, cborVars>>

GroupSymmetry == Permutations(GroupIds)

(* How the encoder is driven: every width of every type of item in short   *)
(* sequences, and maps of two pairs out of few items.                      *)
MCWidths ==
  [scalars |-> {UINT, NEGINT} \X {Wide(23), Wide(24), Wide(256), Wide(65536),
                                  <<0, 0, 0, 0, 255, 255, 255, 255>>, <<0, 0, 0, 1, 0, 0, 0, 0>>},
   strings |-> {BSTR, TSTR} \X {<<>>, <<7>>, [i \in 1..24 |-> 9]},
   containers |-> {ARRAY, MAP} \X {0, 1, 2},
   tags |-> {Wide(1)}, simples |-> {20, 32}, floats |-> {<<63, 0, 0, 1>>, [i \in 1..8 |-> i]},
   raws |-> {<<0>>, <<129, 1>>}, calls |-> 3]
MCMaps ==
  [scalars |-> {UINT} \X {Wide(1), Wide(256)}, strings |-> {TSTR} \X {<<7>>},
   containers |-> {<<MAP, 2>>, <<MAP, 1>>, <<ARRAY, 1>>},
   tags |-> {}, simples |-> {20}, floats |-> {}, raws |-> {<<24, 30>>}, calls |-> 5]
MCUses == {MCWidths, MCMaps}

(* The pairs the records are read from: of each field that has a rule of   *)
(* its own a value inside it and one outside it, values of the wrong type, *)
(* and pairs no reader knows.                                              *)
T(s) == <<"text", s>>
U(n) == <<"uint", n>>
L(s) == <<"list", s>>
M(p) == <<"map", p>>
B(n) == <<"bytes", n>>
Foreign == {<<"x", U(7)>>, <<"x", L(<<T("s")>>)>>, <<"y", Deep>>}
D(starts, pairs, len) == [starts |-> starts, pairs |-> pairs \cup Foreign, len |-> len]

MCEmbedded == "s-nul-t" :> "s"

MCDocuments ==
  ("custom_field" :> D({<<>>}, {<<"name", T("s")>>, <<"type", U(5)>>, <<"type", U(6)>>, <<"type", T("s")>>,
     <<"date", U(3)>>, <<"text_value", T("s-nul-t")>>, <<"binary_ref", T("")>>}, 3))
  @@ ("attachment_ref" :> D({<<>>}, {<<"attachment_id", T("s")>>, <<"attachment_id", U(1)>>}, 3))
  @@ ("history" :> D({<<>>}, {<<"modified", U(1)>>, <<"title", T("s")>>, <<"title", U(0)>>, <<"tags", L(<<>>)>>,
     <<"tags", L(<<T("s")>>)>>, <<"tags", L(<<T("s"), T("s")>>)>>, <<"tags", L(<<U(1)>>)>>,
     <<"favorite", <<"bool", TRUE>>>>, <<"url", T("s")>>}, 3))
  @@ ("attachment" :> D({<<>>}, {<<"id", T("s")>>, <<"size", U(9)>>, <<"size", U(0)>>, <<"sha256", B(0)>>,
     <<"sha256", B(1)>>, <<"sha256", B(DigestLen)>>, <<"blob", B(0)>>, <<"blob", B(3)>>, <<"blob", B(4)>>}, 3))
  @@ ("entry" :> D({<<>>}, {<<"id", T("s")>>, <<"url", T("u")>>, <<"url", T("")>>, <<"urls", L(<<>>)>>,
     <<"urls", L(<<T("v")>>)>>, <<"urls", L(<<T(""), T("v")>>)>>, <<"urls", T("v")>>, <<"color", T("s")>>,
     <<"tags", L(<<T("s")>>)>>, <<"warn_days", U(Max16)>>, <<"warn_days", U(Max16 + 1)>>,
     <<"fresh", <<"bool", TRUE>>>>, <<"custom_fields", L(<<M(<<<<"type", U(2)>>>>)>>)>>,
     <<"custom_fields", L(<<M(<<<<"type", U(9)>>>>)>>)>>, <<"history", L(<<M(<<>>), M(<<<<"x", U(1)>>>>)>>)>>,
     <<"attachment_refs", L(<<M(<<>>)>>)>>}, 3))
  @@ ("group" :> D({<<>>}, {<<"id", T("s")>>, <<"parent_id", T("s")>>, <<"custom_data", L(<<U(1)>>)>>,
     <<"custom_data", Deep>>, <<"custom_data", U(4)>>, <<"accessed", U(2)>>, <<"accessed", T("s")>>}, 3))
  @@ ("recycle_bin" :> D({<<>>}, {<<"enabled", <<"bool", TRUE>>>>, <<"enabled", U(1)>>, <<"group_id", T("s")>>,
     <<"retention", U(Max32)>>, <<"retention", U(Max32 + 1)>>}, 3))
  @@ ("payload" :> D({<<<<"schema", U(1)>>, <<"updated", U(2)>>, <<"created", U(1)>>>>,
       <<<<"entries", L(<<M(<<<<"url", T("u")>>>>)>>)>>, <<"schema", U(1)>>, <<"updated", U(2)>>, <<"created", U(1)>>>>},
     {<<"schema", U(2)>>, <<"entries", L(<<>>)>>, <<"entries", L(<<M(<<<<"urls", L(<<T("v")>>)>>>>)>>)>>, <<"entries", M(<<>>)>>,
      <<"groups", L(<<M(<<<<"x", U(3)>>>>)>>)>>, <<"groups", L(<<M(<<>>), M(<<<<"custom_data", U(1)>>>>)>>)>>,
      <<"attachments", L(<<M(<<<<"blob", B(3)>>>>)>>)>>, <<"uuid", B(UuidLen)>>, <<"uuid", B(1)>>,
      <<"recycle_bin", M(<<<<"enabled", <<"bool", TRUE>>>>>>)>>, <<"recycle_bin", M(<<>>)>>, <<"audit_cache", U(5)>>}, 5))
=============================================================================
