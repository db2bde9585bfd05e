---- MODULE HostDetection_proofs ----
(***************************************************************************)
(* Facts about the host detector's record and its ranking.                 *)
(***************************************************************************)
EXTENDS HostDetection, TLAPS

(* Every request leaves a well-formed record.                              *)
LEMMA NotePs3FeatureType ==
  ASSUME NEW h \in Record, NEW bits \in SUBSET FeatureBit, NEW stage
  PROVE  NotePs3Feature(h, bits, stage) \in Record
BY DEF NotePs3Feature, Mark, Record, DetectFlag, FeatureBit, Observation

LEMMA AfterRequestType ==
  ASSUME NEW h \in Record, NEW req \in Request, NEW stage
  PROVE  AfterRequest(h, req, stage) \in Record
<1>1. CASE req \in {"get_F2", "get_F5", "set_F5", "get_other", "set_EF"}
  <2>1. \A bits \in SUBSET FeatureBit : NotePs3Feature(h, bits, stage) \in Record
    BY NotePs3FeatureType
  <2>2. /\ {} \in SUBSET FeatureBit /\ {"F2"} \in SUBSET FeatureBit /\ {"F5"} \in SUBSET FeatureBit
        /\ {"F5", "SET_F5"} \in SUBSET FeatureBit
    BY DEF FeatureBit
  <2>. QED BY <1>1, <2>1, <2>2 DEF AfterRequest
<1>2. CASE req \notin {"get_F2", "get_F5", "set_F5", "get_other", "set_EF"}
  BY <1>2 DEF AfterRequest, Observe, Mark, Record, DetectFlag, Observation, Request,
              EnumerationRequest, InterfaceRequest
<1>. QED BY <1>1, <1>2

(* The resolver answers with a flag that is set, and no set flag outranks  *)
(* it.                                                                     *)
LEMMA ResolveFlagsIsBest ==
  ASSUME NEW flags \in SUBSET DetectFlag, flags # {}
  PROVE  /\ ResolveFlags(flags) \in flags
         /\ \A g \in flags : Rank(ResolveFlags(flags)) <= Rank(g)
<1>1. \E f \in flags : \A g \in flags : Rank(f) <= Rank(g)
  BY DEF DetectFlag, Rank
<1>. QED BY <1>1 DEF ResolveFlags
====
