---------------------------- MODULE OneUse_proofs ----------------------------
(* Proofs about the abstract one-use authority.                             *)
EXTENDS OneUse, TLAPS

(* Every authority keeps its record's shape.                                *)
THEOREM OneUseTypeOK == Spec => []TypeOK
<1>1. Init => TypeOK
  BY DEF Init, TypeOK, Absent, Authority, Phases
<1>2. TypeOK /\ [Next]_use => TypeOK'
  BY DEF TypeOK, Next, Request, Decide, Consume, Authority, Phases
<1>3. QED  BY <1>1, <1>2, PTL DEF Spec

(* No call takes back what an earlier call achieved.                        *)
LEMMA UseStays ==
  ASSUME TypeOK, [Next]_use, NEW i \in Ids
  PROVE  Stays(i)
<1>. USE DEF TypeOK, Authority, Phases, Stays
<1>1. CASE UNCHANGED use
  BY <1>1
<1>2. ASSUME NEW j \in Ids, Request(j)
      PROVE  Stays(i)
  BY <1>2 DEF Request
<1>3. ASSUME NEW j \in Ids, Consume(j)
      PROVE  Stays(i)
  BY <1>3 DEF Consume
<1>4. ASSUME NEW j \in Ids, NEW ok \in BOOLEAN, Decide(j, ok)
      PROVE  Stays(i)
  BY <1>4 DEF Decide
<1>. QED  BY <1>1, <1>2, <1>3, <1>4 DEF Next

(* An authority is not forgotten, its answer is not changed and its         *)
(* consumption is not taken back, by any call.                              *)
THEOREM OneUseNeverUndone == Spec => NeverUndone
<1>1. TypeOK /\ [Next]_use => [\A i \in Ids : Stays(i)]_use
  BY UseStays
<1>. QED  BY <1>1, OneUseTypeOK, PTL DEF Spec, NeverUndone
=============================================================================
