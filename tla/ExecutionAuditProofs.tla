------------------------ MODULE ExecutionAuditProofs ------------------------
(***************************************************************************)
(* Proofs about ExecutionAudit, for every log length, number of failures,  *)
(* sessions, permits and policies.                                         *)
(*                                                                         *)
(* None of the safety properties is inductive. What carries them is the    *)
(* shape of the durable log (LogOK): every attempt is followed directly by *)
(* the record that closes it, whoever wrote it, and an attempt under a key *)
(* comes after attempts that were reconciled as not applied. The invariant *)
(* (AuditInv) adds that memory is what the first `applied' records say     *)
(* (Projects), that it lags behind the log only during a replay or after a *)
(* failed append (Synced), that the dispatch in progress is the last       *)
(* record's (InCall), that effects, reports and work in adapters belong to *)
(* attempts (Outside), and that closing records are truthful (Truthful).   *)
(*                                                                         *)
(* Layout: apply_committed field by field; what depends only on a prefix   *)
(* of the log; applying the next record; which records may be appended;    *)
(* the core invariant; types; authority; answers; the theorems; the        *)
(* refinement of EffectOnce.                                               *)
(***************************************************************************)
EXTENDS ExecutionAudit, FiniteSetTheorems, SequenceTheorems, TLAPS

-----------------------------------------------------------------------------
(* What a log this runtime writes looks like *)

IsClosing(rec) == rec.kind \in {"EffectSettled", "EffectReconciled"}
SaysNotApplied(rec) == rec.kind = "EffectReconciled" /\ ~rec.applied

\* How the record at n relates to those before it.  The fence, in the log: a closing
\* record follows an attempt directly, closes that attempt, and nothing else may follow
\* it.  A response is the attempt's own; a new generation is above all earlier ones and
\* not revoked; an attempt under a key comes after refusals only, and is current.
Follows(l, n) ==
    /\ IsClosing(l[n]) <=> n > 1 /\ IsAttempt(l[n - 1])
    /\ IsClosing(l[n]) => l[n].attempt = n - 1
    /\ l[n].kind = "EffectSettled" => l[n].response \in {0, n - 1}
    /\ l[n].kind = "CapsuleSuperseded" =>
          /\ l[n].new > 1
          /\ \A j \in 1..(n - 1) :
                /\ l[j].kind = "CapsuleSuperseded" => l[j].new < l[n].new
                /\ l[j].kind = "Revoked" => l[j].generation # l[n].new
    /\ IsAttempt(l[n]) =>
          /\ CurrentAt(l, n)
          /\ \A i \in 1..(n - 1) :
                IsAttempt(l[i]) /\ l[i].key = l[n].key /\ l[n].key # NoKey
                   => SaysNotApplied(l[i + 1])

LogOK(l) == l \in Seq(Record) /\ \A n \in 1..Len(l) : Follows(l, n)

-----------------------------------------------------------------------------
(* What the first n records of a log make of a view *)

OpenIn(l, n) == {i \in 1..n : i = n /\ IsAttempt(l[i])}
ClosingsIn(l, n, k) == {j \in 2..n : IsClosing(l[j]) /\ l[j - 1].key = k}
DeltasIn(l, n) == {j \in 1..n : l[j].kind = "SemanticDeltaCommitted"}

OutcomeOf(rec) ==
    IF rec.kind = "EffectReconciled" THEN ReconcileOutcome(rec)
    ELSE IF rec.response = 0 THEN "AppliedWithoutResponse" ELSE "Applied"
ResponseOf(rec) == IF rec.kind = "EffectSettled" THEN rec.response ELSE 0
BoundAt(l, j) ==
    [outcome |-> OutcomeOf(l[j]), attempt |-> j - 1, identity |-> l[j - 1].identity,
     response |-> ResponseOf(l[j])]
LastIn(l, n, k, j) == j \in ClosingsIn(l, n, k) /\ \A x \in ClosingsIn(l, n, k) : x <= j

View(u, s, r, g, v) ==
    [unsettled |-> u, settled |-> s, revision |-> r, live |-> g, revoked |-> v]
IsView(m) == m = View(m.unsettled, m.settled, m.revision, m.live, m.revoked)

OpenProjected(u, l, n) ==
    /\ DOMAIN u = OpenIn(l, n)
    /\ \A i \in DOMAIN u : u[i] = [key |-> l[i].key, identity |-> l[i].identity]
KeysProjected(s, l, n) ==
    /\ DOMAIN s \subseteq Key
    /\ \A k \in Key \ DOMAIN s : ClosingsIn(l, n, k) = {}
    /\ \A k \in DOMAIN s : \E j \in 2..n : LastIn(l, n, k, j) /\ s[k] = BoundAt(l, j)
RevisionProjected(r, l, n) == r \in Nat /\ r = Cardinality(DeltasIn(l, n))
LiveProjected(g, l, n) ==
    /\ g \in Nat
    /\ \A j \in 1..n : l[j].kind = "CapsuleSuperseded" => l[j].new <= g
    /\ g = 1 \/ \E j \in 1..n : l[j].kind = "CapsuleSuperseded" /\ l[j].new = g
RevokedProjected(v, l, n) ==
    /\ v \subseteq Nat
    /\ \A g \in v : \E j \in 1..n : l[j].kind = "Revoked" /\ l[j].generation = g
    /\ \A j \in 1..n : l[j].kind = "Revoked" => l[j].generation \in v

Projects(m, l, n) ==
    /\ IsView(m)
    /\ OpenProjected(m.unsettled, l, n)
    /\ KeysProjected(m.settled, l, n)
    /\ RevisionProjected(m.revision, l, n)
    /\ LiveProjected(m.live, l, n)
    /\ RevokedProjected(m.revoked, l, n)

-----------------------------------------------------------------------------
(* Views and records *)

\* A view is its five fields.
LEMMA ViewFields ==
    ASSUME NEW u, NEW s, NEW r, NEW g, NEW v
    PROVE  /\ IsView(View(u, s, r, g, v))
           /\ View(u, s, r, g, v).unsettled = u /\ View(u, s, r, g, v).settled = s
           /\ View(u, s, r, g, v).revision = r /\ View(u, s, r, g, v).live = g
           /\ View(u, s, r, g, v).revoked = v
  BY DEF IsView, View

\* Which fields a record changes (apply_committed): a semantic delta,
LEMMA ApplySemantic ==
    ASSUME NEW m, NEW i, NEW rec, IsView(m), rec.kind = "SemanticDeltaCommitted"
    PROVE  ApplyCommitted(m, i, rec) =
             View(m.unsettled, m.settled, m.revision + 1, m.live, m.revoked)
  BY DEF ApplyCommitted, IsView, View

\* a new generation,
LEMMA ApplySuperseded ==
    ASSUME NEW m, NEW i, NEW rec, IsView(m), rec.kind = "CapsuleSuperseded"
    PROVE  ApplyCommitted(m, i, rec) =
             View(m.unsettled, m.settled, m.revision, rec.new, m.revoked)
  BY DEF ApplyCommitted, IsView, View

\* a revocation,
LEMMA ApplyRevoked ==
    ASSUME NEW m, NEW i, NEW rec, IsView(m), rec.kind = "Revoked"
    PROVE  ApplyCommitted(m, i, rec) =
             View(m.unsettled, m.settled, m.revision, m.live, m.revoked \cup {rec.generation})
  BY DEF ApplyCommitted, IsView, View

\* an attempt,
LEMMA ApplyAttempted ==
    ASSUME NEW m, NEW i, NEW rec, IsView(m), IsAttempt(rec)
    PROVE  ApplyCommitted(m, i, rec) =
             View(With(m.unsettled, i, [key |-> rec.key, identity |-> rec.identity]),
                  m.settled, m.revision, m.live, m.revoked)
  BY DEF ApplyCommitted, IsView, View, IsAttempt

\* and a settlement or reconciliation.
LEMMA ApplyClosing ==
    ASSUME NEW m, NEW i, NEW rec, IsClosing(rec)
    PROVE  ApplyCommitted(m, i, rec) =
             View(Without(m.unsettled, rec.attempt),
                  Binding(m, rec.attempt, OutcomeOf(rec), ResponseOf(rec)),
                  m.revision, m.live, m.revoked)
<1>1. CASE rec.kind = "EffectSettled"
  BY <1>1 DEF ApplyCommitted, Settle, View, OutcomeOf, ResponseOf
<1>2. CASE rec.kind = "EffectReconciled"
  BY <1>2 DEF ApplyCommitted, Settle, View, OutcomeOf, ResponseOf
<1> QED BY <1>1, <1>2 DEF IsClosing

\* The fields a record has.
LEMMA RecordFields ==
    ASSUME NEW rec \in Record
    PROVE  /\ rec.kind \in {"EffectAttempted", "EffectSettled", "EffectReconciled",
                            "SemanticDeltaCommitted", "CapsuleSuperseded", "Revoked"}
           /\ IsAttempt(rec) => rec.key \in Key \cup {NoKey} /\ rec.identity \in Identity
           /\ IsClosing(rec) => rec.attempt \in Nat
           /\ rec.kind = "EffectSettled" => rec.response \in Nat
           /\ rec.kind = "EffectReconciled" => rec.applied \in BOOLEAN
           /\ rec.kind = "CapsuleSuperseded" => rec.new \in Nat
           /\ rec.kind = "Revoked" => rec.generation \in Nat
  BY DEF Record, IsAttempt, IsClosing

\* A record constructed by the runtime is one.
LEMMA RecordConstructors ==
    /\ SemanticDelta \in Record
    /\ \A g \in Nat : CapsuleSuperseded(g) \in Record /\ Revoked(g) \in Record
    /\ \A i, r \in Nat : EffectSettled(i, r) \in Record
    /\ \A i \in Nat, b \in BOOLEAN : EffectReconciled(i, b) \in Record
    /\ \A k \in Key \cup {NoKey}, q \in Principal, a \in Action, r, g \in Nat :
          EffectAttempted(k, q, a, r, g) \in Record
<1>1. SemanticDelta \in Record
  BY DEF SemanticDelta, Record
<1>2. \A g \in Nat : CapsuleSuperseded(g) \in Record /\ Revoked(g) \in Record
  BY DEF CapsuleSuperseded, Revoked, Record
<1>3. \A i, r \in Nat : EffectSettled(i, r) \in Record
  BY DEF EffectSettled, Record
<1>4. \A i \in Nat, b \in BOOLEAN : EffectReconciled(i, b) \in Record
  BY DEF EffectReconciled, Record
<1>5. ASSUME NEW k \in Key \cup {NoKey}, NEW q \in Principal, NEW a \in Action,
             NEW r \in Nat, NEW g \in Nat
      PROVE  EffectAttempted(k, q, a, r, g) \in Record
  BY DEF EffectAttempted, DigestAt, Identity, Record
<1> QED BY <1>1, <1>2, <1>3, <1>4, <1>5

\* The view v after a record, field by field.
Applies(v, m, i, rec) ==
    /\ IsView(v)
    /\ ~IsClosing(rec) /\ ~IsAttempt(rec) => v.unsettled = m.unsettled
    /\ IsAttempt(rec) =>
          v.unsettled = With(m.unsettled, i, [key |-> rec.key, identity |-> rec.identity])
    /\ IsClosing(rec) => v.unsettled = Without(m.unsettled, rec.attempt)
    /\ ~IsClosing(rec) => v.settled = m.settled
    /\ IsClosing(rec) => v.settled = Binding(m, rec.attempt, OutcomeOf(rec), ResponseOf(rec))
    /\ v.revision = IF rec.kind = "SemanticDeltaCommitted" THEN m.revision + 1 ELSE m.revision
    /\ v.live = IF rec.kind = "CapsuleSuperseded" THEN rec.new ELSE m.live
    /\ v.revoked = IF rec.kind = "Revoked" THEN m.revoked \cup {rec.generation} ELSE m.revoked

\* apply_committed changes the fields the record's kind names and no others.
LEMMA ApplyFields ==
    ASSUME NEW m, NEW i, NEW rec \in Record, IsView(m)
    PROVE  Applies(ApplyCommitted(m, i, rec), m, i, rec)
<1> DEFINE v == ApplyCommitted(m, i, rec)
<1> HIDE DEF v
<1> SUFFICES Applies(v, m, i, rec)
  BY DEF v
<1> USE DEF Applies
<1>1. CASE rec.kind = "SemanticDeltaCommitted"
  <2>1. v = View(m.unsettled, m.settled, m.revision + 1, m.live, m.revoked)
    BY <1>1, ApplySemantic DEF v
  <2> QED BY <1>1, <2>1, ViewFields DEF IsClosing, IsAttempt
<1>2. CASE rec.kind = "CapsuleSuperseded"
  <2>1. v = View(m.unsettled, m.settled, m.revision, rec.new, m.revoked)
    BY <1>2, ApplySuperseded DEF v
  <2> QED BY <1>2, <2>1, ViewFields DEF IsClosing, IsAttempt
<1>3. CASE rec.kind = "Revoked"
  <2>1. v = View(m.unsettled, m.settled, m.revision, m.live, m.revoked \cup {rec.generation})
    BY <1>3, ApplyRevoked DEF v
  <2> QED BY <1>3, <2>1, ViewFields DEF IsClosing, IsAttempt
<1>4. CASE IsAttempt(rec)
  <2>1. v = View(With(m.unsettled, i, [key |-> rec.key, identity |-> rec.identity]),
                 m.settled, m.revision, m.live, m.revoked)
    BY <1>4, ApplyAttempted DEF v
  <2> QED BY <1>4, <2>1, ViewFields DEF IsClosing, IsAttempt
<1>5. CASE IsClosing(rec)
  <2>1. v = View(Without(m.unsettled, rec.attempt),
                 Binding(m, rec.attempt, OutcomeOf(rec), ResponseOf(rec)),
                 m.revision, m.live, m.revoked)
    BY <1>5, ApplyClosing DEF v
  <2> QED BY <1>5, <2>1, ViewFields DEF IsClosing, IsAttempt
<1> QED BY <1>1, <1>2, <1>3, <1>4, <1>5, RecordFields DEF IsClosing, IsAttempt

-----------------------------------------------------------------------------
(* Only the prefix matters *)

\* Whether a record follows from its predecessors does not depend on its successors.
LEMMA FollowsPrefix ==
    ASSUME NEW l, NEW l2, NEW n \in Nat \ {0}, \A i \in 1..n : l2[i] = l[i], Follows(l, n)
    PROVE  Follows(l2, n)
<1>1. n \in 1..n /\ l2[n] = l[n] /\ (\A j \in 1..(n - 1) : j \in 1..n /\ l2[j] = l[j])
  OBVIOUS
<1>2. n > 1 => n - 1 \in 1..(n - 1)
  OBVIOUS
<1>3. /\ IsClosing(l2[n]) <=> n > 1 /\ IsAttempt(l2[n - 1])
      /\ IsClosing(l2[n]) => l2[n].attempt = n - 1
      /\ l2[n].kind = "EffectSettled" => l2[n].response \in {0, n - 1}
  BY <1>1, <1>2 DEF Follows
<1>4. l2[n].kind = "CapsuleSuperseded" =>
          /\ l2[n].new > 1
          /\ \A j \in 1..(n - 1) :
                /\ l2[j].kind = "CapsuleSuperseded" => l2[j].new < l2[n].new
                /\ l2[j].kind = "Revoked" => l2[j].generation # l2[n].new
  BY <1>1 DEF Follows
<1>5. ASSUME IsAttempt(l2[n])
      PROVE  /\ CurrentAt(l2, n)
             /\ \A i \in 1..(n - 1) :
                   IsAttempt(l2[i]) /\ l2[i].key = l2[n].key /\ l2[n].key # NoKey
                      => SaysNotApplied(l2[i + 1])
  <2>1. CurrentAt(l, n)
    BY <1>1, <1>5 DEF Follows
  <2>2. {j \in 1..(n - 1) : l2[j].kind = "SemanticDeltaCommitted"}
          = {j \in 1..(n - 1) : l[j].kind = "SemanticDeltaCommitted"}
    BY <1>1
  <2>3. CurrentAt(l2, n)
    BY <1>1, <2>1, <2>2 DEF CurrentAt
  <2>4. \A i \in 1..(n - 1) : i + 1 \in 1..n /\ l2[i + 1] = l[i + 1]
    OBVIOUS
  <2> QED BY <1>1, <1>5, <2>3, <2>4 DEF Follows
<1> QED BY <1>3, <1>4, <1>5 DEF Follows

\* Nor does what the first n records make of a view.
LEMMA ProjectsPrefix ==
    ASSUME NEW m, NEW l, NEW l2, NEW n \in Nat, \A i \in 1..n : l2[i] = l[i], Projects(m, l, n)
    PROVE  Projects(m, l2, n)
<1>1. OpenIn(l2, n) = OpenIn(l, n) /\ DeltasIn(l2, n) = DeltasIn(l, n)
  BY DEF OpenIn, DeltasIn
<1>2. \A j \in 2..n : j \in 1..n /\ j - 1 \in 1..n /\ l2[j] = l[j] /\ l2[j - 1] = l[j - 1]
  OBVIOUS
<1>3. \A k : ClosingsIn(l2, n, k) = ClosingsIn(l, n, k)
  BY <1>2 DEF ClosingsIn
<1>4. \A j \in 2..n : BoundAt(l2, j) = BoundAt(l, j)
  BY <1>2 DEF BoundAt
<1>5. OpenProjected(m.unsettled, l2, n)
  BY <1>1 DEF Projects, OpenProjected, OpenIn
<1>6. KeysProjected(m.settled, l2, n)
  BY <1>3, <1>4 DEF Projects, KeysProjected, LastIn
<1>7. RevisionProjected(m.revision, l2, n)
  BY <1>1 DEF Projects, RevisionProjected
<1>8. LiveProjected(m.live, l2, n) /\ RevokedProjected(m.revoked, l2, n)
  BY DEF Projects, LiveProjected, RevokedProjected
<1> QED BY <1>5, <1>6, <1>7, <1>8 DEF Projects

\* Appending a record that follows keeps the log and what its records made of a view.
LEMMA AppendKeeps ==
    ASSUME NEW l, LogOK(l), NEW rec \in Record, Follows(Append(l, rec), Len(l) + 1)
    PROVE  /\ LogOK(Append(l, rec))
           /\ Len(Append(l, rec)) = Len(l) + 1
           /\ Append(l, rec)[Len(l) + 1] = rec
           /\ \A i \in 1..Len(l) : Append(l, rec)[i] = l[i]
           /\ \A m, n : n \in 0..Len(l) /\ Projects(m, l, n) => Projects(m, Append(l, rec), n)
<1> DEFINE l2 == Append(l, rec)
<1>1. /\ l2 \in Seq(Record) /\ Len(l2) = Len(l) + 1 /\ l2[Len(l) + 1] = rec /\ Len(l) \in Nat
      /\ \A i \in 1..Len(l) : l2[i] = l[i]
  BY AppendProperties DEF LogOK
<1> HIDE DEF l2
<1>2. ASSUME NEW n \in 1..Len(l) PROVE Follows(l2, n)
  <2>1. n \in Nat \ {0} /\ \A i \in 1..n : l2[i] = l[i]
    BY <1>1
  <2>2. Follows(l, n)
    BY DEF LogOK
  <2> QED BY <2>1, <2>2, FollowsPrefix
<1>3. LogOK(l2)
  BY <1>1, <1>2 DEF LogOK, l2
<1>4. ASSUME NEW m, NEW n \in 0..Len(l), Projects(m, l, n) PROVE Projects(m, l2, n)
  <2>1. n \in Nat /\ \A i \in 1..n : l2[i] = l[i]
    BY <1>1
  <2> QED BY <1>4, <2>1, ProjectsPrefix
<1> QED BY <1>1, <1>3, <1>4 DEF l2

-----------------------------------------------------------------------------
(* Applying the next record *)

\* The next record of a log: nothing is open before it unless it closes what is open.
LEMMA NextRecord ==
    ASSUME NEW l, LogOK(l), NEW n \in Nat, n < Len(l)
    PROVE  /\ n + 1 \in 1..Len(l) /\ l[n + 1] \in Record /\ Follows(l, n + 1)
           /\ ~IsClosing(l[n + 1]) => OpenIn(l, n) = {}
           /\ IsClosing(l[n + 1]) =>
                 /\ n \in 1..n /\ l[n + 1].attempt = n /\ IsAttempt(l[n]) /\ OpenIn(l, n) = {n}
                 /\ ~IsAttempt(l[n + 1])
<1>1. n + 1 \in 1..Len(l) /\ l[n + 1] \in Record /\ Follows(l, n + 1)
  BY DEF LogOK
<1>2. IsClosing(l[n + 1]) => ~IsAttempt(l[n + 1])
  BY DEF IsClosing, IsAttempt
<1> QED BY <1>1, <1>2 DEF Follows, OpenIn

\* The open attempts after it.
LEMMA OpenNext ==
    ASSUME NEW l, LogOK(l), NEW n \in Nat, n < Len(l), NEW m, Projects(m, l, n)
    PROVE  OpenProjected(ApplyCommitted(m, n + 1, l[n + 1]).unsettled, l, n + 1)
<1> DEFINE rec == l[n + 1]
           w == ApplyCommitted(m, n + 1, rec)
           u == w.unsettled
<1>a. Applies(w, m, n + 1, rec)
  BY NextRecord, ApplyFields DEF Projects
<1> HIDE DEF w
<1> SUFFICES OpenProjected(u, l, n + 1)
  BY DEF w
<1>0. IsView(m) /\ OpenProjected(m.unsettled, l, n)
  BY DEF Projects
<1>1. CASE IsClosing(rec)
  <2>1. u = Without(m.unsettled, n)
    BY <1>a, <1>0, <1>1, NextRecord DEF Applies
  <2>2. DOMAIN u = {} /\ OpenIn(l, n + 1) = {}
    BY <1>0, <1>1, <2>1, NextRecord DEF Without, OpenProjected, OpenIn
  <2> QED BY <2>2 DEF OpenProjected
<1>2. CASE IsAttempt(rec)
  <2>1. u = With(m.unsettled, n + 1, [key |-> rec.key, identity |-> rec.identity])
    BY <1>a, <1>0, <1>2, NextRecord DEF Applies
  <2>2. DOMAIN m.unsettled = {}
    BY <1>0, <1>2, NextRecord DEF OpenProjected, IsAttempt, IsClosing
  <2>3. OpenIn(l, n + 1) = {n + 1}
    BY <1>2 DEF OpenIn
  <2> QED BY <2>1, <2>2, <2>3 DEF With, OpenProjected
<1>3. CASE ~IsClosing(rec) /\ ~IsAttempt(rec)
  <2>1. u = m.unsettled
    BY <1>a, <1>0, <1>3, NextRecord DEF Applies
  <2>2. OpenIn(l, n) = {} /\ OpenIn(l, n + 1) = {}
    BY <1>3, NextRecord DEF OpenIn
  <2> QED BY <1>0, <2>1, <2>2 DEF OpenProjected
<1> QED BY <1>1, <1>2, <1>3

\* The outcomes after it.
LEMMA KeysNext ==
    ASSUME NEW l, LogOK(l), NEW n \in Nat, n < Len(l), NEW m, Projects(m, l, n)
    PROVE  KeysProjected(ApplyCommitted(m, n + 1, l[n + 1]).settled, l, n + 1)
<1> DEFINE rec == l[n + 1]
           w == ApplyCommitted(m, n + 1, rec)
           s == w.settled
<1>a. Applies(w, m, n + 1, rec)
  BY NextRecord, ApplyFields DEF Projects
<1> HIDE DEF w
<1> SUFFICES KeysProjected(s, l, n + 1)
  BY DEF w
<1>0. IsView(m) /\ OpenProjected(m.unsettled, l, n) /\ KeysProjected(m.settled, l, n)
  BY DEF Projects
<1>1. CASE ~IsClosing(rec)
  <2>1. s = m.settled
    BY <1>a, <1>0, <1>1, NextRecord DEF Applies
  <2>2. \A k : ClosingsIn(l, n + 1, k) = ClosingsIn(l, n, k)
    BY <1>1 DEF ClosingsIn
  <2> QED BY <1>0, <2>1, <2>2 DEF KeysProjected, LastIn
<1>2. CASE IsClosing(rec)
  <2>1. /\ n \in 1..n /\ rec.attempt = n /\ IsAttempt(l[n]) /\ l[n] \in Record
        /\ m.unsettled[n] = [key |-> l[n].key, identity |-> l[n].identity]
    BY <1>0, <1>2, NextRecord DEF OpenProjected, LogOK
  <2>2. s = Binding(m, n, OutcomeOf(rec), ResponseOf(rec))
    BY <1>a, <1>0, <1>2, <2>1, NextRecord DEF Applies
  <2>3. \A k : ClosingsIn(l, n + 1, k)
                 = IF l[n].key = k THEN ClosingsIn(l, n, k) \cup {n + 1} ELSE ClosingsIn(l, n, k)
    BY <1>2, <2>1 DEF ClosingsIn
  <2>4. CASE l[n].key = NoKey
    <3>1. s = m.settled
      BY <2>1, <2>2, <2>4 DEF Binding
    <3>2. \A k \in Key : ClosingsIn(l, n + 1, k) = ClosingsIn(l, n, k)
      BY <2>3, <2>4, AbsentAssumption
    <3> QED BY <1>0, <3>1, <3>2 DEF KeysProjected, LastIn
  <2>5. CASE l[n].key # NoKey
    <3> DEFINE key == l[n].key
    <3>1. key \in Key
      BY <2>1, <2>5, RecordFields
    <3>2. s = With(m.settled, key, BoundAt(l, n + 1))
      BY <2>1, <2>2, <2>5 DEF Binding, BoundAt
    <3> HIDE DEF key, s
    <3>3. DOMAIN s = DOMAIN m.settled \cup {key} /\ s[key] = BoundAt(l, n + 1)
          /\ \A k \in DOMAIN m.settled \ {key} : s[k] = m.settled[k]
      BY <3>2 DEF With
    <3>4. LastIn(l, n + 1, key, n + 1) /\ n + 1 \in 2..(n + 1)
      <4>a. ClosingsIn(l, n + 1, key) = ClosingsIn(l, n, key) \cup {n + 1}
        BY <2>3 DEF key
      <4>b. n + 1 \in 2..(n + 1)
        BY <2>1
      <4>1. n + 1 \in 2..(n + 1) /\ n + 1 \in ClosingsIn(l, n + 1, key)
        BY <4>a, <4>b
      <4>2. \A j \in 2..(n + 1) : j <= n + 1
        OBVIOUS
      <4> QED BY <4>1, <4>2 DEF LastIn, ClosingsIn
    <3>5. ASSUME NEW k \in DOMAIN s \ {key}
          PROVE  \E j \in 2..(n + 1) : LastIn(l, n + 1, k, j) /\ s[k] = BoundAt(l, j)
      <4>1. k \in DOMAIN m.settled /\ s[k] = m.settled[k] /\ ClosingsIn(l, n + 1, k) = ClosingsIn(l, n, k)
        BY <2>3, <3>3 DEF key
      <4> QED BY <1>0, <4>1 DEF KeysProjected, LastIn
    <3>6. \A k \in Key \ DOMAIN s : ClosingsIn(l, n + 1, k) = {}
      BY <1>0, <2>3, <3>3 DEF KeysProjected, key
    <3> QED BY <1>0, <3>1, <3>3, <3>4, <3>5, <3>6 DEF KeysProjected
  <2> QED BY <2>4, <2>5
<1> QED BY <1>1, <1>2

\* The revision after it.
LEMMA RevisionNext ==
    ASSUME NEW l, LogOK(l), NEW n \in Nat, n < Len(l), NEW m, Projects(m, l, n)
    PROVE  RevisionProjected(ApplyCommitted(m, n + 1, l[n + 1]).revision, l, n + 1)
<1> DEFINE rec == l[n + 1]
           w == ApplyCommitted(m, n + 1, rec)
           r == w.revision
<1>a. Applies(w, m, n + 1, rec)
  BY NextRecord, ApplyFields DEF Projects
<1> HIDE DEF w
<1> SUFFICES RevisionProjected(r, l, n + 1)
  BY DEF w
<1>0. IsView(m) /\ RevisionProjected(m.revision, l, n)
  BY DEF Projects
<1>1. CASE rec.kind = "SemanticDeltaCommitted"
  <2>1. r = m.revision + 1
    BY <1>a, <1>0, <1>1, NextRecord DEF Applies
  <2>2. DeltasIn(l, n + 1) = DeltasIn(l, n) \cup {n + 1} /\ n + 1 \notin DeltasIn(l, n)
    BY <1>1 DEF DeltasIn
  <2>3. IsFiniteSet(DeltasIn(l, n))
    <3>1. IsFiniteSet(1..n) /\ DeltasIn(l, n) \subseteq 1..n
      BY FS_Interval DEF DeltasIn
    <3> QED BY <3>1, FS_Subset
  <2>4. Cardinality(DeltasIn(l, n + 1)) = Cardinality(DeltasIn(l, n)) + 1
    BY <2>2, <2>3, FS_AddElement
  <2> QED BY <1>0, <2>1, <2>4 DEF RevisionProjected
<1>2. CASE rec.kind # "SemanticDeltaCommitted"
  <2>1. r = m.revision
    BY <1>a, <1>0, <1>2, NextRecord DEF Applies
  <2>2. DeltasIn(l, n + 1) = DeltasIn(l, n)
    BY <1>2 DEF DeltasIn
  <2> QED BY <1>0, <2>1, <2>2 DEF RevisionProjected
<1> QED BY <1>1, <1>2

\* The generations after it.
LEMMA GenerationsNext ==
    ASSUME NEW l, LogOK(l), NEW n \in Nat, n < Len(l), NEW m, Projects(m, l, n)
    PROVE  /\ LiveProjected(ApplyCommitted(m, n + 1, l[n + 1]).live, l, n + 1)
           /\ RevokedProjected(ApplyCommitted(m, n + 1, l[n + 1]).revoked, l, n + 1)
<1> DEFINE rec == l[n + 1]
           w == ApplyCommitted(m, n + 1, rec)
           g == w.live
           v == w.revoked
<1>a. Applies(w, m, n + 1, rec)
  BY NextRecord, ApplyFields DEF Projects
<1> HIDE DEF w
<1> SUFFICES LiveProjected(g, l, n + 1) /\ RevokedProjected(v, l, n + 1)
  BY DEF w
<1>0. IsView(m) /\ LiveProjected(m.live, l, n) /\ RevokedProjected(m.revoked, l, n)
  BY DEF Projects
<1>1. CASE rec.kind = "CapsuleSuperseded"
  <2>1. g = rec.new /\ v = m.revoked /\ rec.new \in Nat
    BY <1>a, <1>0, <1>1, NextRecord, RecordFields DEF Applies
  <2>2. \A j \in 1..n : l[j].kind = "CapsuleSuperseded" => l[j].new < rec.new
    BY <1>1, NextRecord DEF Follows
  <2>3. \A j \in 1..n : l[j].kind = "CapsuleSuperseded" => l[j].new \in Nat
    BY RecordFields DEF LogOK
  <2>4. LiveProjected(g, l, n + 1)
    BY <1>1, <2>1, <2>2, <2>3 DEF LiveProjected
  <2>5. RevokedProjected(v, l, n + 1)
    BY <1>0, <1>1, <2>1 DEF RevokedProjected
  <2> QED BY <2>4, <2>5
<1>2. CASE rec.kind = "Revoked"
  <2>1. g = m.live /\ v = m.revoked \cup {rec.generation} /\ rec.generation \in Nat
    BY <1>a, <1>0, <1>2, NextRecord, RecordFields DEF Applies
  <2>2. LiveProjected(g, l, n + 1)
    BY <1>0, <1>2, <2>1 DEF LiveProjected
  <2>3. RevokedProjected(v, l, n + 1)
    BY <1>0, <1>2, <2>1 DEF RevokedProjected
  <2> QED BY <2>2, <2>3
<1>3. CASE rec.kind \notin {"CapsuleSuperseded", "Revoked"}
  <2>1. g = m.live /\ v = m.revoked
    BY <1>a, <1>0, <1>3, NextRecord DEF Applies
  <2>2. LiveProjected(g, l, n + 1)
    BY <1>0, <1>3, <2>1 DEF LiveProjected
  <2>3. RevokedProjected(v, l, n + 1)
    BY <1>0, <1>3, <2>1 DEF RevokedProjected
  <2> QED BY <2>2, <2>3
<1> QED BY <1>1, <1>2, <1>3

\* Applying the next record of a log to what its predecessors made gives what it and
\* they make (apply_committed, in a commit and in a replay).
LEMMA ProjectsNext ==
    ASSUME NEW l, LogOK(l), NEW n \in Nat, n < Len(l), NEW m, Projects(m, l, n)
    PROVE  Projects(ApplyCommitted(m, n + 1, l[n + 1]), l, n + 1)
<1>1. IsView(ApplyCommitted(m, n + 1, l[n + 1]))
  BY ApplyFields, NextRecord DEF Projects, Applies
<1> QED BY <1>1, OpenNext, KeysNext, RevisionNext, GenerationsNext DEF Projects

\* A log this runtime writes is valid at every record when it is read back.
LEMMA NextIsValid ==
    ASSUME NEW l, LogOK(l), NEW n \in Nat, n < Len(l), NEW m, Projects(m, l, n)
    PROVE  ValidLifecycleEvent(m, l[n + 1])
<1> DEFINE rec == l[n + 1]
<1>0. /\ OpenProjected(m.unsettled, l, n) /\ LiveProjected(m.live, l, n)
      /\ RevokedProjected(m.revoked, l, n)
  BY DEF Projects
<1>1. CASE rec.kind = "CapsuleSuperseded"
  <2>1. /\ rec.new > 1 /\ rec.new \in Nat
        /\ \A j \in 1..n : /\ l[j].kind = "CapsuleSuperseded" => l[j].new < rec.new
                           /\ l[j].kind = "Revoked" => l[j].generation # rec.new
    BY <1>1, NextRecord, RecordFields DEF Follows
  <2>2. rec.new > m.live
    BY <1>0, <2>1 DEF LiveProjected
  <2>3. rec.new \notin m.revoked
    BY <1>0, <2>1 DEF RevokedProjected
  <2> QED BY <1>1, <2>2, <2>3 DEF ValidLifecycleEvent
<1>2. CASE IsAttempt(rec)
  <2>1. DOMAIN m.unsettled = {}
    BY <1>0, <1>2, NextRecord DEF OpenProjected, IsAttempt, IsClosing
  <2> QED BY <1>2, <2>1 DEF ValidLifecycleEvent, KeyInFlight, IsAttempt
<1>3. CASE IsClosing(rec)
  <2>1. rec.attempt \in DOMAIN m.unsettled
    BY <1>0, <1>3, NextRecord DEF OpenProjected
  <2> QED BY <1>3, <2>1 DEF ValidLifecycleEvent, IsClosing
<1>4. CASE rec.kind \in {"SemanticDeltaCommitted", "Revoked"}
  BY <1>4 DEF ValidLifecycleEvent
<1> QED BY <1>1, <1>2, <1>3, <1>4, NextRecord, RecordFields DEF IsClosing, IsAttempt

-----------------------------------------------------------------------------
(* Which records may be appended *)

\* The end of an extended log.
LEMMA Extended ==
    ASSUME NEW l \in Seq(Record), NEW rec
    PROVE  /\ Len(l) \in Nat
           /\ Append(l, rec)[Len(l) + 1] = rec
           /\ \A i \in 1..Len(l) : Append(l, rec)[i] = l[i]
           /\ (Len(l) + 1) - 1 = Len(l)
           /\ Len(l) + 1 > 1 <=> Len(l) \in 1..Len(l)
  OBVIOUS

\* A semantic delta or a revocation follows when nothing is open.
LEMMA PlainFollows ==
    ASSUME NEW l, LogOK(l), OpenIn(l, Len(l)) = {},
           NEW rec, rec.kind \in {"SemanticDeltaCommitted", "Revoked"}
    PROVE  Follows(Append(l, rec), Len(l) + 1)
  BY Extended DEF Follows, OpenIn, IsClosing, IsAttempt, LogOK

\* The live generation is at least the first.
LEMMA LiveIsPositive ==
    ASSUME NEW l, LogOK(l), NEW m, Projects(m, l, Len(l))
    PROVE  m.live >= 1 /\ m.live \in Nat
<1>1. Len(l) \in Nat /\ LiveProjected(m.live, l, Len(l))
  BY DEF Projects, LogOK
<1>2. CASE m.live = 1
  BY <1>2
<1>3. CASE m.live # 1
  <2>1. PICK j \in 1..Len(l) : l[j].kind = "CapsuleSuperseded" /\ l[j].new = m.live
    BY <1>1, <1>3 DEF LiveProjected
  <2>2. l[j].new > 1
    BY <2>1 DEF LogOK, Follows
  <2> QED BY <1>1, <2>1, <2>2 DEF LiveProjected
<1> QED BY <1>2, <1>3

\* A new generation follows when nothing is open and it is valid.
LEMMA SupersedeFollows ==
    ASSUME NEW l, LogOK(l), OpenIn(l, Len(l)) = {}, NEW m, Projects(m, l, Len(l)),
           NEW g \in Nat, ValidLifecycleEvent(m, CapsuleSuperseded(g))
    PROVE  Follows(Append(l, CapsuleSuperseded(g)), Len(l) + 1)
<1> DEFINE rec == CapsuleSuperseded(g)
<1>1. rec.kind = "CapsuleSuperseded" /\ rec.new = g
  BY DEF CapsuleSuperseded
<1>2. g > m.live /\ g \notin m.revoked
  BY <1>1 DEF ValidLifecycleEvent
<1> HIDE DEF rec
<1>3. LiveProjected(m.live, l, Len(l)) /\ RevokedProjected(m.revoked, l, Len(l)) /\ m.live >= 1
      /\ l \in Seq(Record) /\ m.live \in Nat
  BY LiveIsPositive DEF Projects, LogOK
<1>4. g > 1
  BY <1>2, <1>3
<1>5. \A j \in 1..Len(l) : l[j].kind = "CapsuleSuperseded" => l[j].new < g
  <2> TAKE j \in 1..Len(l)
  <2> HAVE l[j].kind = "CapsuleSuperseded"
  <2>1. l[j].new <= m.live /\ l[j].new \in Nat
    BY <1>3, RecordFields DEF LiveProjected
  <2> QED BY <1>2, <1>3, <2>1
<1>6. \A j \in 1..Len(l) : l[j].kind = "Revoked" => l[j].generation # g
  BY <1>2, <1>3 DEF RevokedProjected
<1>7. ~IsClosing(rec) /\ ~IsAttempt(rec)
  BY <1>1 DEF IsClosing, IsAttempt
<1>8. Follows(Append(l, rec), Len(l) + 1)
  BY <1>1, <1>3, <1>4, <1>5, <1>6, <1>7, Extended DEF Follows, OpenIn
<1> QED BY <1>8 DEF rec

\* A closing record names the open attempt, which is the last record, and follows it.
LEMMA ClosingFollows ==
    ASSUME NEW l, LogOK(l), NEW m, Projects(m, l, Len(l)), NEW rec, IsClosing(rec),
           rec.attempt \in DOMAIN m.unsettled,
           rec.kind = "EffectSettled" => rec.response \in {0, rec.attempt}
    PROVE  /\ Follows(Append(l, rec), Len(l) + 1)
           /\ rec.attempt = Len(l) /\ Len(l) \in 1..Len(l) /\ IsAttempt(l[Len(l)])
<1>1. rec.attempt = Len(l) /\ Len(l) \in 1..Len(l) /\ IsAttempt(l[Len(l)])
  BY DEF Projects, OpenProjected, OpenIn
<1>2. ~IsAttempt(rec) /\ rec.kind # "CapsuleSuperseded"
  BY DEF IsClosing, IsAttempt
<1>3. Follows(Append(l, rec), Len(l) + 1)
  BY <1>1, <1>2, Extended DEF Follows, LogOK
<1> QED BY <1>1, <1>3

\* When nothing is open, every attempt of the log is directly followed by its closing.
LEMMA AllClosed ==
    ASSUME NEW l, LogOK(l), OpenIn(l, Len(l)) = {}, NEW i \in 1..Len(l), IsAttempt(l[i])
    PROVE  i + 1 \in 2..Len(l) /\ IsClosing(l[i + 1])
<1>1. Len(l) \in Nat
  BY DEF LogOK
<1>2. i < Len(l)
  BY <1>1 DEF OpenIn
<1>3. i + 1 \in 1..Len(l) /\ (i + 1) - 1 = i /\ i + 1 > 1
  BY <1>1, <1>2
<1> QED BY <1>1, <1>3 DEF LogOK, Follows

\* A key is tried again only if all its attempts were found not applied: only the last
\* outcome under a key is remembered, and the earlier ones were refusals when it was tried.
LEMMA RetryIsClean ==
    ASSUME NEW l, LogOK(l), OpenIn(l, Len(l)) = {}, NEW m, Projects(m, l, Len(l)),
           NEW k \in Key, k \notin DOMAIN m.settled \/ m.settled[k].outcome = "NotApplied",
           NEW i \in 1..Len(l), IsAttempt(l[i]), l[i].key = k
    PROVE  SaysNotApplied(l[i + 1])
<1>1. /\ i + 1 \in 2..Len(l) /\ IsClosing(l[i + 1]) /\ Len(l) \in Nat
      /\ KeysProjected(m.settled, l, Len(l))
  BY AllClosed DEF Projects, LogOK
<1>2. (i + 1) - 1 = i
  BY <1>1
<1>3. i + 1 \in ClosingsIn(l, Len(l), k)
  BY <1>1, <1>2 DEF ClosingsIn
<1>4. k \in DOMAIN m.settled /\ m.settled[k].outcome = "NotApplied"
  BY <1>1, <1>3 DEF KeysProjected
<1>5. PICK j \in 2..Len(l) : LastIn(l, Len(l), k, j) /\ m.settled[k] = BoundAt(l, j)
  BY <1>1, <1>4 DEF KeysProjected
<1>6. SaysNotApplied(l[j])
  BY <1>4, <1>5 DEF BoundAt, OutcomeOf, ReconcileOutcome, SaysNotApplied
<1>7. CASE j = i + 1
  BY <1>6, <1>7
<1>8. CASE j # i + 1
  <2>1. IsClosing(l[j]) /\ l[j - 1].key = k /\ i + 1 < j
    BY <1>1, <1>3, <1>5, <1>8 DEF LastIn, ClosingsIn
  <2>2. j \in 1..Len(l) /\ j - 1 \in 1..Len(l) /\ IsAttempt(l[j - 1])
    BY <1>1, <2>1 DEF LogOK, Follows
  <2>3. i \in 1..((j - 1) - 1) /\ k # NoKey
    BY <1>1, <2>1, AbsentAssumption
  <2> QED BY <2>1, <2>2, <2>3 DEF LogOK, Follows
<1> QED BY <1>7, <1>8

\* An attempt follows when nothing is open, it is current and its key is not spent.
LEMMA AttemptFollows ==
    ASSUME NEW l, LogOK(l), OpenIn(l, Len(l)) = {}, NEW m, Projects(m, l, Len(l)),
           NEW rec \in Record, IsAttempt(rec),
           rec.identity.revision = m.revision, rec.identity.generation = m.live,
           m.live \notin m.revoked,
           rec.key \in DOMAIN m.settled => m.settled[rec.key].outcome = "NotApplied"
    PROVE  Follows(Append(l, rec), Len(l) + 1)
<1> DEFINE l2 == Append(l, rec)
           n == Len(l) + 1
<1>1. /\ Len(l) \in Nat /\ l \in Seq(Record)
      /\ l2[n] = rec /\ n - 1 = Len(l) /\ (n > 1 <=> Len(l) \in 1..Len(l))
      /\ \A i \in 1..Len(l) : l2[i] = l[i]
  BY Extended DEF LogOK
<1> HIDE DEF l2, n
<1>2. ~IsClosing(rec) /\ rec.kind # "CapsuleSuperseded"
  BY DEF IsClosing, IsAttempt
<1>3. ~(n > 1 /\ IsAttempt(l2[n - 1]))
  BY <1>1 DEF OpenIn
<1>4. CurrentAt(l2, n)
  <2>1. {j \in 1..(n - 1) : l2[j].kind = "SemanticDeltaCommitted"} = DeltasIn(l, Len(l))
    BY <1>1 DEF DeltasIn
  <2>2. m.revision = Cardinality(DeltasIn(l, Len(l)))
    BY DEF Projects, RevisionProjected
  <2>3. \A j \in 1..(n - 1) : l2[j].kind = "Revoked" => l2[j].generation # m.live
    BY <1>1 DEF Projects, RevokedProjected
  <2>4. /\ \A j \in 1..(n - 1) : l2[j].kind = "CapsuleSuperseded" => l2[j].new <= m.live
        /\ m.live = 1 \/ \E j \in 1..(n - 1) : l2[j].kind = "CapsuleSuperseded" /\ l2[j].new = m.live
    BY <1>1 DEF Projects, LiveProjected
  <2> QED BY <1>1, <2>1, <2>2, <2>3, <2>4 DEF CurrentAt
<1>5. ASSUME NEW i \in 1..(n - 1), IsAttempt(l2[i]), l2[i].key = rec.key, rec.key # NoKey
      PROVE  SaysNotApplied(l2[i + 1])
  <2>1. i \in 1..Len(l) /\ IsAttempt(l[i]) /\ l[i].key = rec.key /\ rec.key \in Key
    BY <1>1, <1>5, RecordFields
  <2>2. SaysNotApplied(l[i + 1])
    BY <2>1, RetryIsClean
  <2>3. i + 1 \in 1..Len(l)
    BY <1>1, <2>1, AllClosed
  <2> QED BY <1>1, <2>2, <2>3
<1>6. Follows(l2, n)
  BY <1>1, <1>2, <1>3, <1>4, <1>5 DEF Follows, IsAttempt
<1> QED BY <1>6 DEF l2, n

-----------------------------------------------------------------------------
(* The invariant *)

\* Memory lags behind the log only while the log is replayed or its end is not known.
Synced ==
    /\ applied \in 0..Len(ledger)
    /\ pc # "down" /\ ~uncertain => applied = Len(ledger)
    /\ pc \in {"dispatch", "settle", "down"} => ~uncertain

\* The dispatch in progress is the last record's, and what it asked for is in it.
InCall ==
    pc \in {"dispatch", "settle"} =>
        /\ call.attempt = Len(ledger) /\ Len(ledger) \in Attempts
        /\ ledger[Len(ledger)].key = call.key
        /\ ledger[Len(ledger)].identity.principal = call.principal
        /\ ledger[Len(ledger)].identity.digest[1] = call.action
        /\ jobs = {} /\ (Len(ledger) \in world <=> pc = "settle")

\* Only attempts act, an adapter reports what it did, and the work an adapter still holds
\* belongs to the attempt that is open.
Outside ==
    /\ world \subseteq Attempts /\ reports \subseteq world
    /\ \A i \in jobs : i = Len(ledger) /\ i \in Attempts /\ i \notin world

\* A closing record says what happened.
Truthful ==
    \A j \in 1..Len(ledger) :
        IsClosing(ledger[j]) => (SaysNotApplied(ledger[j]) <=> j - 1 \notin world)

CoreInv ==
    /\ LogOK(ledger) /\ Projects(mem, ledger, applied)
    /\ Synced /\ RestartIsAccepted
    /\ InCall /\ Outside /\ Truthful

coreVars == <<ledger, mem, applied, uncertain, pc, call, worldVars>>

\* The durable log gained rec, or an append of it failed without a trace; memory follows
\* unless the append failed.
Grown(rec) ==
    /\ \A i \in 1..Len(ledger) : ledger'[i] = ledger[i]
    /\ \/ ledger' = ledger
       \/ Len(ledger') = Len(ledger) + 1 /\ ledger'[Len(ledger) + 1] = rec
    /\ LogOK(ledger') /\ Projects(mem', ledger', applied')
    /\ applied' \in 0..Len(ledger')
    /\ ~uncertain' => applied' = Len(ledger')

\* Memory and log agree while calls are served.
LEMMA Serving ==
    ASSUME CoreInv, pc # "down", ~uncertain
    PROVE  /\ applied = Len(ledger) /\ Len(ledger) \in Nat /\ ledger \in Seq(Record)
           /\ LogOK(ledger) /\ Projects(mem, ledger, Len(ledger))
           /\ DOMAIN mem.unsettled = OpenIn(ledger, Len(ledger))
  BY DEF CoreInv, Synced, Projects, OpenProjected, LogOK

\* append_checked, whether it reports success or not.
LEMMA AppendGrows ==
    ASSUME CoreInv, pc # "down", ~uncertain, NEW rec \in Record, NEW ps,
           Follows(Append(ledger, rec), Len(ledger) + 1),
           AppendChecked(rec, ps) \/ AppendFails(rec, ps)
    PROVE  /\ Grown(rec)
           /\ AppendChecked(rec, ps) => ~uncertain' /\ Len(ledger') = Len(ledger) + 1
<1> DEFINE l2 == Append(ledger, rec)
<1>1. /\ applied = Len(ledger) /\ Len(ledger) \in Nat /\ ledger \in Seq(Record)
      /\ LogOK(ledger) /\ Projects(mem, ledger, Len(ledger))
  BY Serving
<1>2. /\ LogOK(l2) /\ Len(l2) = Len(ledger) + 1 /\ l2[Len(ledger) + 1] = rec
      /\ \A i \in 1..Len(ledger) : l2[i] = ledger[i]
      /\ Projects(mem, l2, Len(ledger))
  BY <1>1, AppendKeeps
<1> HIDE DEF l2
<1>3. CASE AppendChecked(rec, ps)
  <2>1. /\ ledger' = l2 /\ mem' = ApplyCommitted(mem, Len(ledger) + 1, rec)
        /\ applied' = Len(ledger) + 1 /\ ~uncertain'
    BY <1>1, <1>3 DEF AppendChecked, l2
  <2>2. Projects(mem', l2, Len(ledger) + 1)
    BY <1>1, <1>2, <2>1, ProjectsNext
  <2> QED BY <1>1, <1>2, <2>1, <2>2 DEF Grown
<1>4. CASE AppendFails(rec, ps)
  <2>1. /\ ledger' = ledger \/ ledger' = l2
        /\ mem' = mem /\ applied' = Len(ledger) /\ uncertain'
    BY <1>1, <1>4 DEF AppendFails, l2
  <2>2. ~AppendChecked(rec, ps)
    BY <1>4, <2>1, <1>1 DEF AppendChecked, AppendFails
  <2> QED BY <1>1, <1>2, <2>1, <2>2 DEF Grown
<1> QED BY <1>3, <1>4

\* What the world holds, and what the log says of it, is kept by an append when no adapter
\* holds work and a closing record tells the truth.
LEMMA GrowthKeepsOutside ==
    ASSUME CoreInv, NEW rec, Grown(rec), UNCHANGED worldVars, jobs = {},
           IsClosing(rec) => (SaysNotApplied(rec) <=> Len(ledger) \notin world)
    PROVE  Outside' /\ Truthful' /\ Attempts \subseteq Attempts'
<1>1. /\ Len(ledger) \in Nat /\ world' = world /\ jobs' = {} /\ reports' = reports
      /\ Len(ledger') \in Nat /\ DOMAIN ledger = 1..Len(ledger) /\ DOMAIN ledger' = 1..Len(ledger')
  BY DEF CoreInv, LogOK, Grown, worldVars
<1>a. /\ \A i \in 1..Len(ledger) : i \in 1..Len(ledger') /\ ledger'[i] = ledger[i]
      /\ \A i \in 1..Len(ledger') : i \notin 1..Len(ledger) => i = Len(ledger) + 1 /\ ledger'[i] = rec
  <2>1. CASE ledger' = ledger
    BY <1>1, <2>1
  <2>2. CASE Len(ledger') = Len(ledger) + 1 /\ ledger'[Len(ledger) + 1] = rec
    <3>1. \A i \in 1..Len(ledger) : ledger'[i] = ledger[i]
      BY DEF Grown
    <3> QED BY <1>1, <2>2, <3>1
  <2> QED BY <2>1, <2>2 DEF Grown
<1>2. Attempts \subseteq Attempts'
  BY <1>1, <1>a DEF Attempts
<1>3. Outside'
  BY <1>1, <1>2 DEF CoreInv, Outside
<1>4. Truthful'
  <2> SUFFICES ASSUME NEW j \in 1..Len(ledger'), IsClosing(ledger'[j])
               PROVE  SaysNotApplied(ledger'[j]) <=> j - 1 \notin world
    BY <1>1 DEF Truthful
  <2>1. CASE j \in 1..Len(ledger)
    BY <1>a, <2>1 DEF CoreInv, Truthful
  <2>2. CASE j \notin 1..Len(ledger)
    <3>1. j = Len(ledger) + 1 /\ ledger'[j] = rec /\ j - 1 = Len(ledger)
      BY <1>1, <1>a, <2>2
    <3> QED BY <2>2, <3>1
  <2> QED BY <2>1, <2>2
<1> QED BY <1>2, <1>3, <1>4

\* Without a fence nothing is open in the log, and no adapter holds work.
LEMMA Unfenced ==
    ASSUME CoreInv, pc = "idle", ~IsFenced
    PROVE  /\ ~uncertain /\ pc # "down" /\ LogOK(ledger) /\ Projects(mem, ledger, Len(ledger))
           /\ OpenIn(ledger, Len(ledger)) = {} /\ jobs = {}
<1>1. ~uncertain /\ DOMAIN mem.unsettled = {} /\ pc # "down"
  BY DEF IsFenced
<1>2. /\ LogOK(ledger) /\ Projects(mem, ledger, Len(ledger))
      /\ OpenIn(ledger, Len(ledger)) = {}
  BY <1>1, Serving
<1>3. jobs = {}
  BY <1>2 DEF CoreInv, Outside, Attempts, OpenIn, LogOK
<1> QED BY <1>1, <1>2, <1>3

\* CoreInv after an append that starts no dispatch.
LEMMA GrowthKeepsCore ==
    ASSUME CoreInv, NEW rec, Grown(rec), UNCHANGED worldVars, jobs = {},
           IsClosing(rec) => (SaysNotApplied(rec) <=> Len(ledger) \notin world),
           pc' = "idle"
    PROVE  CoreInv'
<1>1. Outside' /\ Truthful'
  BY GrowthKeepsOutside
<1>2. Synced' /\ RestartIsAccepted' /\ InCall'
  BY DEF Grown, Synced, RestartIsAccepted, InCall
<1> QED BY <1>1, <1>2 DEF CoreInv, Grown

\* PtrRuntime::commit of a semantic delta, a new generation or a revocation.
LEMMA CommitCore ==
    ASSUME CoreInv, NEW rec \in Record, Commit(rec),
           \/ rec.kind \in {"SemanticDeltaCommitted", "Revoked"}
           \/ \E g \in Nat : rec = CapsuleSuperseded(g)
    PROVE  CoreInv' /\ Grown(rec) /\ OpenIn(ledger, Len(ledger)) = {}
<1>1. /\ pc = "idle" /\ ~IsFenced /\ ValidLifecycleEvent(mem, rec)
      /\ AppendChecked(rec, permits) \/ AppendFails(rec, permits)
      /\ UNCHANGED worldVars /\ pc' = "idle"
  BY DEF Commit, CommitRefused
<1>2. /\ ~uncertain /\ pc # "down" /\ LogOK(ledger) /\ Projects(mem, ledger, Len(ledger))
      /\ OpenIn(ledger, Len(ledger)) = {} /\ jobs = {}
  BY <1>1, Unfenced
<1>3. Follows(Append(ledger, rec), Len(ledger) + 1)
  BY <1>1, <1>2, PlainFollows, SupersedeFollows
<1>4. Grown(rec)
  BY <1>1, <1>2, <1>3, AppendGrows
<1>5. ~IsClosing(rec)
  BY DEF IsClosing, CapsuleSuperseded
<1> QED BY <1>1, <1>2, <1>4, <1>5, GrowthKeepsCore

\* What a permit's record says.
LEMMA AttemptFields ==
    ASSUME TypeOK, NEW p \in permits, Admissible(p)
    PROVE  /\ AttemptRecord(p) \in Record /\ IsAttempt(AttemptRecord(p))
           /\ AttemptRecord(p).key = p.key
           /\ AttemptRecord(p).identity.principal = sessions[p.session].principal
           /\ AttemptRecord(p).identity.revision = p.revision
           /\ AttemptRecord(p).identity.generation = p.generation
           /\ AttemptRecord(p).identity.digest[1] = p.action
           /\ p.session \in DOMAIN sessions /\ sessions[p.session] \in SessionRecord
           /\ p.key \in Key \cup {NoKey} /\ p.action \in Action
<1>1. p \in Permit
  BY DEF TypeOK
<1>2. p.session \in DOMAIN sessions
  BY DEF Admissible, SessionValid
<1>3. sessions[p.session] \in SessionRecord
  BY <1>2 DEF TypeOK
<1>4. sessions[p.session].principal \in Principal
  BY <1>3 DEF SessionRecord
<1>5. p.key \in Key \cup {NoKey} /\ p.action \in Action /\ p.revision \in Nat /\ p.generation \in Nat
  BY <1>1 DEF Permit
<1>6. AttemptRecord(p) \in Record
  BY <1>4, <1>5, RecordConstructors DEF AttemptRecord
<1> QED BY <1>2, <1>3, <1>5, <1>6 DEF AttemptRecord, EffectAttempted, DigestAt, IsAttempt

\* admit_effect: the attempt follows, and a dispatch begins only once it is recorded.
LEMMA AttemptCore ==
    ASSUME TypeOK, CoreInv, NEW p \in permits, AttemptEffect(p)
    PROVE  /\ CoreInv' /\ Grown(AttemptRecord(p)) /\ OpenIn(ledger, Len(ledger)) = {}
           /\ UNCHANGED worldVars
<1> DEFINE rec == AttemptRecord(p)
<1>1. /\ pc = "idle" /\ ~IsFenced /\ Admissible(p) /\ Admission(p) = "Attempt"
      /\ \/ AppendChecked(rec, permits \ {p}) /\ Dispatching(p)
         \/ AppendFails(rec, permits \ {p}) /\ UNCHANGED <<pc, call>>
      /\ UNCHANGED worldVars
  BY DEF AttemptEffect, CommitRefused
<1>2. /\ ~uncertain /\ pc # "down" /\ LogOK(ledger) /\ Projects(mem, ledger, Len(ledger))
      /\ OpenIn(ledger, Len(ledger)) = {} /\ jobs = {}
  BY <1>1, Unfenced
<1>3. /\ rec \in Record /\ IsAttempt(rec) /\ rec.key = p.key
      /\ rec.identity.principal = sessions[p.session].principal
      /\ rec.identity.revision = p.revision /\ rec.identity.generation = p.generation
      /\ rec.identity.digest[1] = p.action
  BY <1>1, AttemptFields
<1> HIDE DEF rec
<1>4. p.revision = mem.revision /\ p.generation = mem.live /\ mem.live \notin mem.revoked
  BY <1>1 DEF Admissible, CheckExecutionAction
<1>5. rec.key \in DOMAIN mem.settled => mem.settled[rec.key].outcome = "NotApplied"
  BY <1>1, <1>3 DEF Admission
<1>6. Follows(Append(ledger, rec), Len(ledger) + 1)
  BY <1>2, <1>3, <1>4, <1>5, AttemptFollows
<1>7. Grown(rec) /\ (AppendChecked(rec, permits \ {p}) => ~uncertain' /\ Len(ledger') = Len(ledger) + 1)
  BY <1>1, <1>2, <1>3, <1>6, AppendGrows
<1>8. ~IsClosing(rec)
  BY <1>3 DEF IsClosing, IsAttempt
<1>9. CASE AppendFails(rec, permits \ {p}) /\ UNCHANGED <<pc, call>>
  <2>1. CoreInv'
    BY <1>1, <1>2, <1>7, <1>8, <1>9, GrowthKeepsCore
  <2> QED BY <1>1, <1>2, <1>7, <2>1 DEF rec
<1>10. CASE AppendChecked(rec, permits \ {p}) /\ Dispatching(p)
  <2>1. Outside' /\ Truthful'
    BY <1>1, <1>2, <1>7, <1>8, GrowthKeepsOutside
  <2>2. /\ pc' = "dispatch" /\ call'.attempt = Len(ledger) + 1
        /\ call'.principal = sessions[p.session].principal
        /\ call'.action = p.action /\ call'.key = p.key
    BY <1>10 DEF Dispatching
  <2>3. /\ Len(ledger') = Len(ledger) + 1 /\ ~uncertain' /\ Len(ledger) \in Nat
        /\ LogOK(ledger') /\ Projects(mem', ledger', applied') /\ applied' \in 0..Len(ledger')
        /\ applied' = Len(ledger')
    BY <1>2, <1>7, <1>10 DEF Grown, LogOK
  <2>4. ledger'[Len(ledger')] = rec
    <3>1. ledger' # ledger
      BY <2>3
    <3> QED BY <1>7, <2>3, <3>1 DEF Grown
  <2>5. Len(ledger') \in Attempts'
    BY <1>3, <2>3, <2>4 DEF Attempts, LogOK
  <2>6. jobs' = {} /\ Len(ledger') \notin world'
    BY <1>1, <1>2, <2>3 DEF worldVars, CoreInv, Outside, Attempts, LogOK
  <2>7. InCall'
    BY <1>3, <2>2, <2>3, <2>4, <2>5, <2>6 DEF InCall
  <2>8. Synced' /\ RestartIsAccepted'
    BY <2>2, <2>3 DEF Synced, RestartIsAccepted
  <2>9. CoreInv'
    BY <2>1, <2>3, <2>7, <2>8 DEF CoreInv
  <2> QED BY <1>1, <1>2, <1>7, <2>9 DEF rec
<1> QED BY <1>1, <1>9, <1>10

\* A settlement that is not refused closes the attempt that is open, the last record.
LEMMA ClosingCore ==
    ASSUME CoreInv, pc \notin {"down", "refused"}, NEW rec \in Record, IsClosing(rec),
           ~SettlementRefused(rec),
           rec.kind = "EffectSettled" => rec.response \in {0, rec.attempt},
           AppendChecked(rec, permits) \/ AppendFails(rec, permits),
           UNCHANGED worldVars, pc' = "idle",
           rec.attempt \notin jobs, SaysNotApplied(rec) <=> rec.attempt \notin world
    PROVE  /\ CoreInv' /\ Grown(rec)
           /\ rec.attempt = Len(ledger) /\ Len(ledger) \in Attempts /\ jobs = {}
<1>1. ~uncertain /\ ValidLifecycleEvent(mem, rec) /\ pc # "down"
  BY DEF SettlementRefused
<1>2. rec.attempt \in DOMAIN mem.unsettled
  BY <1>1 DEF ValidLifecycleEvent, IsClosing
<1>3. LogOK(ledger) /\ Projects(mem, ledger, Len(ledger)) /\ ledger \in Seq(Record)
  BY <1>1, Serving
<1>4. /\ Follows(Append(ledger, rec), Len(ledger) + 1)
      /\ rec.attempt = Len(ledger) /\ Len(ledger) \in 1..Len(ledger) /\ IsAttempt(ledger[Len(ledger)])
  BY <1>2, <1>3, ClosingFollows
<1>5. Grown(rec)
  BY <1>1, <1>4, AppendGrows
<1>6. jobs = {} /\ Len(ledger) \in Attempts
  BY <1>3, <1>4 DEF CoreInv, Outside, Attempts
<1> QED BY <1>4, <1>5, <1>6, GrowthKeepsCore

\* The end of execute_prepared.
LEMMA SettleSynchronousCore ==
    ASSUME CoreInv, NEW retain \in BOOLEAN, SettleSynchronous(retain)
    PROVE  CoreInv'
<1> DEFINE rec == SettlementRecord(call.attempt, retain)
<1>1. /\ pc = "settle" /\ pc' = "idle" /\ UNCHANGED worldVars
      /\ \/ ~SettlementRefused(rec) /\ (AppendChecked(rec, permits) \/ AppendFails(rec, permits))
         \/ UNCHANGED <<ledger, mem, applied, uncertain>>
  BY DEF SettleSynchronous
<1>2. /\ call.attempt = Len(ledger) /\ Len(ledger) \in Nat
      /\ Len(ledger) \in world /\ jobs = {}
  BY <1>1 DEF CoreInv, InCall, LogOK
<1>3. /\ rec \in Record /\ rec.kind = "EffectSettled" /\ rec.attempt = Len(ledger)
      /\ rec.response \in {0, rec.attempt}
  BY <1>2, RecordConstructors DEF SettlementRecord, EffectSettled
<1> HIDE DEF rec
<1>4. CASE ~SettlementRefused(rec) /\ (AppendChecked(rec, permits) \/ AppendFails(rec, permits))
  BY <1>1, <1>2, <1>3, <1>4, ClosingCore DEF IsClosing, SaysNotApplied
<1>5. CASE UNCHANGED <<ledger, mem, applied, uncertain>>
  <2>1. Outside' /\ Truthful' /\ LogOK(ledger') /\ Projects(mem', ledger', applied')
    BY <1>1, <1>5 DEF CoreInv, Outside, Truthful, Attempts, worldVars
  <2>2. Synced' /\ RestartIsAccepted' /\ InCall'
    BY <1>1, <1>5 DEF CoreInv, Synced, RestartIsAccepted, InCall
  <2> QED BY <2>1, <2>2 DEF CoreInv
<1> QED BY <1>1, <1>4, <1>5

\* settle_detached.
LEMMA SettleDetachedCore ==
    ASSUME CoreInv, NEW i \in reports, NEW retain \in BOOLEAN, SettleDetached(i, retain)
    PROVE  CoreInv'
<1> DEFINE rec == SettlementRecord(i, retain)
<1>1. /\ pc = "idle" /\ pc' = "idle" /\ UNCHANGED worldVars
      /\ ~SettlementRefused(rec) /\ (AppendChecked(rec, permits) \/ AppendFails(rec, permits))
  BY DEF SettleDetached
<1>2. i \in world /\ i \notin jobs /\ i \in Nat
  BY DEF CoreInv, Outside, Attempts, LogOK
<1>3. /\ rec \in Record /\ rec.kind = "EffectSettled" /\ rec.attempt = i
      /\ rec.response \in {0, rec.attempt}
  BY <1>2, RecordConstructors DEF SettlementRecord, EffectSettled
<1> HIDE DEF rec
<1> QED BY <1>1, <1>2, <1>3, ClosingCore DEF IsClosing, SaysNotApplied

\* reconcile_effect, with final evidence.
LEMMA ReconcileCore ==
    ASSUME CoreInv, NEW i \in DOMAIN mem.unsettled, ReconcileEffect(i)
    PROVE  CoreInv'
<1> DEFINE rec == EffectReconciled(i, i \in world)
<1>1. /\ pc = "idle" /\ pc' = "idle" /\ UNCHANGED worldVars /\ i \notin jobs
      /\ ~SettlementRefused(rec) /\ (AppendChecked(rec, permits) \/ AppendFails(rec, permits))
  BY DEF ReconcileEffect
<1>2. i \in Nat
  BY <1>1, Serving DEF SettlementRefused, OpenIn
<1>3. /\ rec \in Record /\ rec.kind = "EffectReconciled" /\ rec.attempt = i
      /\ SaysNotApplied(rec) <=> i \notin world
  <2>1. /\ \A b \in BOOLEAN : EffectReconciled(i, b) \in Record
        /\ \A b : /\ EffectReconciled(i, b).kind = "EffectReconciled"
                  /\ EffectReconciled(i, b).attempt = i /\ EffectReconciled(i, b).applied = b
    BY <1>2, RecordConstructors DEF EffectReconciled
  <2>2. CASE i \in world
    <3>1. rec = EffectReconciled(i, TRUE)
      BY <2>2
    <3> HIDE DEF rec
    <3> QED BY <2>1, <2>2, <3>1 DEF SaysNotApplied
  <2>3. CASE i \notin world
    <3>0. (i \in world) = FALSE
      BY <2>3
    <3>1. rec = EffectReconciled(i, FALSE)
      BY <3>0
    <3> HIDE DEF rec
    <3> QED BY <2>1, <2>3, <3>1 DEF SaysNotApplied
  <2> QED BY <2>2, <2>3
<1> HIDE DEF rec
<1> QED BY <1>1, <1>2, <1>3, ClosingCore DEF IsClosing

-----------------------------------------------------------------------------
(* Steps that append nothing *)

\* The world acts only for an attempt that nothing closes.
LEMMA WorldGrows ==
    ASSUME CoreInv, Len(ledger) \in Attempts, UNCHANGED ledger,
           world' = world \/ world' = world \cup {Len(ledger)}
    PROVE  Truthful'
<1>1. /\ Len(ledger) \in Nat /\ LogOK(ledger) /\ Truthful
      /\ \A j \in 1..Len(ledger) : j - 1 # Len(ledger)
  BY DEF CoreInv, LogOK
<1> QED BY <1>1 DEF Truthful

\* ActionExecutor::execute.
LEMMA ExecuteCore ==
    ASSUME CoreInv, NEW applies \in BOOLEAN, NEW ok \in BOOLEAN, ExecuteSynchronous(applies, ok)
    PROVE  CoreInv'
<1>1. /\ pc = "dispatch" /\ (ok => applies)
      /\ UNCHANGED <<ledger, mem, applied, uncertain, jobs, reports>>
      /\ world' = IF applies THEN world \cup {call.attempt} ELSE world
      /\ \/ ok /\ pc' = "settle" /\ UNCHANGED call
         \/ ~ok /\ pc' = "idle"
  BY DEF ExecuteSynchronous
<1>2. /\ call.attempt = Len(ledger) /\ Len(ledger) \in Attempts /\ jobs = {}
      /\ ledger[Len(ledger)].key = call.key
      /\ ledger[Len(ledger)].identity.principal = call.principal
      /\ ledger[Len(ledger)].identity.digest[1] = call.action
  BY <1>1 DEF CoreInv, InCall
<1>3. Truthful'
  BY <1>1, <1>2, WorldGrows
<1>4. Outside'
  BY <1>1, <1>2 DEF CoreInv, Outside, Attempts
<1>5. InCall'
  BY <1>1, <1>2 DEF InCall, Attempts
<1>6. Synced' /\ RestartIsAccepted'
  BY <1>1 DEF CoreInv, Synced, RestartIsAccepted
<1> QED BY <1>1, <1>3, <1>4, <1>5, <1>6 DEF CoreInv

\* DetachedExecutor::start.
LEMMA StartCore ==
    ASSUME CoreInv, NEW accepted \in BOOLEAN, NEW ok \in BOOLEAN, StartDetached(accepted, ok)
    PROVE  CoreInv'
<1>1. /\ pc = "dispatch" /\ pc' = "idle"
      /\ UNCHANGED <<ledger, mem, applied, uncertain, world, reports>>
      /\ jobs' = IF accepted THEN jobs \cup {call.attempt} ELSE jobs
  BY DEF StartDetached
<1>2. call.attempt = Len(ledger) /\ Len(ledger) \in Attempts /\ jobs = {} /\ Len(ledger) \notin world
  BY <1>1 DEF CoreInv, InCall
<1>3. Truthful'
  BY <1>1, <1>2, WorldGrows
<1>4. Outside'
  BY <1>1, <1>2 DEF CoreInv, Outside, Attempts
<1>5. Synced' /\ RestartIsAccepted' /\ InCall'
  BY <1>1 DEF CoreInv, Synced, RestartIsAccepted, InCall
<1> QED BY <1>1, <1>3, <1>4, <1>5 DEF CoreInv

\* An adapter finishes or gives up the work it holds.
LEMMA AdapterCore ==
    ASSUME CoreInv, NEW i \in jobs, JobApplies(i) \/ JobDies(i)
    PROVE  CoreInv'
<1>1. /\ UNCHANGED <<ledger, mem, applied, uncertain, pc, call>> /\ jobs' = jobs \ {i}
      /\ \/ world' = world \cup {i} /\ reports' = reports \cup {i}
         \/ world' = world /\ reports' = reports
  BY DEF JobApplies, JobDies
<1>2. i = Len(ledger) /\ i \in Attempts
  BY DEF CoreInv, Outside
<1>3. Truthful'
  BY <1>1, <1>2, WorldGrows
<1>4. Outside'
  BY <1>1, <1>2 DEF CoreInv, Outside, Attempts
<1>5. pc \notin {"dispatch", "settle"}
  BY DEF CoreInv, InCall
<1>6. Synced' /\ RestartIsAccepted' /\ InCall'
  BY <1>1, <1>5 DEF CoreInv, Synced, RestartIsAccepted, InCall
<1> QED BY <1>1, <1>3, <1>4, <1>6 DEF CoreInv

\* A fresh runtime projects the empty prefix of any log.
LEMMA FreshProjects ==
    ASSUME NEW l
    PROVE  Projects(Fresh, l, 0)
<1>1. Fresh = View(<<>>, <<>>, 0, 1, {})
  BY DEF Fresh, View
<1>2. /\ IsView(Fresh) /\ Fresh.unsettled = <<>> /\ Fresh.settled = <<>> /\ Fresh.revision = 0
      /\ Fresh.live = 1 /\ Fresh.revoked = {}
  BY <1>1, ViewFields
<1>3. OpenIn(l, 0) = {} /\ DeltasIn(l, 0) = {} /\ \A k : ClosingsIn(l, 0, k) = {}
  BY DEF OpenIn, DeltasIn, ClosingsIn
<1>4. DOMAIN << >> = {}
  OBVIOUS
<1>5. OpenProjected(Fresh.unsettled, l, 0) /\ KeysProjected(Fresh.settled, l, 0)
  BY <1>2, <1>3, <1>4 DEF OpenProjected, KeysProjected
<1>6. RevisionProjected(Fresh.revision, l, 0)
  BY <1>2, <1>3, FS_EmptySet DEF RevisionProjected
<1>7. LiveProjected(Fresh.live, l, 0) /\ RevokedProjected(Fresh.revoked, l, 0)
  BY <1>2 DEF LiveProjected, RevokedProjected
<1> QED BY <1>2, <1>5, <1>6, <1>7 DEF Projects

\* Losing the runtime, whenever it happens.
LEMMA LoseCore ==
    ASSUME CoreInv, LoseRuntime
    PROVE  CoreInv'
<1>1. /\ pc' = "down" /\ mem' = Fresh /\ applied' = 0 /\ ~uncertain'
      /\ UNCHANGED <<ledger, world, jobs, reports>>
  BY DEF LoseRuntime, worldVars
<1>2. Outside' /\ Truthful' /\ LogOK(ledger')
  BY <1>1 DEF CoreInv, Outside, Truthful, Attempts
<1>3. Projects(mem', ledger', applied')
  BY <1>1, FreshProjects
<1>4. Synced' /\ RestartIsAccepted' /\ InCall'
  BY <1>1, <1>2 DEF Synced, RestartIsAccepted, InCall, LogOK
<1> QED BY <1>2, <1>3, <1>4 DEF CoreInv

\* from_durable_ledger accepts every record of the log, one by one.
LEMMA ReplayCore ==
    ASSUME CoreInv, ReplayRecord
    PROVE  CoreInv' /\ UNCHANGED pc
<1>1. /\ applied \in Nat /\ applied < Len(ledger) /\ pc = "down" /\ Len(ledger) \in Nat
      /\ LogOK(ledger) /\ Projects(mem, ledger, applied) /\ ~uncertain
      /\ UNCHANGED <<ledger, uncertain, call, worldVars>>
  BY DEF ReplayRecord, CoreInv, Synced, LogOK
<1>2. ValidLifecycleEvent(mem, ledger[applied + 1])
  BY <1>1, NextIsValid
<1>3. /\ mem' = ApplyCommitted(mem, applied + 1, ledger[applied + 1])
      /\ applied' = applied + 1 /\ UNCHANGED pc
  BY <1>2 DEF ReplayRecord
<1>4. Projects(mem', ledger', applied')
  BY <1>1, <1>3, ProjectsNext
<1>5. Outside' /\ Truthful' /\ LogOK(ledger')
  BY <1>1 DEF CoreInv, Outside, Truthful, Attempts, worldVars
<1>6. Synced' /\ RestartIsAccepted' /\ InCall'
  BY <1>1, <1>3 DEF Synced, RestartIsAccepted, InCall
<1> QED BY <1>3, <1>4, <1>5, <1>6 DEF CoreInv

\* Serving begins when the whole log is applied.
LEMMA ServeCore ==
    ASSUME CoreInv, NEW new, Serve(new)
    PROVE  CoreInv'
<1>1. /\ pc = "down" /\ pc' = "idle" /\ applied = Len(ledger)
      /\ UNCHANGED <<ledger, mem, applied, uncertain, world, jobs, reports>>
  BY DEF Serve, worldVars
<1>2. Outside' /\ Truthful' /\ LogOK(ledger') /\ Projects(mem', ledger', applied')
  BY <1>1 DEF CoreInv, Outside, Truthful, Attempts
<1>3. Synced' /\ RestartIsAccepted' /\ InCall'
  BY <1>1 DEF CoreInv, Synced, RestartIsAccepted, InCall
<1> QED BY <1>2, <1>3 DEF CoreInv

\* Sessions, policies, permissions, permits and answers are not part of it.
LEMMA QuietCore ==
    ASSUME CoreInv, UNCHANGED coreVars
    PROVE  CoreInv'
  BY DEF coreVars, worldVars, CoreInv, Synced, RestartIsAccepted, InCall, Outside, Truthful, Attempts

\* Every step keeps it.
LEMMA CoreStep ==
    ASSUME TypeOK, CoreInv, [Next]_vars
    PROVE  CoreInv'
<1>1. CASE Lifecycle
  <2>1. CASE CommitSemantic
    BY <2>1, CommitCore, RecordConstructors DEF CommitSemantic, SemanticDelta
  <2>2. ASSUME NEW g \in 1..MaxGeneration, SupersedeCapsule(g) PROVE CoreInv'
    <3>1. g \in Nat
      BY BoundAssumption
    <3> QED BY <2>2, <3>1, CommitCore, RecordConstructors DEF SupersedeCapsule
  <2>3. ASSUME NEW g \in 1..MaxGeneration, RevokeGeneration(g) PROVE CoreInv'
    <3>1. g \in Nat /\ Revoked(g).kind = "Revoked"
      BY BoundAssumption DEF Revoked
    <3> QED BY <2>3, <3>1, CommitCore, RecordConstructors DEF RevokeGeneration
  <2> QED BY <1>1, <2>1, <2>2, <2>3 DEF Lifecycle
<1>2. CASE Authority
  <2>1. UNCHANGED coreVars
    BY <1>2 DEF Authority, RegisterExecutionSession, AdmitPeer, RegisterSession, WithdrawPeer,
       InstallPolicy, EndSession, ChangePermissions, Prepare, coreVars
  <2> QED BY <2>1, QuietCore
<1>3. ASSUME NEW p \in permits, AttemptEffect(p) \/ ReplayOutcome(p) \/ RefusePermit(p)
      PROVE  CoreInv'
  <2>1. CASE AttemptEffect(p)
    BY <2>1, AttemptCore
  <2>2. CASE ReplayOutcome(p) \/ RefusePermit(p)
    <3>1. UNCHANGED coreVars
      BY <2>2 DEF ReplayOutcome, RefusePermit, coreVars
    <3> QED BY <3>1, QuietCore
  <2> QED BY <1>3, <2>1, <2>2
<1>4. CASE FinishCall
  BY <1>4, ExecuteCore, StartCore, SettleSynchronousCore DEF FinishCall, Dispatch
<1>5. CASE Adapter \/ Report \/ Reconcile
  BY <1>5, AdapterCore, SettleDetachedCore, ReconcileCore DEF Adapter, Report, Reconcile
<1>6. CASE Crash \/ Recover
  BY <1>6, LoseCore, ReplayCore, ServeCore DEF Crash, Recover, DropUncertain
<1>7. CASE UNCHANGED vars
  <2>1. UNCHANGED coreVars
    BY <1>7 DEF vars, coreVars, worldVars
  <2> QED BY <2>1, QuietCore
<1> QED BY <1>1, <1>2, <1>3, <1>4, <1>5, <1>6, <1>7 DEF Next, Admit

-----------------------------------------------------------------------------
(* Authority *)

\* A session of an admitted peer acts as the table in force says.
SessionsFollow ==
    \A id \in DOMAIN sessions :
        sessions[id].peer # NoPeer /\ policy[sessions[id].peer].admitted =>
            /\ sessions[id].principal = policy[sessions[id].peer].principal
            /\ sessions[id].grants = policy[sessions[id].peer].grants

AuthorityInv ==
    /\ pc = "down" => sessions = <<>>
    /\ SessionsFollow /\ DispatchIsWithinPolicy

AuthorityTypes ==
    /\ sessions \in Seq(SessionRecord) /\ Len(sessions) <= MaxSessions
    /\ policy \in AdmissionPolicy /\ capable \subseteq Action

\* Every step keeps what sessions, policy and permissions are.
LEMMA AuthorityTypesStep ==
    ASSUME TypeOK, [Next]_vars
    PROVE  AuthorityTypes'
<1>0. /\ AuthorityTypes /\ MaxSessions \in Nat /\ Len(sessions) \in Nat
      /\ DOMAIN sessions = 1..Len(sessions) /\ sessions \in [1..Len(sessions) -> SessionRecord]
  BY BoundAssumption, LenProperties DEF TypeOK, AuthorityTypes
<1>1. ASSUME NEW q \in Principal, NEW grants \in SUBSET Action, NEW peer \in Peer \cup {NoPeer},
             RegisterSession(q, grants, peer)
      PROVE  AuthorityTypes'
  <2> DEFINE s == [principal |-> q, grants |-> grants, peer |-> peer, live |-> TRUE]
  <2>1. s \in SessionRecord
    BY DEF SessionRecord
  <2>2. sessions' = Append(sessions, s) /\ Len(sessions) < MaxSessions /\ UNCHANGED <<policy, capable>>
    BY <1>1 DEF RegisterSession
  <2> HIDE DEF s
  <2>3. sessions' \in Seq(SessionRecord) /\ Len(sessions') = Len(sessions) + 1
    BY <1>0, <2>1, <2>2, AppendProperties DEF AuthorityTypes
  <2> QED BY <1>0, <2>2, <2>3 DEF AuthorityTypes
<1>2. ASSUME NEW q \in Principal, RegisterExecutionSession(q) PROVE AuthorityTypes'
  BY <1>1, <1>2 DEF RegisterExecutionSession
<1>3. ASSUME NEW peer \in Peer, AdmitPeer(peer) PROVE AuthorityTypes'
  <2>1. policy[peer].principal \in Principal /\ policy[peer].grants \in SUBSET Action
    BY <1>0 DEF AuthorityTypes, AdmissionPolicy
  <2> QED BY <1>1, <1>3, <2>1 DEF AdmitPeer
<1>4. ASSUME NEW peer \in Peer, WithdrawPeer(peer) PROVE AuthorityTypes'
  <2>1. policy' = [policy EXCEPT ![peer].admitted = FALSE] /\ UNCHANGED <<sessions, capable>>
    BY <1>4 DEF WithdrawPeer
  <2>2. policy' \in AdmissionPolicy
    BY <1>0, <2>1 DEF AuthorityTypes, AdmissionPolicy
  <2> QED BY <1>0, <2>1, <2>2 DEF AuthorityTypes
<1>5. ASSUME NEW new \in Policies, InstallPolicy(new) PROVE AuthorityTypes'
  <2>1. new \in AdmissionPolicy
    BY PolicyAssumption
  <2>2. /\ policy' = new /\ UNCHANGED capable
        /\ sessions' = [id \in DOMAIN sessions |->
              IF sessions[id].peer # NoPeer /\ new[sessions[id].peer].admitted
              THEN [sessions[id] EXCEPT !.principal = new[sessions[id].peer].principal,
                                        !.grants = new[sessions[id].peer].grants]
              ELSE sessions[id]]
    BY <1>5 DEF InstallPolicy
  <2>3. ASSUME NEW id \in 1..Len(sessions) PROVE sessions'[id] \in SessionRecord
    <3>1. sessions[id] \in SessionRecord
      BY <1>0 DEF AuthorityTypes
    <3>2. CASE sessions[id].peer # NoPeer /\ new[sessions[id].peer].admitted
      <4>1. sessions[id].peer \in Peer
        BY <3>1, <3>2 DEF SessionRecord
      <4>2. /\ new[sessions[id].peer].principal \in Principal
            /\ new[sessions[id].peer].grants \in SUBSET Action
        BY <2>1, <4>1 DEF AdmissionPolicy
      <4>3. sessions'[id] = [sessions[id] EXCEPT !.principal = new[sessions[id].peer].principal,
                                                 !.grants = new[sessions[id].peer].grants]
        BY <1>0, <2>2, <3>2
      <4> QED BY <3>1, <4>2, <4>3 DEF SessionRecord
    <3>3. CASE ~(sessions[id].peer # NoPeer /\ new[sessions[id].peer].admitted)
      BY <1>0, <2>2, <3>1, <3>3
    <3> QED BY <3>2, <3>3
  <2>4. sessions' \in [1..Len(sessions) -> SessionRecord]
    BY <1>0, <2>2, <2>3
  <2>5. sessions' \in Seq(SessionRecord) /\ Len(sessions') = Len(sessions)
    BY <1>0, <2>4, SeqDef, LenProperties
  <2> QED BY <1>0, <2>1, <2>2, <2>5 DEF AuthorityTypes
<1>6. ASSUME NEW id \in 1..MaxSessions, EndSession(id) PROVE AuthorityTypes'
  <2>1. /\ sessions' = [sessions EXCEPT ![id].live = FALSE] /\ id \in DOMAIN sessions
        /\ UNCHANGED <<policy, capable>>
    BY <1>6 DEF EndSession
  <2>2. [sessions[id] EXCEPT !.live = FALSE] \in SessionRecord
    BY <1>0, <2>1 DEF AuthorityTypes, SessionRecord
  <2>3. sessions' = [sessions EXCEPT ![id] = [sessions[id] EXCEPT !.live = FALSE]]
    BY <1>0, <2>1
  <2>4. sessions' \in Seq(SessionRecord) /\ Len(sessions') = Len(sessions)
    BY <1>0, <2>1, <2>2, <2>3, ExceptSeq DEF AuthorityTypes
  <2> QED BY <1>0, <2>1, <2>4 DEF AuthorityTypes
<1>7. ASSUME NEW set \in SUBSET Action, ChangePermissions(set) PROVE AuthorityTypes'
  BY <1>0, <1>7 DEF ChangePermissions, AuthorityTypes
<1>8. CASE LoseRuntime
  <2>1. /\ policy' = [peer \in Peer |-> [policy[peer] EXCEPT !.admitted = FALSE]]
        /\ sessions' = <<>> /\ capable' = {}
    BY <1>8 DEF LoseRuntime
  <2>2. policy' \in AdmissionPolicy
    BY <1>0, <2>1 DEF AuthorityTypes, AdmissionPolicy
  <2> QED BY <1>0, <2>1, <2>2, EmptySeq DEF AuthorityTypes
<1>9. ASSUME NEW new \in Policies, Serve(new) PROVE AuthorityTypes'
  BY <1>0, <1>9, PolicyAssumption DEF Serve, AuthorityTypes
<1>10. CASE UNCHANGED authorityVars
  BY <1>0, <1>10 DEF authorityVars, AuthorityTypes
<1>11. CASE Lifecycle
  BY <1>10, <1>11 DEF Lifecycle, CommitSemantic, SupersedeCapsule, RevokeGeneration, Commit
<1>12. CASE Authority
  <2>1. ASSUME NEW id, NEW a, NEW r, NEW g, NEW k, Prepare(id, a, r, g, k) PROVE AuthorityTypes'
    BY <1>10, <2>1 DEF Prepare
  <2> QED BY <1>2, <1>3, <1>4, <1>5, <1>6, <1>7, <1>12, <2>1 DEF Authority
<1>13. CASE Admit
  BY <1>10, <1>13 DEF Admit, AttemptEffect, ReplayOutcome, RefusePermit
<1>14. CASE FinishCall \/ Adapter \/ Report \/ Reconcile
  BY <1>10, <1>14 DEF FinishCall, Dispatch, ExecuteSynchronous, StartDetached, SettleSynchronous,
     Adapter, JobApplies, JobDies, Report, SettleDetached, Reconcile, ReconcileEffect
<1>15. CASE Crash \/ Recover
  BY <1>8, <1>9, <1>10, <1>15 DEF Crash, Recover, DropUncertain, ReplayRecord
<1>16. CASE UNCHANGED vars
  BY <1>10, <1>16 DEF vars, authorityVars
<1> QED BY <1>11, <1>12, <1>13, <1>14, <1>15, <1>16 DEF Next

-----------------------------------------------------------------------------
(* The type invariant *)

Places == {"idle", "dispatch", "settle", "down", "refused"}
PlaceTypes == uncertain \in BOOLEAN /\ pc \in Places
CountTypes ==
    /\ Len(ledger) <= MaxRecords
    /\ hostSteps \in 0..MaxHostSteps /\ failures \in 0..MaxFailures

\* Whoever appends leaves room, and every failure is counted.
LEMMA AppendTypes ==
    ASSUME ledger \in Seq(Record), CountTypes, PlaceTypes, NEW rec, NEW ps,
           AppendChecked(rec, ps) \/ AppendFails(rec, ps)
    PROVE  /\ Len(ledger') <= MaxRecords /\ failures' \in 0..MaxFailures
           /\ uncertain' \in BOOLEAN /\ permits' = StalePermits(ps)
<1>1. Len(ledger) \in Nat /\ Len(Append(ledger, rec)) = Len(ledger) + 1
  OBVIOUS
<1>2. CASE AppendChecked(rec, ps)
  BY <1>1, <1>2, BoundAssumption DEF AppendChecked, CountTypes, PlaceTypes
<1>3. CASE AppendFails(rec, ps)
  <2>1. /\ failures < MaxFailures /\ Len(ledger) < MaxRecords /\ failures' = failures + 1
        /\ ledger' \in {ledger, Append(ledger, rec)} /\ uncertain' \in BOOLEAN
        /\ permits' = StalePermits(ps)
    BY <1>3 DEF AppendFails
  <2> QED BY <1>1, <2>1, BoundAssumption DEF CountTypes
<1> QED BY <1>2, <1>3

\* A stale permit is a permit.
LEMMA StaleTypes ==
    ASSUME NEW ps \in SUBSET Permit
    PROVE  StalePermits(ps) \subseteq Permit
  BY DEF StalePermits, Permit

\* Every step keeps the bounds and where the runtime is.
LEMMA BoundStep ==
    ASSUME TypeOK, CoreInv, [Next]_vars
    PROVE  CountTypes' /\ PlaceTypes' /\ permits' \subseteq Permit
<1>0. /\ CountTypes /\ PlaceTypes /\ permits \subseteq Permit /\ ledger \in Seq(Record)
      /\ MaxHostSteps \in Nat /\ MaxFailures \in Nat /\ mem.revision \in Nat /\ mem.live \in Nat
  BY BoundAssumption DEF TypeOK, CountTypes, PlaceTypes, Places
<1>a. ASSUME NEW ps \in SUBSET Permit, permits' = StalePermits(ps) PROVE permits' \subseteq Permit
  BY <1>a, StaleTypes
<1>1. ASSUME NEW rec, Commit(rec) PROVE CountTypes' /\ PlaceTypes' /\ permits' \subseteq Permit
  <2>1. /\ AppendChecked(rec, permits) \/ AppendFails(rec, permits)
        /\ UNCHANGED <<pc, hostSteps>>
    BY <1>1 DEF Commit
  <2>2. /\ Len(ledger') <= MaxRecords /\ failures' \in 0..MaxFailures
        /\ uncertain' \in BOOLEAN /\ permits' = StalePermits(permits)
    BY <1>0, <2>1, AppendTypes
  <2> QED BY <1>0, <1>a, <2>1, <2>2 DEF CountTypes, PlaceTypes
<1>2. CASE Lifecycle
  BY <1>1, <1>2 DEF Lifecycle, CommitSemantic, SupersedeCapsule, RevokeGeneration
<1>3. ASSUME NEW p \in permits, AttemptEffect(p)
      PROVE  CountTypes' /\ PlaceTypes' /\ permits' \subseteq Permit
  <2>1. /\ \/ AppendChecked(AttemptRecord(p), permits \ {p})
           \/ AppendFails(AttemptRecord(p), permits \ {p})
        /\ pc' \in {pc, "dispatch"} /\ UNCHANGED hostSteps
    BY <1>3 DEF AttemptEffect, Dispatching
  <2>2. /\ Len(ledger') <= MaxRecords /\ failures' \in 0..MaxFailures
        /\ uncertain' \in BOOLEAN /\ permits' = StalePermits(permits \ {p})
    BY <1>0, <2>1, AppendTypes
  <2>3. permits' \subseteq Permit
    BY <1>0, <1>a, <2>2
  <2> QED BY <1>0, <2>1, <2>2, <2>3 DEF CountTypes, PlaceTypes, Places
<1>4. ASSUME NEW rec, AppendChecked(rec, permits) \/ AppendFails(rec, permits),
             pc' \in {pc, "idle"}, UNCHANGED hostSteps
      PROVE  CountTypes' /\ PlaceTypes' /\ permits' \subseteq Permit
  <2>2. /\ Len(ledger') <= MaxRecords /\ failures' \in 0..MaxFailures
        /\ uncertain' \in BOOLEAN /\ permits' = StalePermits(permits)
    BY <1>0, <1>4, AppendTypes
  <2> QED BY <1>0, <1>a, <1>4, <2>2 DEF CountTypes, PlaceTypes, Places
<1>5. ASSUME permits' \subseteq permits, pc' \in Places, UNCHANGED <<ledger, uncertain, boundVars>>
      PROVE  CountTypes' /\ PlaceTypes' /\ permits' \subseteq Permit
  BY <1>0, <1>5 DEF CountTypes, PlaceTypes, boundVars
<1>6. ASSUME NEW retain \in BOOLEAN, SettleSynchronous(retain)
      PROVE  CountTypes' /\ PlaceTypes' /\ permits' \subseteq Permit
  <2>1. /\ pc' = "idle" /\ UNCHANGED hostSteps
        /\ \/ \E rec : AppendChecked(rec, permits) \/ AppendFails(rec, permits)
           \/ UNCHANGED <<ledger, uncertain, permits, failures>>
    BY <1>6 DEF SettleSynchronous
  <2> QED BY <1>4, <1>5, <2>1 DEF Places, boundVars
<1>7. ASSUME NEW i, NEW retain, SettleDetached(i, retain)
      PROVE  CountTypes' /\ PlaceTypes' /\ permits' \subseteq Permit
  BY <1>4, <1>7 DEF SettleDetached
<1>8. ASSUME NEW i, ReconcileEffect(i)
      PROVE  CountTypes' /\ PlaceTypes' /\ permits' \subseteq Permit
  BY <1>4, <1>8 DEF ReconcileEffect
<1>9. ASSUME NEW id \in 1..MaxSessions, NEW a \in Action, NEW r \in 0..mem.revision,
             NEW g \in 1..mem.live, NEW k \in Key \cup {NoKey}, Prepare(id, a, r, g, k)
      PROVE  CountTypes' /\ PlaceTypes' /\ permits' \subseteq Permit
  <2> DEFINE p == [session |-> id, action |-> a, revision |-> r, generation |-> g, key |-> k,
                   stale |-> FALSE]
  <2>1. p \in Permit
    BY <1>0 DEF Permit
  <2>2. permits' = permits \cup {p} /\ UNCHANGED <<ledger, uncertain, pc, boundVars>>
    BY <1>9 DEF Prepare
  <2> QED BY <1>0, <2>1, <2>2 DEF CountTypes, PlaceTypes, boundVars
<1>10. ASSUME HostStep, permits' = permits \/ permits' = StalePermits(permits),
              UNCHANGED <<ledger, uncertain, pc, failures>>
       PROVE  CountTypes' /\ PlaceTypes' /\ permits' \subseteq Permit
  <2>1. hostSteps' \in 0..MaxHostSteps
    BY <1>0, <1>10 DEF HostStep, CountTypes
  <2>2. permits' \subseteq Permit
    BY <1>0, <1>a, <1>10
  <2> QED BY <1>0, <1>10, <2>1, <2>2 DEF CountTypes, PlaceTypes
<1>11. CASE Authority
  <2>1. ASSUME NEW q, NEW grants, NEW peer, RegisterSession(q, grants, peer)
        PROVE  CountTypes' /\ PlaceTypes' /\ permits' \subseteq Permit
    BY <1>0, <1>5, <2>1 DEF RegisterSession, PlaceTypes
  <2>2. ASSUME NEW peer, WithdrawPeer(peer)
        PROVE  CountTypes' /\ PlaceTypes' /\ permits' \subseteq Permit
    BY <1>10, <2>2 DEF WithdrawPeer
  <2>3. ASSUME NEW new, InstallPolicy(new)
        PROVE  CountTypes' /\ PlaceTypes' /\ permits' \subseteq Permit
    BY <1>10, <2>3 DEF InstallPolicy
  <2>4. ASSUME NEW id, EndSession(id)
        PROVE  CountTypes' /\ PlaceTypes' /\ permits' \subseteq Permit
    BY <1>0, <1>5, <2>4 DEF EndSession, PlaceTypes
  <2>5. ASSUME NEW set, ChangePermissions(set)
        PROVE  CountTypes' /\ PlaceTypes' /\ permits' \subseteq Permit
    BY <1>10, <2>5 DEF ChangePermissions
  <2> QED BY <1>9, <1>11, <2>1, <2>2, <2>3, <2>4, <2>5
          DEF Authority, RegisterExecutionSession, AdmitPeer
<1>12. CASE Admit
  <2>1. ASSUME NEW p \in permits, ReplayOutcome(p) \/ RefusePermit(p)
        PROVE  CountTypes' /\ PlaceTypes' /\ permits' \subseteq Permit
    BY <1>0, <1>5, <2>1 DEF ReplayOutcome, RefusePermit, PlaceTypes
  <2> QED BY <1>3, <1>12, <2>1 DEF Admit
<1>13. CASE FinishCall
  <2>1. ASSUME NEW applies, NEW ok, ExecuteSynchronous(applies, ok) \/ StartDetached(applies, ok)
        PROVE  CountTypes' /\ PlaceTypes' /\ permits' \subseteq Permit
    <3>1. pc' \in Places /\ UNCHANGED <<ledger, uncertain, permits, boundVars>>
      BY <2>1 DEF ExecuteSynchronous, StartDetached, Places
    <3> QED BY <1>5, <3>1
  <2> QED BY <1>6, <1>13, <2>1 DEF FinishCall, Dispatch
<1>14. CASE Adapter
  BY <1>0, <1>5, <1>14 DEF Adapter, JobApplies, JobDies, PlaceTypes
<1>15. CASE Report \/ Reconcile
  BY <1>7, <1>8, <1>15 DEF Report, Reconcile
<1>16. CASE Crash \/ Recover
  <2>1. ASSUME LoseRuntime, failures' \in 0..MaxFailures
        PROVE  CountTypes' /\ PlaceTypes' /\ permits' \subseteq Permit
    <3>1. /\ pc' = "down" /\ uncertain' = FALSE /\ permits' = StalePermits(permits)
          /\ UNCHANGED <<ledger, hostSteps>>
      BY <2>1 DEF LoseRuntime
    <3>2. permits' \subseteq Permit
      BY <1>0, <1>a, <3>1
    <3>3. PlaceTypes'
      BY <3>1 DEF PlaceTypes, Places
    <3>4. CountTypes'
      BY <1>0, <2>1, <3>1 DEF CountTypes
    <3> QED BY <3>2, <3>3, <3>4
  <2>2. CASE Crash
    <3>1. LoseRuntime /\ failures < MaxFailures /\ failures' = failures + 1
      BY <2>2 DEF Crash
    <3> QED BY <1>0, <2>1, <3>1 DEF CountTypes
  <2>3. CASE DropUncertain
    BY <1>0, <2>1, <2>3 DEF DropUncertain, CountTypes
  <2>4. CASE ReplayRecord
    <3>1. pc' \in Places /\ UNCHANGED <<ledger, uncertain, permits, boundVars>>
      BY <1>0, <2>4 DEF ReplayRecord, PlaceTypes, Places
    <3> QED BY <1>5, <3>1
  <2>5. ASSUME NEW new, Serve(new)
        PROVE  CountTypes' /\ PlaceTypes' /\ permits' \subseteq Permit
    BY <1>5, <2>5 DEF Serve, Places
  <2> QED BY <1>16, <2>2, <2>3, <2>4, <2>5 DEF Recover
<1>17. CASE UNCHANGED vars
  BY <1>0, <1>5, <1>17 DEF vars, PlaceTypes, boundVars
<1> QED
  BY <1>2, <1>11, <1>12, <1>13, <1>14, <1>15, <1>16, <1>17 DEF Next

\* Detached work is named by attempts.
LEMMA DetachedStep ==
    ASSUME TypeOK, CoreInv, [Next]_vars
    PROVE  detached' \subseteq Indices
<1>0. detached \subseteq Indices
  BY DEF TypeOK
<1>1. CASE detached' \subseteq detached
  BY <1>0, <1>1
<1>2. ASSUME NEW accepted, NEW ok, StartDetached(accepted, ok) PROVE detached' \subseteq Indices
  <2>1. pc = "dispatch" /\ detached' \subseteq detached \cup {call.attempt}
    BY <1>2 DEF StartDetached
  <2>2. call.attempt \in Indices
    BY <2>1, BoundAssumption DEF CoreInv, InCall, Attempts, LogOK, Indices, TypeOK
  <2> QED BY <1>0, <2>1, <2>2
<1>3. CASE Lifecycle \/ Authority \/ Admit \/ UNCHANGED vars
  BY <1>1, <1>3 DEF Lifecycle, CommitSemantic, SupersedeCapsule, RevokeGeneration, Commit,
     Authority, RegisterExecutionSession, AdmitPeer, RegisterSession, WithdrawPeer, InstallPolicy,
     EndSession, ChangePermissions, Prepare, Admit, AttemptEffect, ReplayOutcome, RefusePermit, vars
<1>4. CASE FinishCall
  BY <1>1, <1>2, <1>4 DEF FinishCall, Dispatch, ExecuteSynchronous, SettleSynchronous
<1>5. CASE Adapter \/ Report \/ Reconcile
  BY <1>1, <1>5 DEF Adapter, JobApplies, JobDies, Report, SettleDetached, Reconcile, ReconcileEffect
<1>6. CASE Crash \/ Recover
  BY <1>1, <1>6 DEF Crash, Recover, DropUncertain, LoseRuntime, ReplayRecord, Serve
<1> QED BY <1>3, <1>4, <1>5, <1>6 DEF Next

\* The type invariant follows from its parts.
LEMMA TypeParts ==
    CoreInv /\ CountTypes /\ PlaceTypes /\ AuthorityTypes /\ permits \subseteq Permit
       /\ detached \subseteq Indices => TypeOK
<1> SUFFICES ASSUME CoreInv, CountTypes, PlaceTypes, AuthorityTypes, permits \subseteq Permit,
                    detached \subseteq Indices
             PROVE  TypeOK
  OBVIOUS
<1>1. /\ ledger \in Seq(Record) /\ Len(ledger) \in Nat /\ Len(ledger) <= MaxRecords
      /\ applied \in 0..Len(ledger) /\ DOMAIN ledger = 1..Len(ledger)
      /\ 1..Len(ledger) \subseteq Indices
  BY BoundAssumption DEF CoreInv, LogOK, Synced, CountTypes, Indices
<1>2. world \subseteq Indices /\ jobs \subseteq Indices /\ reports \subseteq Indices
  BY <1>1 DEF CoreInv, Outside, Attempts
<1>3. DOMAIN mem.unsettled \subseteq Indices
  BY <1>1 DEF CoreInv, Projects, OpenProjected, OpenIn
<1>4. /\ DOMAIN mem.settled \subseteq Key /\ mem.revision \in Nat /\ mem.live \in Nat
      /\ mem.revoked \subseteq Nat
  BY DEF CoreInv, Projects, KeysProjected, RevisionProjected, LiveProjected, RevokedProjected
<1>5. CountTypes /\ AuthorityTypes
  OBVIOUS
<1>6. uncertain \in BOOLEAN /\ pc \in {"idle", "dispatch", "settle", "down", "refused"}
  BY DEF PlaceTypes, Places
<1> QED
  BY <1>1, <1>2, <1>3, <1>4, <1>5, <1>6 DEF TypeOK, CountTypes, AuthorityTypes

\* In the next state too.
LEMMA TypePartsNext ==
    (CoreInv /\ CountTypes /\ PlaceTypes /\ AuthorityTypes /\ permits \subseteq Permit
       /\ detached \subseteq Indices)' => TypeOK'
  BY TypeParts, PTL

\* Every step keeps the type invariant.
LEMMA TypeStep ==
    ASSUME TypeOK, CoreInv, [Next]_vars
    PROVE  TypeOK'
  BY CoreStep, BoundStep, DetachedStep, AuthorityTypesStep, TypePartsNext

-----------------------------------------------------------------------------
(* Authority: a dispatch is within the policy in force *)

\* A step that leaves sessions, policy and the dispatch alone.
LEMMA AuthorityKept ==
    ASSUME AuthorityInv, UNCHANGED <<sessions, policy>>,
           pc' # "down" \/ pc = "down",
           pc' = "dispatch" => pc = "dispatch" /\ UNCHANGED call
    PROVE  AuthorityInv'
  BY DEF AuthorityInv, SessionsFollow, DispatchIsWithinPolicy

\* Every step keeps sessions and dispatches within the policy.
LEMMA AuthorityStep ==
    ASSUME TypeOK, AuthorityInv, [Next]_vars
    PROVE  AuthorityInv'
<1>0. /\ AuthorityTypes /\ DOMAIN sessions = 1..Len(sessions) /\ Len(sessions) \in Nat
      /\ \A id \in DOMAIN sessions : sessions[id] \in SessionRecord
  BY LenProperties DEF TypeOK, AuthorityTypes
<1>1. ASSUME NEW q, NEW grants, NEW peer, RegisterSession(q, grants, peer),
             peer # NoPeer => q = policy[peer].principal /\ grants = policy[peer].grants
      PROVE  AuthorityInv'
  <2> DEFINE s == [principal |-> q, grants |-> grants, peer |-> peer, live |-> TRUE]
  <2>1. s.principal = q /\ s.grants = grants /\ s.peer = peer
    OBVIOUS
  <2>2. /\ sessions' = Append(sessions, s) /\ UNCHANGED policy /\ pc = "idle" /\ pc' = "idle"
    BY <1>1 DEF RegisterSession
  <2> HIDE DEF s
  <2>3. ASSUME NEW id \in DOMAIN sessions'
        PROVE  \/ id \in DOMAIN sessions /\ sessions'[id] = sessions[id]
               \/ sessions'[id] = s
    BY <1>0, <2>2, AppendProperties DEF AuthorityTypes
  <2>4. SessionsFollow'
    BY <1>1, <2>1, <2>2, <2>3 DEF SessionsFollow, AuthorityInv
  <2> QED BY <2>2, <2>4 DEF AuthorityInv, DispatchIsWithinPolicy
<1>2. ASSUME NEW q \in Principal, RegisterExecutionSession(q) PROVE AuthorityInv'
  BY <1>1, <1>2 DEF RegisterExecutionSession
<1>3. ASSUME NEW peer \in Peer, AdmitPeer(peer) PROVE AuthorityInv'
  BY <1>1, <1>3 DEF AdmitPeer
<1>4. ASSUME NEW peer \in Peer, WithdrawPeer(peer) PROVE AuthorityInv'
  <2>1. /\ policy' = [policy EXCEPT ![peer].admitted = FALSE] /\ UNCHANGED sessions
        /\ pc = "idle" /\ pc' = "idle"
    BY <1>4 DEF WithdrawPeer
  <2>2. ASSUME NEW other \in Peer
        PROVE  /\ policy'[other].admitted => policy[other].admitted
               /\ policy'[other].principal = policy[other].principal
               /\ policy'[other].grants = policy[other].grants
    BY <1>0, <2>1 DEF AuthorityTypes, AdmissionPolicy
  <2>3. \A id \in DOMAIN sessions : sessions[id].peer # NoPeer => sessions[id].peer \in Peer
    BY <1>0 DEF SessionRecord
  <2>4. SessionsFollow'
    BY <2>1, <2>2, <2>3 DEF SessionsFollow, AuthorityInv
  <2> QED BY <2>1, <2>4 DEF AuthorityInv, DispatchIsWithinPolicy
<1>5. ASSUME NEW new \in Policies, InstallPolicy(new) PROVE AuthorityInv'
  <2>1. /\ policy' = new /\ pc = "idle" /\ pc' = "idle"
        /\ sessions' = [id \in DOMAIN sessions |->
              IF sessions[id].peer # NoPeer /\ new[sessions[id].peer].admitted
              THEN [sessions[id] EXCEPT !.principal = new[sessions[id].peer].principal,
                                        !.grants = new[sessions[id].peer].grants]
              ELSE sessions[id]]
    BY <1>5 DEF InstallPolicy
  <2>2. ASSUME NEW id \in DOMAIN sessions'
        PROVE  sessions'[id].peer # NoPeer /\ new[sessions'[id].peer].admitted =>
                 /\ sessions'[id].principal = new[sessions'[id].peer].principal
                 /\ sessions'[id].grants = new[sessions'[id].peer].grants
    <3>1. id \in DOMAIN sessions /\ sessions[id] \in SessionRecord
      BY <1>0, <2>1
    <3>2. CASE sessions[id].peer # NoPeer /\ new[sessions[id].peer].admitted
      <4>1. sessions'[id] = [sessions[id] EXCEPT !.principal = new[sessions[id].peer].principal,
                                                 !.grants = new[sessions[id].peer].grants]
        BY <2>1, <3>1, <3>2
      <4>2. /\ sessions'[id].peer = sessions[id].peer
            /\ sessions'[id].principal = new[sessions[id].peer].principal
            /\ sessions'[id].grants = new[sessions[id].peer].grants
        BY <3>1, <4>1 DEF SessionRecord
      <4> QED BY <4>2
    <3>3. CASE ~(sessions[id].peer # NoPeer /\ new[sessions[id].peer].admitted)
      BY <2>1, <3>1, <3>3
    <3> QED BY <3>2, <3>3
  <2>3. policy' = new /\ pc' = "idle"
    BY <2>1
  <2>4. SessionsFollow'
    BY <2>2, <2>3 DEF SessionsFollow
  <2> QED BY <2>3, <2>4 DEF AuthorityInv, DispatchIsWithinPolicy
<1>6. ASSUME NEW id \in 1..MaxSessions, EndSession(id) PROVE AuthorityInv'
  <2>1. /\ sessions' = [sessions EXCEPT ![id].live = FALSE] /\ id \in DOMAIN sessions
        /\ UNCHANGED policy /\ pc = "idle" /\ pc' = "idle"
    BY <1>6 DEF EndSession
  <2>2. ASSUME NEW x \in DOMAIN sessions'
        PROVE  /\ x \in DOMAIN sessions /\ sessions'[x].peer = sessions[x].peer
               /\ sessions'[x].principal = sessions[x].principal
               /\ sessions'[x].grants = sessions[x].grants
    <3>1. x \in DOMAIN sessions /\ sessions[x] \in SessionRecord
      BY <1>0, <2>1
    <3>2. sessions'[x] = sessions[x] \/ sessions'[x] = [sessions[x] EXCEPT !.live = FALSE]
      BY <1>0, <2>1, <3>1
    <3> QED BY <3>1, <3>2 DEF SessionRecord
  <2> QED BY <2>1, <2>2 DEF AuthorityInv, SessionsFollow, DispatchIsWithinPolicy
<1>7. ASSUME NEW p \in permits, AttemptEffect(p) PROVE AuthorityInv'
  <2>1. /\ pc = "idle" /\ Admissible(p) /\ UNCHANGED <<sessions, policy>>
        /\ \/ Dispatching(p)
           \/ UNCHANGED <<pc, call>>
    BY <1>7 DEF AttemptEffect, authorityVars
  <2>2. CASE Dispatching(p)
    <3>1. /\ pc' = "dispatch" /\ call'.principal = sessions[p.session].principal
          /\ call'.action = p.action /\ call'.peer = sessions[p.session].peer
      BY <2>2 DEF Dispatching
    <3>2. /\ p.session \in DOMAIN sessions /\ p.action \in sessions[p.session].grants
          /\ sessions[p.session].peer # NoPeer => policy[sessions[p.session].peer].admitted
      BY <2>1 DEF Admissible, SessionValid
    <3>3. DispatchIsWithinPolicy'
      BY <2>1, <3>1, <3>2 DEF DispatchIsWithinPolicy, AuthorityInv, SessionsFollow
    <3> QED BY <2>1, <3>1, <3>3 DEF AuthorityInv, SessionsFollow
  <2>3. CASE UNCHANGED <<pc, call>>
    BY <2>1, <2>3, AuthorityKept
  <2> QED BY <2>1, <2>2, <2>3
<1>8. CASE LoseRuntime
  BY <1>8 DEF LoseRuntime, AuthorityInv, SessionsFollow, DispatchIsWithinPolicy
<1>9. ASSUME NEW new, Serve(new) PROVE AuthorityInv'
  BY <1>9 DEF Serve, AuthorityInv, SessionsFollow, DispatchIsWithinPolicy
<1>10. CASE Lifecycle
  BY <1>10, AuthorityKept DEF Lifecycle, CommitSemantic, SupersedeCapsule, RevokeGeneration,
     Commit, authorityVars
<1>11. CASE Authority
  <2>1. ASSUME NEW set, ChangePermissions(set) PROVE AuthorityInv'
    BY <2>1, AuthorityKept DEF ChangePermissions
  <2>2. ASSUME NEW id, NEW a, NEW r, NEW g, NEW k, Prepare(id, a, r, g, k) PROVE AuthorityInv'
    BY <2>2, AuthorityKept DEF Prepare, authorityVars
  <2> QED BY <1>2, <1>3, <1>4, <1>5, <1>6, <1>11, <2>1, <2>2 DEF Authority
<1>12. CASE Admit
  <2>1. ASSUME NEW p \in permits, ReplayOutcome(p) \/ RefusePermit(p) PROVE AuthorityInv'
    BY <2>1, AuthorityKept DEF ReplayOutcome, RefusePermit, authorityVars
  <2> QED BY <1>7, <1>12, <2>1 DEF Admit
<1>13. CASE FinishCall
  BY <1>13, AuthorityKept DEF FinishCall, Dispatch, ExecuteSynchronous, StartDetached,
     SettleSynchronous, authorityVars
<1>14. CASE Adapter \/ Report \/ Reconcile
  BY <1>14, AuthorityKept DEF Adapter, JobApplies, JobDies, Report, SettleDetached, Reconcile,
     ReconcileEffect, authorityVars
<1>15. CASE Crash \/ Recover
  <2>1. CASE ReplayRecord
    <3>1. UNCHANGED <<sessions, policy>> /\ pc = "down" /\ pc' # "dispatch"
      BY <2>1 DEF ReplayRecord, authorityVars
    <3> QED BY <3>1, AuthorityKept
  <2> QED BY <1>8, <1>9, <1>15, <2>1 DEF Crash, Recover, DropUncertain
<1>16. CASE UNCHANGED vars
  BY <1>16, AuthorityKept DEF vars
<1> QED BY <1>10, <1>11, <1>12, <1>13, <1>14, <1>15, <1>16 DEF Next

-----------------------------------------------------------------------------
(* Answers *)

\* The durable log only grows, by one record at a time.
LEMMA LogGrows ==
    ASSUME [Next]_vars
    PROVE  ledger' = ledger \/ \E rec : ledger' = Append(ledger, rec)
<1> DEFINE Keeps == ledger' = ledger \/ \E rec : ledger' = Append(ledger, rec)
<1>0. ASSUME NEW rec, NEW ps, AppendChecked(rec, ps) \/ AppendFails(rec, ps) PROVE Keeps
  BY <1>0 DEF AppendChecked, AppendFails
<1>1. UNCHANGED ledger => Keeps
  OBVIOUS
<1> SUFFICES Keeps
  OBVIOUS
<1> HIDE DEF Keeps
<1>2. CASE Lifecycle
  BY <1>0, <1>2 DEF Lifecycle, CommitSemantic, SupersedeCapsule, RevokeGeneration, Commit
<1>3. CASE Authority
  BY <1>1, <1>3 DEF Authority, RegisterExecutionSession, AdmitPeer, RegisterSession, WithdrawPeer,
     InstallPolicy, EndSession, ChangePermissions, Prepare
<1>4. CASE Admit
  BY <1>0, <1>1, <1>4 DEF Admit, AttemptEffect, ReplayOutcome, RefusePermit
<1>5. CASE FinishCall
  BY <1>0, <1>1, <1>5 DEF FinishCall, Dispatch, ExecuteSynchronous, StartDetached, SettleSynchronous
<1>6. CASE Adapter \/ Report \/ Reconcile
  BY <1>0, <1>1, <1>6 DEF Adapter, JobApplies, JobDies, Report, SettleDetached, Reconcile,
     ReconcileEffect
<1>7. CASE Crash \/ Recover
  BY <1>1, <1>7 DEF Crash, Recover, DropUncertain, LoseRuntime, ReplayRecord, Serve
<1>8. CASE UNCHANGED vars
  BY <1>1, <1>8 DEF vars
<1> QED BY <1>2, <1>3, <1>4, <1>5, <1>6, <1>7, <1>8 DEF Next

\* No effect is undone.
LEMMA WorldOnlyGrows ==
    ASSUME [Next]_vars
    PROVE  world \subseteq world'
<1>1. CASE UNCHANGED world
  BY <1>1
<1>2. CASE Lifecycle \/ Authority \/ Admit \/ UNCHANGED vars
  BY <1>1, <1>2 DEF Lifecycle, CommitSemantic, SupersedeCapsule, RevokeGeneration, Commit,
     Authority, RegisterExecutionSession, AdmitPeer, RegisterSession, WithdrawPeer, InstallPolicy,
     EndSession, ChangePermissions, Prepare, Admit, AttemptEffect, ReplayOutcome, RefusePermit,
     vars, worldVars
<1>3. CASE FinishCall
  BY <1>1, <1>3 DEF FinishCall, Dispatch, ExecuteSynchronous, StartDetached, SettleSynchronous,
     worldVars
<1>4. CASE Adapter \/ Report \/ Reconcile
  BY <1>1, <1>4 DEF Adapter, JobApplies, JobDies, Report, SettleDetached, Reconcile,
     ReconcileEffect, worldVars
<1>5. CASE Crash \/ Recover
  BY <1>1, <1>5 DEF Crash, Recover, DropUncertain, LoseRuntime, ReplayRecord, Serve, worldVars
<1> QED BY <1>2, <1>3, <1>4, <1>5 DEF Next

\* Records keep their place.
LEMMA RecordsStay ==
    ASSUME CoreInv, [Next]_vars
    PROVE  /\ \A i \in 1..Len(ledger) : ledger'[i] = ledger[i]
           /\ \A i \in world : i \in 1..Len(ledger) /\ i \in world'
<1>1. ledger \in Seq(Record) /\ Len(ledger) \in Nat
  BY DEF CoreInv, LogOK
<1>2. \A i \in 1..Len(ledger) : ledger'[i] = ledger[i]
  BY <1>1, LogGrows, Extended
<1>3. \A i \in world : i \in 1..Len(ledger)
  BY <1>1 DEF CoreInv, Outside, Attempts
<1> QED BY <1>2, <1>3, WorldOnlyGrows

OwnAnswer(a, w, l) ==
    /\ a.response \in w /\ l[a.response].key = a.key
    /\ l[a.response].identity.principal = a.principal
    /\ l[a.response].identity.digest[1] = a.action

\* What a runtime answers from history is the outcome of an attempt by the same principal
\* for the same action under the same key.
LEMMA ReplayedIsOwn ==
    ASSUME TypeOK, CoreInv, NEW p \in permits, ReplayOutcome(p)
    PROVE  LET a == [key |-> p.key, principal |-> sessions[p.session].principal,
                     action |-> p.action, response |-> mem.settled[p.key].response]
           IN  OwnAnswer(a, world, ledger)
<1>1. /\ pc = "idle" /\ Admissible(p) /\ Admission(p) = "Replayed"
  BY DEF ReplayOutcome
<1>2. /\ p.key \in DOMAIN mem.settled
      /\ IsRetry(mem.settled[p.key].identity, sessions[p.session].principal, p.action)
      /\ mem.settled[p.key].outcome = "Applied"
  BY <1>1 DEF Admission
<1>3. ~IsFenced
  BY <1>1 DEF Admissible, SessionValid
<1>4. LogOK(ledger) /\ Projects(mem, ledger, Len(ledger)) /\ Len(ledger) \in Nat
  BY <1>1, <1>3, Unfenced DEF LogOK
<1>5. PICK j \in 2..Len(ledger) :
         LastIn(ledger, Len(ledger), p.key, j) /\ mem.settled[p.key] = BoundAt(ledger, j)
  BY <1>2, <1>4 DEF Projects, KeysProjected
<1>6. IsClosing(ledger[j]) /\ ledger[j - 1].key = p.key /\ j \in 1..Len(ledger)
  BY <1>4, <1>5 DEF LastIn, ClosingsIn
<1>7. ledger[j].kind = "EffectSettled" /\ ledger[j].response # 0
  BY <1>2, <1>5, <1>6 DEF BoundAt, OutcomeOf, ReconcileOutcome, IsClosing
<1>8. mem.settled[p.key].response = j - 1 /\ mem.settled[p.key].identity = ledger[j - 1].identity
  BY <1>4, <1>5, <1>6, <1>7 DEF BoundAt, ResponseOf, LogOK, Follows
<1>9. j - 1 \in world
  BY <1>6, <1>7 DEF CoreInv, Truthful, SaysNotApplied
<1>10. /\ ledger[j - 1].identity.principal = sessions[p.session].principal
       /\ ledger[j - 1].identity.digest[1] = p.action
  BY <1>2, <1>8 DEF IsRetry, DigestAt
<1> QED BY <1>6, <1>8, <1>9, <1>10 DEF OwnAnswer

\* Every step keeps answers own.
LEMMA AnswersStep ==
    ASSUME TypeOK, CoreInv, AnswersAreOwn, [Next]_vars
    PROVE  AnswersAreOwn'
<1>0. AnswersAreOwn <=> \A a \in answers : OwnAnswer(a, world, ledger)
  BY DEF AnswersAreOwn, OwnAnswer
<1>1. AnswersAreOwn' <=> \A a \in answers' : OwnAnswer(a, world', ledger')
  BY DEF AnswersAreOwn, OwnAnswer
<1>2. ASSUME NEW a, OwnAnswer(a, world, ledger) PROVE OwnAnswer(a, world', ledger')
  BY <1>2, RecordsStay DEF OwnAnswer
<1>3. CASE answers' = answers
  BY <1>0, <1>1, <1>2, <1>3
<1>4. ASSUME NEW p \in permits, ReplayOutcome(p) PROVE AnswersAreOwn'
  <2> DEFINE b == [key |-> p.key, principal |-> sessions[p.session].principal,
                   action |-> p.action, response |-> mem.settled[p.key].response]
  <2>1. answers' = answers \/ answers' = answers \cup {b}
    BY <1>4 DEF ReplayOutcome, Answered
  <2>2. OwnAnswer(b, world, ledger)
    BY <1>4, ReplayedIsOwn
  <2> HIDE DEF b
  <2> QED BY <1>0, <1>1, <1>2, <2>1, <2>2
<1>5. ASSUME NEW retain \in BOOLEAN, SettleSynchronous(retain) PROVE AnswersAreOwn'
  <2> DEFINE b == [key |-> call.key, principal |-> call.principal, action |-> call.action,
                   response |-> call.attempt]
  <2>1. pc = "settle" /\ (answers' = answers \/ answers' = answers \cup {b})
    BY <1>5 DEF SettleSynchronous, Answered
  <2>2. OwnAnswer(b, world, ledger)
    BY <2>1 DEF CoreInv, InCall, OwnAnswer
  <2> HIDE DEF b
  <2> QED BY <1>0, <1>1, <1>2, <2>1, <2>2
<1>6. CASE Lifecycle \/ Authority
  BY <1>3, <1>6 DEF Lifecycle, CommitSemantic, SupersedeCapsule, RevokeGeneration, Commit,
     Authority, RegisterExecutionSession, AdmitPeer, RegisterSession, WithdrawPeer, InstallPolicy,
     EndSession, ChangePermissions, Prepare
<1>7. CASE Admit
  BY <1>3, <1>4, <1>7 DEF Admit, AttemptEffect, RefusePermit
<1>8. CASE FinishCall
  BY <1>3, <1>5, <1>8 DEF FinishCall, Dispatch, ExecuteSynchronous, StartDetached
<1>9. CASE Adapter \/ Report \/ Reconcile
  BY <1>3, <1>9 DEF Adapter, JobApplies, JobDies, Report, SettleDetached, Reconcile, ReconcileEffect
<1>10. CASE Crash \/ Recover \/ UNCHANGED vars
  BY <1>3, <1>10 DEF Crash, Recover, DropUncertain, LoseRuntime, ReplayRecord, Serve, vars
<1> QED BY <1>6, <1>7, <1>8, <1>9, <1>10 DEF Next

-----------------------------------------------------------------------------
(* The invariant of the specification *)

AuditInv == TypeOK /\ CoreInv /\ AuthorityInv /\ AnswersAreOwn

\* It holds of a runtime opened on an empty log.
LEMMA AuditInit == Init => AuditInv
<1> SUFFICES ASSUME Init PROVE AuditInv
  OBVIOUS
<1> USE DEF Init
<1>1. /\ ledger = <<>> /\ ledger \in Seq(Record) /\ Len(ledger) = 0 /\ DOMAIN ledger = {}
      /\ Attempts = {}
  BY DEF Attempts
<1>2. LogOK(ledger) /\ Projects(mem, ledger, applied)
  BY <1>1, FreshProjects DEF LogOK
<1>3. Synced /\ RestartIsAccepted /\ InCall /\ Outside /\ Truthful
  BY <1>1 DEF Synced, RestartIsAccepted, InCall, Outside, Truthful
<1>4. CoreInv
  BY <1>2, <1>3 DEF CoreInv
<1>5. CountTypes /\ PlaceTypes
  <2>1. CountTypes
    BY <1>1, BoundAssumption DEF CountTypes
  <2>2. PlaceTypes
    BY DEF PlaceTypes, Places
  <2> QED BY <2>1, <2>2
<1>6. sessions = <<>> /\ sessions \in Seq(SessionRecord) /\ Len(sessions) = 0 /\ DOMAIN sessions = {}
  OBVIOUS
<1>7. AuthorityTypes /\ AuthorityInv
  BY <1>6, BoundAssumption, PolicyAssumption
     DEF AuthorityTypes, AuthorityInv, SessionsFollow, DispatchIsWithinPolicy
<1>8. TypeOK
  BY <1>4, <1>5, <1>7, TypeParts
<1> QED BY <1>4, <1>7, <1>8 DEF AuditInv, AnswersAreOwn

\* Every step keeps it.
LEMMA AuditStep == AuditInv /\ [Next]_vars => AuditInv'
<1> SUFFICES ASSUME TypeOK, CoreInv, AuthorityInv, AnswersAreOwn, [Next]_vars PROVE AuditInv'
  BY DEF AuditInv
<1>1. TypeOK'
  BY TypeStep
<1>2. CoreInv'
  BY CoreStep
<1>3. AuthorityInv'
  BY AuthorityStep
<1>4. AnswersAreOwn'
  BY AnswersStep
<1> QED BY <1>1, <1>2, <1>3, <1>4 DEF AuditInv

\* The invariant holds in every behaviour of the audit.
THEOREM AuditInvariant == Spec => []AuditInv
  BY AuditInit, AuditStep, PTL DEF Spec

\* Every reachable state of the runtime, its callers and the outside world is of the
\* declared type.
THEOREM AuditTypeCorrect == Spec => []TypeOK
<1>1. AuditInv => TypeOK
  BY DEF AuditInv
<1> QED BY <1>1, AuditInvariant, PTL

\* A log this runtime wrote, with any appends failed and any runtimes lost, is accepted
\* record by record when it is opened again (from_durable_ledger).
THEOREM RestartsAreAccepted == Spec => []RestartIsAccepted
<1>1. AuditInv => RestartIsAccepted
  BY DEF AuditInv, CoreInv
<1> QED BY <1>1, AuditInvariant, PTL

\* No effect is applied and no work handed out without a durable attempt (admit_effect).
THEOREM EffectsAreLoggedFirst == Spec => []EffectsAreAudited
<1>1. AuditInv => EffectsAreAudited
  BY DEF AuditInv, CoreInv, Outside, Attempts, EffectsAreAudited
<1> QED BY <1>1, AuditInvariant, PTL

\* Two effects under one key are the same: the later attempt's record follows a
\* reconciliation of the earlier one as not applied, and reconciliations are truthful.
LEMMA OncePerKey ==
    ASSUME CoreInv, NEW i \in world, NEW j \in world, i < j,
           ledger[i].key # NoKey, ledger[i].key = ledger[j].key
    PROVE  FALSE
<1>1. /\ Len(ledger) \in Nat /\ DOMAIN ledger = 1..Len(ledger)
      /\ i \in 1..Len(ledger) /\ j \in 1..Len(ledger)
      /\ IsAttempt(ledger[i]) /\ IsAttempt(ledger[j])
  BY DEF CoreInv, LogOK, Outside, Attempts
<1>2. i \in 1..(j - 1) /\ i + 1 \in 1..Len(ledger) /\ (i + 1) - 1 = i
  BY <1>1
<1>3. Follows(ledger, j)
  BY <1>1 DEF CoreInv, LogOK
<1>4. SaysNotApplied(ledger[i + 1])
  BY <1>1, <1>2, <1>3 DEF Follows
<1>5. IsClosing(ledger[i + 1])
  BY <1>4 DEF SaysNotApplied, IsClosing
<1>6. i \notin world
  BY <1>2, <1>4, <1>5 DEF CoreInv, Truthful
<1> QED BY <1>6

\* An effect under an at-most-once key is applied at most once (prepare_execution_once),
\* for every bound on records, failures, retries and sessions.
THEOREM EffectsApplyOnce == Spec => []AtMostOnce
<1>1. AuditInv => AtMostOnce
  <2> SUFFICES ASSUME CoreInv, NEW i \in world, NEW j \in world,
                      ledger[i].key # NoKey, ledger[i].key = ledger[j].key
               PROVE  i = j
    BY DEF AuditInv, AtMostOnce
  <2>1. i \in Nat /\ j \in Nat
    BY DEF CoreInv, LogOK, Outside, Attempts
  <2>2. ~(i < j) /\ ~(j < i)
    BY OncePerKey
  <2> QED BY <2>1, <2>2
<1> QED BY <1>1, AuditInvariant, PTL

\* A response is given only to the principal, key and action it belongs to, and only of an
\* effect that was applied (KeyBoundToAnotherAction).
THEOREM AnswersBelong == Spec => []AnswersAreOwn
<1>1. AuditInv => AnswersAreOwn
  BY DEF AuditInv
<1> QED BY <1>1, AuditInvariant, PTL

\* What is dispatched for a peer is what the policy in force admits, after any withdrawal
\* or replacement of the table (install_admission_policy, withdraw_peer).
THEOREM DispatchFollowsPolicy == Spec => []DispatchIsWithinPolicy
<1>1. AuditInv => DispatchIsWithinPolicy
  BY DEF AuditInv, AuthorityInv
<1> QED BY <1>1, AuditInvariant, PTL

\* Every attempt in the log was current where it stands (check_execution_action).
THEOREM AttemptsWereCurrent == Spec => []AttemptsAreCurrent
<1>1. AuditInv => AttemptsAreCurrent
  <2> SUFFICES ASSUME CoreInv, NEW i \in DOMAIN ledger, IsAttempt(ledger[i])
               PROVE  CurrentAt(ledger, i)
    BY DEF AuditInv, AttemptsAreCurrent
  <2>1. i \in 1..Len(ledger)
    BY DEF CoreInv, LogOK
  <2> QED BY <2>1 DEF CoreInv, LogOK, Follows
<1> QED BY <1>1, AuditInvariant, PTL

-----------------------------------------------------------------------------
(* Memory is the projection of the records it has applied *)

\* A prefix of a log is a log.
LEMMA PrefixOK ==
    ASSUME NEW l, LogOK(l), NEW n \in 0..Len(l)
    PROVE  /\ LogOK(SubSeq(l, 1, n)) /\ Len(SubSeq(l, 1, n)) = n
           /\ \A m : Projects(m, l, n) => Projects(m, SubSeq(l, 1, n), n)
<1> DEFINE p == SubSeq(l, 1, n)
<1>1. /\ Len(l) \in Nat /\ n \in Nat /\ p \in Seq(Record) /\ Len(p) = n
      /\ \A i \in 1..n : p[i] = l[i]
  BY SubSeqProperties DEF LogOK
<1> HIDE DEF p
<1>2. ASSUME NEW i \in 1..n PROVE Follows(p, i)
  <2>1. i \in Nat \ {0} /\ i \in 1..Len(l) /\ \A x \in 1..i : p[x] = l[x]
    BY <1>1
  <2>2. Follows(l, i)
    BY <2>1 DEF LogOK
  <2> QED BY <2>1, <2>2, FollowsPrefix
<1>3. LogOK(p)
  BY <1>1, <1>2 DEF LogOK
<1>4. ASSUME NEW m, Projects(m, l, n) PROVE Projects(m, p, n)
  BY <1>1, <1>4, ProjectsPrefix
<1> QED BY <1>1, <1>3, <1>4 DEF p

\* In a log, what is open is its last record if that is an attempt, and a closing record
\* closes the one before it.
LEMMA Pairing ==
    ASSUME NEW l, LogOK(l)
    PROVE  /\ OpenAttempts(l) = OpenIn(l, Len(l))
           /\ \A k : Closings(l, k) = ClosingsIn(l, Len(l), k)
<1>1. /\ Len(l) \in Nat /\ DOMAIN l = 1..Len(l)
      /\ \A n \in 1..Len(l) : Follows(l, n)
  BY DEF LogOK
<1>2. ASSUME NEW i \in 1..Len(l), NEW j \in 1..Len(l), Closes(l[j], i)
      PROVE  j = i + 1 /\ IsClosing(l[j]) /\ i = j - 1 /\ j \in 2..Len(l)
  BY <1>1, <1>2 DEF Closes, IsClosing, Follows
<1>3. ASSUME NEW j \in 2..Len(l), IsClosing(l[j])
      PROVE  j - 1 \in 1..Len(l) /\ IsAttempt(l[j - 1]) /\ Closes(l[j], j - 1)
  BY <1>1, <1>3 DEF Closes, IsClosing, Follows
<1>4. ASSUME NEW i \in 1..Len(l), IsAttempt(l[i]), i # Len(l)
      PROVE  i + 1 \in 1..Len(l) /\ Closes(l[i + 1], i)
  <2> DEFINE n == Len(l)
  <2>a. n \in Nat /\ i \in 1..n /\ i # n
    BY <1>1, <1>4
  <2> HIDE DEF n
  <2>b. i + 1 \in 1..n /\ (i + 1) - 1 = i /\ i + 1 > 1
    BY <2>a
  <2>1. i + 1 \in 1..Len(l) /\ (i + 1) - 1 = i /\ i + 1 > 1
    BY <2>b DEF n
  <2>2. Follows(l, i + 1)
    BY <1>1, <2>1
  <2>3. IsClosing(l[i + 1]) /\ l[i + 1].attempt = i
    BY <1>4, <2>1, <2>2 DEF Follows
  <2> QED BY <2>1, <2>3 DEF Closes, IsClosing
<1>5. OpenAttempts(l) = OpenIn(l, Len(l))
  <2>1. ASSUME NEW i \in OpenAttempts(l) PROVE i \in OpenIn(l, Len(l))
    BY <1>1, <1>4 DEF OpenAttempts, OpenIn
  <2>2. ASSUME NEW i \in OpenIn(l, Len(l)) PROVE i \in OpenAttempts(l)
    BY <1>1, <1>2 DEF OpenAttempts, OpenIn
  <2> QED BY <2>1, <2>2
<1>6. ASSUME NEW k PROVE Closings(l, k) = ClosingsIn(l, Len(l), k)
  <2>1. ASSUME NEW j \in Closings(l, k) PROVE j \in ClosingsIn(l, Len(l), k)
    BY <1>1, <1>2 DEF Closings, ClosingsIn
  <2>2. ASSUME NEW j \in ClosingsIn(l, Len(l), k) PROVE j \in Closings(l, k)
    BY <1>1, <1>3 DEF Closings, ClosingsIn
  <2> QED BY <2>1, <2>2
<1> QED BY <1>5, <1>6

\* The last closing record of a key, when there is one.
LEMMA LastIsLast ==
    ASSUME NEW l, LogOK(l), NEW k
    PROVE  /\ ClosingsIn(l, Len(l), k) = {} => LastClosing(l, k) = 0
           /\ \A j : LastIn(l, Len(l), k, j) => LastClosing(l, k) = j
<1> DEFINE C == ClosingsIn(l, Len(l), k)
<1>1. Closings(l, k) = C /\ \A j \in C : j \in Nat
  BY Pairing DEF ClosingsIn
<1> HIDE DEF C
<1>2. LastClosing(l, k) = IF C = {} THEN 0 ELSE CHOOSE j \in C : \A x \in C : x <= j
  BY <1>1 DEF LastClosing
<1>3. ASSUME NEW j \in C, \A x \in C : x <= j PROVE LastClosing(l, k) = j
  <2> DEFINE c == CHOOSE y \in C : \A x \in C : x <= y
  <2>1. c \in C /\ \A x \in C : x <= c
    BY <1>3
  <2>2. c <= j /\ j <= c /\ c \in Nat /\ j \in Nat
    BY <1>1, <1>3, <2>1
  <2>3. c = j
    BY <2>2
  <2> QED BY <1>2, <1>3, <2>3
<1> QED BY <1>2, <1>3 DEF LastIn, C

\* A view that projects a log holds its open attempts, and of each key what the last
\* closing record of an attempt under it says.
LEMMA ProjectionOfLog ==
    ASSUME NEW m, NEW l, LogOK(l), Projects(m, l, Len(l))
    PROVE  /\ DOMAIN m.unsettled = OpenAttempts(l)
           /\ \A k \in Key :
                LET j == LastClosing(l, k)
                IN  IF j = 0 THEN k \notin DOMAIN m.settled
                    ELSE /\ k \in DOMAIN m.settled
                         /\ m.settled[k].attempt = l[j].attempt
                         /\ m.settled[k].identity = l[l[j].attempt].identity
                         /\ m.settled[k].outcome =
                              IF l[j].kind = "EffectReconciled"
                              THEN IF l[j].applied THEN "AppliedWithoutResponse" ELSE "NotApplied"
                              ELSE IF l[j].response = 0 THEN "AppliedWithoutResponse" ELSE "Applied"
<1>1. DOMAIN m.unsettled = OpenAttempts(l)
  BY Pairing DEF Projects, OpenProjected
<1>2. ASSUME NEW k \in Key, k \notin DOMAIN m.settled PROVE LastClosing(l, k) = 0
  BY <1>2, LastIsLast DEF Projects, KeysProjected
<1>3. ASSUME NEW k \in Key, k \in DOMAIN m.settled, NEW j, j = LastClosing(l, k)
      PROVE  /\ j # 0
             /\ m.settled[k].attempt = l[j].attempt
             /\ m.settled[k].identity = l[l[j].attempt].identity
             /\ m.settled[k].outcome =
                   IF l[j].kind = "EffectReconciled"
                   THEN IF l[j].applied THEN "AppliedWithoutResponse" ELSE "NotApplied"
                   ELSE IF l[j].response = 0 THEN "AppliedWithoutResponse" ELSE "Applied"
  <2>1. PICK x \in 2..Len(l) : LastIn(l, Len(l), k, x) /\ m.settled[k] = BoundAt(l, x)
    BY <1>3 DEF Projects, KeysProjected
  <2>a. j = x
    BY <1>3, <2>1, LastIsLast
  <2>b. x # 0 /\ x \in 1..Len(l) /\ IsClosing(l[x])
    BY <2>1 DEF LastIn, ClosingsIn
  <2>2. j = x /\ j # 0 /\ j \in 1..Len(l) /\ IsClosing(l[j])
    BY <2>a, <2>b
  <2>3. l[j].attempt = j - 1
    BY <2>2 DEF LogOK, Follows
  <2> QED BY <2>1, <2>2, <2>3 DEF BoundAt, OutcomeOf, ReconcileOutcome
<1> QED BY <1>1, <1>2, <1>3

\* What the runtime remembers is what the records it has applied say, at every point of
\* a replay and after every append (apply_committed).
THEOREM MemoryProjectsLog == Spec => []MemoryIsProjection
<1>1. AuditInv => MemoryIsProjection
  <2> SUFFICES ASSUME CoreInv PROVE MemoryIsProjection
    BY DEF AuditInv
  <2> DEFINE p == SubSeq(ledger, 1, applied)
  <2>1. LogOK(ledger) /\ applied \in 0..Len(ledger) /\ Projects(mem, ledger, applied)
    BY DEF CoreInv, Synced
  <2>2. LogOK(p) /\ Projects(mem, p, Len(p))
    BY <2>1, PrefixOK
  <2> HIDE DEF p
  <2>3. QED BY <2>2, ProjectionOfLog DEF MemoryIsProjection, p
<1> QED BY <1>1, AuditInvariant, PTL

\* Only the closing of the open attempt is appended while one is open.
LEMMA FenceStep ==
    ASSUME CoreInv, CoreInv', [Next]_vars, ledger' # ledger, NEW i \in OpenAttempts(ledger)
    PROVE  Closes(ledger'[Len(ledger')], i)
<1>1. PICK rec : ledger' = Append(ledger, rec)
  BY LogGrows
<1>2. LogOK(ledger) /\ LogOK(ledger') /\ ledger \in Seq(Record) /\ Len(ledger) \in Nat
  BY DEF CoreInv, LogOK
<1>3. Len(ledger') = Len(ledger) + 1 /\ Len(ledger') \in 1..Len(ledger')
  BY <1>1, <1>2
<1>4. i = Len(ledger) /\ i \in 1..Len(ledger) /\ IsAttempt(ledger[i])
  BY <1>2, Pairing DEF OpenIn
<1>5. Len(ledger') - 1 = i /\ IsAttempt(ledger'[i]) /\ Len(ledger') > 1
  BY <1>1, <1>2, <1>3, <1>4, Extended
<1>6. Follows(ledger', Len(ledger'))
  BY <1>2, <1>3 DEF LogOK
<1>7. IsClosing(ledger'[Len(ledger')]) /\ ledger'[Len(ledger')].attempt = i
  BY <1>5, <1>6 DEF Follows
<1> QED BY <1>7 DEF Closes, IsClosing

\* While an attempt is open nothing is appended but the record that closes it, in the
\* runtime that wrote it and in every one rebuilt from the log (is_fenced).
THEOREM FenceAlwaysHolds == Spec => FenceHolds
<1>1. AuditInv /\ AuditInv' /\ [Next]_vars =>
         [ledger' # ledger => \A i \in OpenAttempts(ledger) : Closes(ledger'[Len(ledger')], i)]_vars
  BY FenceStep DEF AuditInv
<1> QED BY <1>1, AuditInvariant, PTL DEF Spec, FenceHolds

-----------------------------------------------------------------------------
(* The execution section *)

\* The keys of a log's attempts.  Open or closed, each has or will have one settled item.
TriedKeys(l) == {l[i].key : i \in {j \in 1..Len(l) : IsAttempt(l[j])}} \ {NoKey}

\* The reservation: all keys ever tried fit the section, open attempts included.
SectionInv == IsFiniteSet(TriedKeys(ledger)) /\ Cardinality(TriedKeys(ledger)) <= SectionItems

\* What an append adds to the keys tried.
LEMMA TriedNext ==
    ASSUME NEW l \in Seq(Record), NEW rec
    PROVE  /\ ~IsAttempt(rec) => TriedKeys(Append(l, rec)) = TriedKeys(l)
           /\ IsAttempt(rec) => TriedKeys(Append(l, rec)) = TriedKeys(l) \cup ({rec.key} \ {NoKey})
<1> DEFINE l2 == Append(l, rec)
<1>1. /\ Len(l) \in Nat /\ Len(l2) = Len(l) + 1 /\ l2[Len(l) + 1] = rec
      /\ \A i \in 1..Len(l) : l2[i] = l[i]
  BY Extended
<1> HIDE DEF l2
<1>2. 1..Len(l2) = 1..Len(l) \cup {Len(l) + 1}
  BY <1>1
<1>3. \A k : k \in TriedKeys(l2) <=>
         k \in TriedKeys(l) \/ (IsAttempt(rec) /\ k = rec.key /\ k # NoKey)
  BY <1>1, <1>2 DEF TriedKeys
<1>4. IsAttempt(rec) => TriedKeys(l2) = TriedKeys(l) \cup ({rec.key} \ {NoKey})
  BY <1>3
<1>5. ~IsAttempt(rec) => TriedKeys(l2) = TriedKeys(l)
  BY <1>3
<1> QED BY <1>4, <1>5 DEF l2

\* An append of another record, or none, tries no key.
LEMMA PlainTriesNothing ==
    ASSUME CoreInv, NEW rec, NEW ps, AppendChecked(rec, ps) \/ AppendFails(rec, ps), ~IsAttempt(rec)
    PROVE  TriedKeys(ledger') = TriedKeys(ledger)
<1>1. ledger \in Seq(Record) /\ (ledger' = ledger \/ ledger' = Append(ledger, rec))
  BY DEF CoreInv, LogOK, AppendChecked, AppendFails
<1> QED BY <1>1, TriedNext

\* Only admit_effect tries a key.
LEMMA OnlyAttemptsTry ==
    ASSUME CoreInv, [Next]_vars
    PROVE  TriedKeys(ledger') = TriedKeys(ledger) \/ \E p \in permits : AttemptEffect(p)
<1> DEFINE Same == TriedKeys(ledger') = TriedKeys(ledger) \/ \E p \in permits : AttemptEffect(p)
<1>0. UNCHANGED ledger => Same
  OBVIOUS
<1>1. ASSUME NEW rec, NEW ps, AppendChecked(rec, ps) \/ AppendFails(rec, ps), ~IsAttempt(rec)
      PROVE  Same
  BY <1>1, PlainTriesNothing
<1>9. ASSUME NEW p \in permits, AttemptEffect(p) PROVE Same
  BY <1>9
<1> SUFFICES Same
  OBVIOUS
<1> HIDE DEF Same
<1>2. ASSUME NEW i, NEW b, NEW ps,
             \/ AppendChecked(SettlementRecord(i, b), ps) \/ AppendFails(SettlementRecord(i, b), ps)
             \/ AppendChecked(EffectReconciled(i, b), ps) \/ AppendFails(EffectReconciled(i, b), ps)
      PROVE  Same
  <2>1. ~IsAttempt(SettlementRecord(i, b)) /\ ~IsAttempt(EffectReconciled(i, b))
    BY DEF IsAttempt, SettlementRecord, EffectSettled, EffectReconciled
  <2> QED BY <1>1, <1>2, <2>1
<1>3. CASE Lifecycle
  <2>1. ASSUME NEW rec, Commit(rec), ~IsAttempt(rec) PROVE Same
    BY <1>1, <2>1 DEF Commit
  <2>2. /\ ~IsAttempt(SemanticDelta)
        /\ \A g : ~IsAttempt(CapsuleSuperseded(g)) /\ ~IsAttempt(Revoked(g))
    BY DEF IsAttempt, SemanticDelta, CapsuleSuperseded, Revoked
  <2>3. CASE CommitSemantic
    BY <2>1, <2>2, <2>3 DEF CommitSemantic
  <2>4. ASSUME NEW g, SupersedeCapsule(g) \/ RevokeGeneration(g) PROVE Same
    BY <2>1, <2>2, <2>4 DEF SupersedeCapsule, RevokeGeneration
  <2> QED BY <1>3, <2>3, <2>4 DEF Lifecycle
<1>4. CASE Authority
  BY <1>0, <1>4 DEF Authority, RegisterExecutionSession, AdmitPeer, RegisterSession, WithdrawPeer,
     InstallPolicy, EndSession, ChangePermissions, Prepare
<1>5. CASE Admit
  BY <1>0, <1>5, <1>9 DEF Admit, ReplayOutcome, RefusePermit
<1>6. CASE FinishCall
  BY <1>0, <1>2, <1>6 DEF FinishCall, Dispatch, ExecuteSynchronous, StartDetached,
     SettleSynchronous
<1>7. CASE Adapter \/ Report \/ Reconcile
  BY <1>0, <1>2, <1>7 DEF Adapter, JobApplies, JobDies, Report, SettleDetached, Reconcile,
     ReconcileEffect
<1>8. CASE Crash \/ Recover \/ UNCHANGED vars
  BY <1>0, <1>8 DEF Crash, Recover, DropUncertain, LoseRuntime, ReplayRecord, Serve, vars
<1> QED BY <1>3, <1>4, <1>5, <1>6, <1>7, <1>8 DEF Next

\* Memory holds outcomes of keys that were tried; without a fence, of all of them.
LEMMA SettledKeys ==
    ASSUME CoreInv
    PROVE  /\ DOMAIN mem.settled \subseteq TriedKeys(ledger)
           /\ pc = "idle" /\ ~IsFenced => TriedKeys(ledger) \subseteq DOMAIN mem.settled
<1>1. /\ LogOK(ledger) /\ ledger \in Seq(Record) /\ Len(ledger) \in Nat
      /\ applied \in 0..Len(ledger) /\ KeysProjected(mem.settled, ledger, applied)
  BY DEF CoreInv, LogOK, Synced, Projects
<1>2. ASSUME NEW k \in DOMAIN mem.settled PROVE k \in TriedKeys(ledger)
  <2>1. PICK j \in 2..applied : IsClosing(ledger[j]) /\ ledger[j - 1].key = k
    BY <1>1 DEF KeysProjected, LastIn, ClosingsIn
  <2>2. j \in 1..Len(ledger) /\ j - 1 \in 1..Len(ledger)
    BY <1>1
  <2>3. IsAttempt(ledger[j - 1])
    BY <1>1, <2>1, <2>2 DEF LogOK, Follows
  <2>4. k # NoKey
    BY <1>1, AbsentAssumption DEF KeysProjected
  <2> QED BY <2>1, <2>2, <2>3, <2>4 DEF TriedKeys
<1>3. ASSUME pc = "idle", ~IsFenced, NEW k \in TriedKeys(ledger) PROVE k \in DOMAIN mem.settled
  <2>1. PICK i \in 1..Len(ledger) : IsAttempt(ledger[i]) /\ ledger[i].key = k /\ k # NoKey
    BY DEF TriedKeys
  <2>2. OpenIn(ledger, Len(ledger)) = {} /\ KeysProjected(mem.settled, ledger, Len(ledger))
    BY <1>3, Unfenced DEF Projects
  <2>3. i + 1 \in 2..Len(ledger) /\ IsClosing(ledger[i + 1]) /\ (i + 1) - 1 = i
    BY <1>1, <2>1, <2>2, AllClosed
  <2>4. i + 1 \in ClosingsIn(ledger, Len(ledger), k)
    BY <2>1, <2>3 DEF ClosingsIn
  <2>5. ledger[i] \in Record
    BY <1>1, <2>1
  <2>6. k \in Key
    BY <2>1, <2>5, RecordFields
  <2> QED BY <2>2, <2>4, <2>6 DEF KeysProjected
<1> QED BY <1>2, <1>3

\* An attempt is admitted with room for the item of its key.
LEMMA SectionStep ==
    ASSUME TypeOK, CoreInv, SectionInv, [Next]_vars
    PROVE  SectionInv'
<1>1. CASE TriedKeys(ledger') = TriedKeys(ledger)
  BY <1>1 DEF SectionInv
<1>2. ASSUME NEW p \in permits, AttemptEffect(p) PROVE SectionInv'
  <2> DEFINE rec == AttemptRecord(p)
             room == DOMAIN mem.settled \cup ({rec.key} \ {NoKey})
  <2>1. /\ pc = "idle" /\ ~IsFenced /\ Admissible(p) /\ SectionAdmits(rec)
        /\ ledger' = ledger \/ ledger' = Append(ledger, rec)
    BY <1>2 DEF AttemptEffect, CommitRefused, AppendChecked, AppendFails
  <2>2. rec \in Record /\ IsAttempt(rec) /\ ledger \in Seq(Record)
    BY <2>1, AttemptFields DEF CoreInv, LogOK
  <2> HIDE DEF rec
  <2>3. DOMAIN mem.settled = TriedKeys(ledger)
    BY <2>1, SettledKeys
  <2>4. {mem.unsettled[i].key : i \in DOMAIN mem.unsettled} = {}
    BY <2>1 DEF IsFenced
  <2>5. Cardinality(room) <= SectionItems
    BY <2>1, <2>2, <2>4 DEF SectionAdmits, IsAttempt
  <2>6. IsFiniteSet({rec.key} \ {NoKey})
    BY FS_Singleton, FS_Difference
  <2>7. IsFiniteSet(room)
    BY <2>3, <2>6, FS_Union DEF SectionInv
  <2>8. TriedKeys(ledger') \in {TriedKeys(ledger), room}
    BY <2>1, <2>2, <2>3, TriedNext
  <2> QED BY <2>5, <2>7, <2>8 DEF SectionInv
<1> QED BY <1>1, <1>2, OnlyAttemptsTry

\* The section of a runtime that committed every record itself never outgrows its bound,
\* for any bound, whatever append failed and whatever was lost and replayed
\* (check_execution_section_growth, execution_section_overflow).
THEOREM SectionAlwaysFits == Spec => []SectionFits
<1>1. Init => SectionInv
  <2> SUFFICES ASSUME Init PROVE SectionInv
    OBVIOUS
  <2>1. TriedKeys(ledger) = {}
    BY DEF Init, TriedKeys
  <2> QED BY <2>1, FS_EmptySet, SectionAssumption DEF SectionInv
<1>2. AuditInv /\ SectionInv /\ [Next]_vars => SectionInv'
  BY SectionStep DEF AuditInv
<1>3. AuditInv /\ SectionInv => SectionFits
  <2> SUFFICES ASSUME CoreInv, SectionInv PROVE SectionFits
    BY DEF AuditInv
  <2>1. Cardinality(DOMAIN mem.settled) <= Cardinality(TriedKeys(ledger))
    BY SettledKeys, FS_Subset DEF SectionInv
  <2>2. /\ IsFiniteSet(TriedKeys(ledger)) /\ DOMAIN mem.settled \subseteq TriedKeys(ledger)
        /\ Cardinality(TriedKeys(ledger)) <= SectionItems
    BY SettledKeys DEF SectionInv
  <2>3. IsFiniteSet(DOMAIN mem.settled)
    BY <2>2, FS_Subset
  <2>4. /\ Cardinality(DOMAIN mem.settled) \in Nat /\ Cardinality(TriedKeys(ledger)) \in Nat
    BY <2>2, <2>3, FS_CardinalityType
  <2>5. Cardinality(DOMAIN mem.unsettled) <= 1
    <3>1. DOMAIN mem.unsettled \subseteq {applied}
      BY DEF CoreInv, Projects, OpenProjected, OpenIn
    <3>2. Cardinality({applied}) = 1 /\ IsFiniteSet({applied})
      BY FS_Singleton
    <3> QED BY <3>1, <3>2, FS_Subset
  <2>6. Cardinality(DOMAIN mem.unsettled) \in Nat
    <3>1. DOMAIN mem.unsettled \subseteq {applied}
      BY DEF CoreInv, Projects, OpenProjected, OpenIn
    <3> QED BY <3>1, FS_Singleton, FS_Subset, FS_CardinalityType
  <2> QED BY <2>1, <2>2, <2>4, <2>5, <2>6, SectionAssumption DEF SectionFits
<1> QED BY <1>1, <1>2, <1>3, AuditInvariant, PTL DEF Spec

-----------------------------------------------------------------------------
(* The log and the world implement EffectOnce *)

\* The abstract state as functions of a log: AttemptsIn and KeyTried for tried,
\* OpenAttempts for open, OutcomeIn for outcome.
AttemptsIn(l) == {i \in DOMAIN l : IsAttempt(l[i])}
KeyTried(l) == [i \in AttemptsIn(l) |-> l[i].key]
OutcomeIn(l, k) ==
    LET j == LastClosing(l, k)
    IN  CASE j = 0 -> "none"
          [] j # 0 /\ l[j].kind = "EffectReconciled" /\ ~l[j].applied -> "not_applied"
          [] OTHER -> "applied"
Outcomes(l) == [k \in Key |-> OutcomeIn(l, k)]

\* A nonempty set of places in a log has a last one.
LEMMA LastPlace ==
    ASSUME NEW n \in Nat, NEW C, C \subseteq 1..n, C # {}
    PROVE  \E j \in C : \A x \in C : x <= j
<1> DEFINE T == {n - j : j \in C}
           R == OpToRel(<, Nat)
<1>1. T \subseteq Nat /\ T # {}
  <2>1. \A j \in C : n - j \in Nat
    OBVIOUS
  <2>2. PICK j : j \in C
    OBVIOUS
  <2>3. n - j \in T
    BY <2>2
  <2> QED BY <2>1, <2>3
<1>2. IsWellFoundedOn(R, Nat)
  BY NatLessThanWellFounded
<1>3. \A x, y \in Nat : <<y, x>> \in R <=> y < x
  BY DEF OpToRel
<1> HIDE DEF R
<1>4. PICK t \in T : \A y \in T : ~(<<y, t>> \in R)
  BY <1>1, <1>2, WFMin
<1>5. PICK j \in C : t = n - j
  BY <1>4
<1>6. ASSUME NEW x \in C PROVE x <= j
  <2>1. n - x \in T /\ n - x \in Nat /\ n - j \in Nat
    OBVIOUS
  <2>2. ~(n - x < n - j)
    BY <1>3, <1>4, <1>5, <2>1
  <2> QED BY <2>2
<1> QED BY <1>6

\* A log has a last closing record of a key or none.
LEMMA LastExists ==
    ASSUME NEW l, LogOK(l), NEW k
    PROVE  \/ LastClosing(l, k) = 0 /\ ClosingsIn(l, Len(l), k) = {}
           \/ LastIn(l, Len(l), k, LastClosing(l, k))
<1> DEFINE C == ClosingsIn(l, Len(l), k)
<1>1. CASE C = {}
  BY <1>1, LastIsLast
<1>2. CASE C # {}
  <2>1. Len(l) \in Nat /\ C \subseteq 1..Len(l)
    BY DEF ClosingsIn, LogOK
  <2> HIDE DEF C
  <2>2. PICK j \in C : \A x \in C : x <= j
    BY <1>2, <2>1, LastPlace
  <2>3. LastIn(l, Len(l), k, j)
    BY <2>2 DEF LastIn, C
  <2> QED BY <2>3, LastIsLast
<1> QED BY <1>1, <1>2

\* l2 is the log l with one more record.
Extends(l, l2) ==
    /\ LogOK(l) /\ LogOK(l2) /\ Len(l2) = Len(l) + 1
    /\ \A i \in 1..Len(l) : l2[i] = l[i]

\* The last closing record of a key is the same after a record that closes no attempt under
\* it, and so is the key's outcome.
LEMMA SameOutcome ==
    ASSUME NEW l, NEW l2, Extends(l, l2), NEW k,
           IsClosing(l2[Len(l2)]) => l2[Len(l2) - 1].key # k
    PROVE  OutcomeIn(l2, k) = OutcomeIn(l, k)
<1>1. /\ LogOK(l) /\ LogOK(l2) /\ Len(l) \in Nat /\ Len(l2) = Len(l) + 1
      /\ \A i \in 1..Len(l) : l2[i] = l[i]
  BY DEF Extends, LogOK
<1>2. ClosingsIn(l2, Len(l2), k) = ClosingsIn(l, Len(l), k)
  <2>1. ASSUME NEW j \in 2..Len(l)
        PROVE  j \in 2..Len(l2) /\ l2[j] = l[j] /\ l2[j - 1] = l[j - 1]
    BY <1>1
  <2>2. ASSUME NEW j \in 2..Len(l2), j \notin 2..Len(l) PROVE j = Len(l2)
    BY <1>1, <2>2
  <2>3. ASSUME NEW j \in ClosingsIn(l2, Len(l2), k) PROVE j \in ClosingsIn(l, Len(l), k)
    BY <2>1, <2>2 DEF ClosingsIn
  <2>4. ASSUME NEW j \in ClosingsIn(l, Len(l), k) PROVE j \in ClosingsIn(l2, Len(l2), k)
    BY <2>1 DEF ClosingsIn
  <2> QED BY <2>3, <2>4
<1>3. CASE LastClosing(l, k) = 0 /\ ClosingsIn(l, Len(l), k) = {}
  <2>1. LastClosing(l2, k) = 0
    BY <1>1, <1>2, <1>3, LastIsLast
  <2> QED BY <1>3, <2>1 DEF OutcomeIn
<1>4. CASE LastIn(l, Len(l), k, LastClosing(l, k))
  <2> DEFINE j == LastClosing(l, k)
  <2>1. LastIn(l2, Len(l2), k, j) /\ j \in 2..Len(l)
    BY <1>2, <1>4 DEF LastIn, ClosingsIn
  <2>2. LastClosing(l2, k) = j
    BY <1>1, <2>1, LastIsLast
  <2>3. j # 0 /\ l2[j] = l[j]
    BY <1>1, <2>1
  <2> HIDE DEF j
  <2> QED BY <2>2, <2>3 DEF OutcomeIn, j
<1> QED BY <1>1, <1>3, <1>4, LastExists

\* The outcome of a key whose last closing record is at j.
LEMMA OutcomeAt ==
    ASSUME NEW l, LogOK(l), NEW k, NEW j \in 2..Len(l), LastIn(l, Len(l), k, j)
    PROVE  OutcomeIn(l, k) = IF SaysNotApplied(l[j]) THEN "not_applied" ELSE "applied"
<1>1. LastClosing(l, k) = j /\ j # 0
  BY LastIsLast DEF LogOK
<1> QED BY <1>1 DEF OutcomeIn, SaysNotApplied

\* A record that is neither an attempt nor a closing is invisible.
LEMMA PlainIsInvisible ==
    ASSUME NEW l, NEW l2, Extends(l, l2), ~IsAttempt(l2[Len(l2)]), ~IsClosing(l2[Len(l2)])
    PROVE  /\ KeyTried(l2) = KeyTried(l) /\ OpenAttempts(l2) = OpenAttempts(l)
           /\ Outcomes(l2) = Outcomes(l)
<1>1. /\ LogOK(l) /\ LogOK(l2) /\ Len(l) \in Nat /\ Len(l2) = Len(l) + 1
      /\ \A i \in 1..Len(l) : l2[i] = l[i]
      /\ DOMAIN l = 1..Len(l) /\ DOMAIN l2 = 1..Len(l2)
  BY DEF Extends, LogOK
<1>2. AttemptsIn(l2) = AttemptsIn(l)
  BY <1>1 DEF AttemptsIn
<1>3. KeyTried(l2) = KeyTried(l)
  <2>1. \A i \in AttemptsIn(l) : l2[i] = l[i]
    BY <1>1 DEF AttemptsIn
  <2> QED BY <1>2, <2>1 DEF KeyTried
<1>4. OpenIn(l2, Len(l2)) = {}
  BY DEF OpenIn
<1>5. OpenIn(l, Len(l)) = {}
  <2>1. Len(l2) \in 1..Len(l2) /\ Len(l2) - 1 = Len(l)
    BY <1>1
  <2>2. Follows(l2, Len(l2))
    BY <1>1, <2>1 DEF LogOK
  <2>3. ~(Len(l2) > 1 /\ IsAttempt(l2[Len(l)]))
    BY <2>1, <2>2 DEF Follows
  <2> QED BY <1>1, <2>3 DEF OpenIn
<1>6. OpenAttempts(l2) = OpenAttempts(l)
  BY <1>1, <1>4, <1>5, Pairing
<1>7. \A k \in Key : OutcomeIn(l2, k) = OutcomeIn(l, k)
  BY SameOutcome
<1> QED BY <1>3, <1>6, <1>7 DEF Outcomes

\* An attempt is a Begin: nothing is open, its key is not spent.
LEMMA AttemptBegins ==
    ASSUME NEW l, NEW l2, Extends(l, l2), IsAttempt(l2[Len(l2)])
    PROVE  LET n == Len(l2)
               k == l2[n].key
           IN  /\ OpenAttempts(l) = {} /\ n \notin DOMAIN KeyTried(l)
               /\ k \in Key \cup {NoKey}
               /\ k # NoKey => Outcomes(l)[k] # "applied"
               /\ KeyTried(l2) = [j \in DOMAIN KeyTried(l) \cup {n} |->
                                    IF j = n THEN k ELSE KeyTried(l)[j]]
               /\ OpenAttempts(l2) = {n} /\ Outcomes(l2) = Outcomes(l)
<1> DEFINE n == Len(l2)
           k == l2[n].key
<1>1. /\ LogOK(l) /\ LogOK(l2) /\ Len(l) \in Nat /\ n = Len(l) + 1
      /\ \A i \in 1..Len(l) : l2[i] = l[i]
      /\ DOMAIN l = 1..Len(l) /\ DOMAIN l2 = 1..n /\ l2 \in Seq(Record)
      /\ n \in 1..n /\ n - 1 = Len(l) /\ Len(l2) = n
  BY DEF Extends, LogOK
<1>a. Follows(l2, n) /\ IsAttempt(l2[n])
  BY <1>1 DEF LogOK
<1>2. ~IsClosing(l2[n]) /\ k \in Key \cup {NoKey}
  <2>1. l2[n] \in Record
    BY <1>1
  <2> QED BY <1>a, <2>1, RecordFields DEF IsAttempt, IsClosing
<1> HIDE DEF n
<1>3. OpenAttempts(l) = {} /\ OpenAttempts(l2) = {n}
  <2>1. ~(n > 1 /\ IsAttempt(l2[Len(l)]))
    BY <1>1, <1>a, <1>2 DEF Follows
  <2>2. OpenIn(l, Len(l)) = {}
    BY <1>1, <2>1 DEF OpenIn
  <2>3. OpenIn(l2, n) = {n}
    BY <1>1, <1>a DEF OpenIn
  <2> QED BY <1>1, <2>2, <2>3, Pairing
<1>4. AttemptsIn(l2) = AttemptsIn(l) \cup {n} /\ n \notin AttemptsIn(l)
  BY <1>1, <1>a DEF AttemptsIn
<1>5. DOMAIN KeyTried(l) = AttemptsIn(l)
  BY DEF KeyTried
<1>6. KeyTried(l2) = [j \in AttemptsIn(l) \cup {n} |-> IF j = n THEN k ELSE KeyTried(l)[j]]
  <2>1. \A j \in AttemptsIn(l) : l2[j] = l[j] /\ KeyTried(l)[j] = l[j].key /\ j # n
    BY <1>1, <1>4 DEF AttemptsIn, KeyTried
  <2> QED BY <1>4, <2>1 DEF KeyTried
<1>7. ASSUME k # NoKey PROVE Outcomes(l)[k] # "applied"
  <2>1. Outcomes(l)[k] = OutcomeIn(l, k)
    BY <1>2, <1>7 DEF Outcomes
  <2>2. CASE LastClosing(l, k) = 0
    BY <2>1, <2>2 DEF OutcomeIn
  <2>3. CASE LastIn(l, Len(l), k, LastClosing(l, k))
    <3> DEFINE j == LastClosing(l, k)
    <3>1. j \in 2..Len(l) /\ IsClosing(l[j]) /\ l[j - 1].key = k
      BY <2>3 DEF LastIn, ClosingsIn
    <3> HIDE DEF j
    <3>2. j \in 1..Len(l) /\ j - 1 \in 1..(n - 1) /\ j - 1 \in 1..Len(l) /\ (j - 1) + 1 = j
      BY <1>1, <3>1
    <3>3. Follows(l, j)
      BY <1>1, <3>2 DEF LogOK
    <3>4. IsAttempt(l[j - 1])
      BY <3>1, <3>3 DEF Follows
    <3>5. SaysNotApplied(l2[(j - 1) + 1])
      BY <1>1, <1>a, <1>7, <3>1, <3>2, <3>4 DEF Follows
    <3>6. SaysNotApplied(l[j])
      BY <1>1, <3>2, <3>5
    <3>7. LastIn(l, Len(l), k, j)
      BY <2>3 DEF j
    <3>8. OutcomeIn(l, k) = "not_applied"
      BY <1>1, <3>1, <3>6, <3>7, OutcomeAt
    <3> QED BY <2>1, <3>8
  <2> QED BY <1>1, <2>2, <2>3, LastExists
<1>8. Outcomes(l2) = Outcomes(l)
  <2>1. \A x \in Key : OutcomeIn(l2, x) = OutcomeIn(l, x)
    BY <1>2, SameOutcome DEF n
  <2> QED BY <2>1 DEF Outcomes
<1> QED BY <1>2, <1>3, <1>4, <1>5, <1>6, <1>7, <1>8 DEF n

\* A settlement or reconciliation is a Close of the open attempt: it records of its key
\* what the record says.
LEMMA ClosingCloses ==
    ASSUME NEW l, NEW l2, Extends(l, l2), IsClosing(l2[Len(l2)])
    PROVE  LET i == Len(l)
               k == KeyTried(l)[i]
               says == IF SaysNotApplied(l2[Len(l2)]) THEN "not_applied" ELSE "applied"
           IN  /\ OpenAttempts(l) = {i} /\ OpenAttempts(l2) = {}
               /\ i \in DOMAIN KeyTried(l) /\ KeyTried(l2) = KeyTried(l)
               /\ Outcomes(l2) = IF k = NoKey THEN Outcomes(l)
                                 ELSE [Outcomes(l) EXCEPT ![k] = says]
<1> DEFINE n == Len(l2)
           i == Len(l)
           k == KeyTried(l)[i]
           says == IF SaysNotApplied(l2[n]) THEN "not_applied" ELSE "applied"
<1>1. /\ LogOK(l) /\ LogOK(l2) /\ i \in Nat /\ n = i + 1
      /\ \A x \in 1..i : l2[x] = l[x]
      /\ DOMAIN l = 1..i /\ DOMAIN l2 = 1..n /\ Len(l2) = n /\ Len(l) = i
      /\ n \in 1..n /\ n - 1 = i
  BY DEF Extends, LogOK
<1>2. Follows(l2, n) /\ IsClosing(l2[n]) /\ ~IsAttempt(l2[n])
  BY <1>1 DEF LogOK, IsClosing, IsAttempt
<1> HIDE DEF n, i
<1>3. n > 1 /\ IsAttempt(l2[i]) /\ i \in 1..i /\ IsAttempt(l[i])
  BY <1>1, <1>2 DEF Follows
<1>4. OpenAttempts(l) = {i} /\ OpenAttempts(l2) = {}
  <2>1. OpenIn(l, i) = {i} /\ OpenIn(l2, n) = {}
    BY <1>1, <1>2, <1>3 DEF OpenIn
  <2> QED BY <1>1, <2>1, Pairing
<1>5. AttemptsIn(l2) = AttemptsIn(l)
  BY <1>1, <1>2 DEF AttemptsIn
<1>6. KeyTried(l2) = KeyTried(l)
  <2>1. \A j \in AttemptsIn(l) : l2[j] = l[j]
    BY <1>1 DEF AttemptsIn
  <2> QED BY <1>5, <2>1 DEF KeyTried
<1>7. i \in DOMAIN KeyTried(l) /\ k = l[i].key /\ l2[n - 1].key = k
  BY <1>1, <1>3 DEF KeyTried, AttemptsIn
<1>8. ASSUME NEW x \in Key, x # k PROVE OutcomeIn(l2, x) = OutcomeIn(l, x)
  BY <1>7, <1>8, SameOutcome DEF n
<1>9. OutcomeIn(l2, k) = says
  <2>1. n \in 2..n
    BY <1>1, <1>3
  <2>2. LastIn(l2, n, k, n)
    BY <1>2, <1>7, <2>1 DEF LastIn, ClosingsIn
  <2> QED BY <1>1, <2>1, <2>2, OutcomeAt
<1> HIDE DEF k, says
<1>10. Outcomes(l2) = IF k = NoKey THEN Outcomes(l) ELSE [Outcomes(l) EXCEPT ![k] = says]
  <2>1. CASE k = NoKey
    BY <1>8, <2>1, AbsentAssumption DEF Outcomes
  <2>2. CASE k # NoKey
    BY <1>8, <1>9, <2>2 DEF Outcomes
  <2> QED BY <2>1, <2>2
<1> QED BY <1>4, <1>6, <1>7, <1>10 DEF n, i, k, says

\* The world changes only by the effect of the open attempt, and never together with the log.
LEMMA WorldStep ==
    ASSUME CoreInv, [Next]_vars
    PROVE  \/ world' = world
           \/ /\ ledger' = ledger /\ world' = world \cup {Len(ledger)}
              /\ Len(ledger) \in Attempts \ world
<1> DEFINE Moves == \/ world' = world
                    \/ /\ ledger' = ledger /\ world' = world \cup {Len(ledger)}
                       /\ Len(ledger) \in Attempts \ world
<1>1. UNCHANGED world => Moves
  OBVIOUS
<1>2. ASSUME NEW applies, NEW ok, ExecuteSynchronous(applies, ok) PROVE Moves
  <2>1. /\ pc = "dispatch" /\ ledger' = ledger
        /\ world' = world \/ world' = world \cup {call.attempt}
    BY <1>2 DEF ExecuteSynchronous
  <2>2. call.attempt = Len(ledger) /\ Len(ledger) \in Attempts /\ Len(ledger) \notin world
    BY <2>1 DEF CoreInv, InCall
  <2> QED BY <2>1, <2>2
<1>3. ASSUME NEW i, JobApplies(i) PROVE Moves
  <2>1. i \in jobs /\ ledger' = ledger /\ world' = world \cup {i}
    BY <1>3 DEF JobApplies
  <2>2. i = Len(ledger) /\ i \in Attempts /\ i \notin world
    BY <2>1 DEF CoreInv, Outside
  <2> QED BY <2>1, <2>2
<1> SUFFICES Moves
  OBVIOUS
<1> HIDE DEF Moves
<1>4. CASE Lifecycle \/ Authority \/ Admit \/ UNCHANGED vars
  BY <1>1, <1>4 DEF Lifecycle, CommitSemantic, SupersedeCapsule, RevokeGeneration, Commit,
     Authority, RegisterExecutionSession, AdmitPeer, RegisterSession, WithdrawPeer, InstallPolicy,
     EndSession, ChangePermissions, Prepare, Admit, AttemptEffect, ReplayOutcome, RefusePermit,
     vars, worldVars
<1>5. CASE FinishCall
  BY <1>1, <1>2, <1>5 DEF FinishCall, Dispatch, StartDetached, SettleSynchronous, worldVars
<1>6. CASE Adapter \/ Report \/ Reconcile
  BY <1>1, <1>3, <1>6 DEF Adapter, JobDies, Report, SettleDetached, Reconcile, ReconcileEffect,
     worldVars
<1>7. CASE Crash \/ Recover
  BY <1>1, <1>7 DEF Crash, Recover, DropUncertain, LoseRuntime, ReplayRecord, Serve, worldVars
<1> QED BY <1>4, <1>5, <1>6, <1>7 DEF Next

\* The refinement mapping in terms of the log.
LEMMA MappedState ==
    /\ [i \in Attempts |-> ledger[i].key] = KeyTried(ledger)
    /\ [k \in Key |-> RecordedOutcome(k)] = Outcomes(ledger)
  BY DEF Attempts, AttemptsIn, KeyTried, RecordedOutcome, OutcomeIn, Outcomes

\* In the next state too.
LEMMA MappedNext ==
    /\ [i \in Attempts |-> ledger[i].key]' = KeyTried(ledger')
    /\ [k \in Key |-> RecordedOutcome(k)]' = Outcomes(ledger')
    /\ OpenAttempts(ledger)' = OpenAttempts(ledger')
  BY DEF Attempts, AttemptsIn, KeyTried, RecordedOutcome, OutcomeIn, Outcomes, OpenAttempts,
     LastClosing, Closings

\* The empty log and the untouched world are the abstract initial state.
LEMMA OnceInitially == Init => Once!OnceInit
<1> SUFFICES ASSUME Init PROVE Once!OnceInit
  OBVIOUS
<1>1. ledger = <<>> /\ DOMAIN ledger = {} /\ world = {}
  BY DEF Init
<1>2. Attempts = {} /\ OpenAttempts(ledger) = {} /\ \A k : Closings(ledger, k) = {}
  BY <1>1 DEF Attempts, OpenAttempts, Closings
<1>3. \A k \in Key : RecordedOutcome(k) = "none"
  BY <1>2 DEF RecordedOutcome, LastClosing
<1>4. [i \in Attempts |-> ledger[i].key] = [i \in {} |-> NoKey]
  BY <1>2
<1>5. [k \in Key |-> RecordedOutcome(k)] = [k \in Key |-> "none"]
  BY <1>3
<1> QED BY <1>1, <1>2, <1>4, <1>5 DEF Once!OnceInit

\* Every step of the audit is a Begin, an Apply, a Close, or invisible.
LEMMA OnceStep ==
    ASSUME TypeOK', CoreInv, CoreInv', [Next]_vars
    PROVE  [Once!OnceNext]_(Once!onceVars)
<1>1. /\ LogOK(ledger) /\ LogOK(ledger') /\ Len(ledger) \in Nat /\ ledger \in Seq(Record)
      /\ DOMAIN ledger = 1..Len(ledger) /\ Len(ledger') \in Nat
  BY DEF CoreInv, LogOK
<1>2. CASE ledger' = ledger /\ world' = world
  <2>1. UNCHANGED Once!onceVars
    BY <1>2, MappedState, MappedNext DEF Once!onceVars
  <2> QED BY <2>1
<1>3. CASE /\ ledger' = ledger /\ world' = world \cup {Len(ledger)}
           /\ Len(ledger) \in Attempts \ world
  <2>1. Len(ledger) \in OpenAttempts(ledger)
    BY <1>1, <1>3, Pairing DEF OpenIn, Attempts
  <2>2. /\ [i \in Attempts |-> ledger[i].key]' = [i \in Attempts |-> ledger[i].key]
        /\ [k \in Key |-> RecordedOutcome(k)]' = [k \in Key |-> RecordedOutcome(k)]
        /\ OpenAttempts(ledger)' = OpenAttempts(ledger)
    BY <1>3, MappedState, MappedNext
  <2>3. Once!Apply(Len(ledger))
    BY <1>3, <2>1, <2>2 DEF Once!Apply
  <2> QED BY <2>1, <2>3 DEF Once!OnceNext
<1>4. CASE world' = world /\ ledger' # ledger
  <2>1. PICK rec : ledger' = Append(ledger, rec)
    BY <1>4, LogGrows
  <2>2. Extends(ledger, ledger') /\ Len(ledger') = Len(ledger) + 1
    BY <1>1, <2>1, Extended DEF Extends
  <2> DEFINE n == Len(ledger')
             k == ledger'[n].key
             old == Len(ledger)
  <2>3. CASE ~IsAttempt(ledger'[n]) /\ ~IsClosing(ledger'[n])
    <3>1. /\ KeyTried(ledger') = KeyTried(ledger) /\ OpenAttempts(ledger') = OpenAttempts(ledger)
          /\ Outcomes(ledger') = Outcomes(ledger)
      BY <2>2, <2>3, PlainIsInvisible
    <3>2. UNCHANGED Once!onceVars
      BY <1>4, <3>1, MappedState, MappedNext DEF Once!onceVars
    <3> QED BY <3>2
  <2>4. CASE IsAttempt(ledger'[n])
    <3>1. /\ OpenAttempts(ledger) = {} /\ n \notin DOMAIN KeyTried(ledger)
          /\ k \in Key \cup {NoKey}
          /\ k # NoKey => Outcomes(ledger)[k] # "applied"
          /\ KeyTried(ledger') = [j \in DOMAIN KeyTried(ledger) \cup {n} |->
                                    IF j = n THEN k ELSE KeyTried(ledger)[j]]
          /\ OpenAttempts(ledger') = {n} /\ Outcomes(ledger') = Outcomes(ledger)
      BY <2>2, <2>4, AttemptBegins
    <3>2. n \in Indices
      BY <1>1, <2>2, BoundAssumption DEF TypeOK, Indices
    <3> HIDE DEF n, k
    <3>3. PICK i \in Indices, x \in Key \cup {NoKey} : i = n /\ x = k
      BY <3>1, <3>2
    <3>4. Once!Begin(i, x)
      BY <1>4, <3>1, <3>2, <3>3, MappedState, MappedNext DEF Once!Begin, Once!Spent
    <3> QED BY <3>4 DEF Once!OnceNext
  <2>5. CASE IsClosing(ledger'[n])
    <3> DEFINE key == KeyTried(ledger)[old]
               says == IF SaysNotApplied(ledger'[n]) THEN "not_applied" ELSE "applied"
    <3>1. /\ OpenAttempts(ledger) = {old} /\ OpenAttempts(ledger') = {}
          /\ old \in DOMAIN KeyTried(ledger) /\ KeyTried(ledger') = KeyTried(ledger)
          /\ Outcomes(ledger') = IF key = NoKey THEN Outcomes(ledger)
                                 ELSE [Outcomes(ledger) EXCEPT ![key] = says]
      BY <2>2, <2>5, ClosingCloses
    <3>2. SaysNotApplied(ledger'[n]) <=> old \notin world
      <4>1. n \in 1..Len(ledger') /\ n - 1 = old
        BY <1>1, <2>2
      <4> QED BY <1>4, <2>5, <4>1 DEF CoreInv, Truthful
    <3>3. says = IF old \in world THEN "applied" ELSE "not_applied"
      BY <3>2
    <3> HIDE DEF old, n, says
    <3>4. Once!Close(old)
      BY <1>4, <3>1, <3>3, MappedState, MappedNext DEF Once!Close
    <3> QED BY <3>1, <3>4 DEF Once!OnceNext
  <2> QED BY <2>3, <2>4, <2>5
<1> QED BY <1>2, <1>3, <1>4, WorldStep

\* The durable log and the world implement the abstract at-most-once contract: whatever is
\* lost, retried or late, every step begins an attempt, applies its effect, closes it
\* truthfully, or is invisible.
THEOREM AuditRefinesOnce == Spec => AuditImplementsOnce
<1>1. AuditInv /\ AuditInv' /\ [Next]_vars => [Once!OnceNext]_(Once!onceVars)
  BY OnceStep DEF AuditInv
<1> QED BY <1>1, OnceInitially, AuditInvariant, PTL DEF Spec, AuditImplementsOnce, Once!OnceSpec
=============================================================================
