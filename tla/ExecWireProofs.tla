--------------------------- MODULE ExecWireProofs ---------------------------
(***************************************************************************)
(* Proofs about the at-most-once contract of EffectOnce, and about         *)
(* ExecWire, for any requesters, intents, keys, window sizes, connections  *)
(* and failures.                                                           *)
(*                                                                         *)
(* The host keeps the contract of EffectOnce, so keyed intents follow from *)
(* OnceInv.  An intent without a key is applied once because of what its   *)
(* requester knows: only one of its requests is ever without a refusal     *)
(* (KeylessOnce), a request makes at most one attempt (Booked), and the    *)
(* attempt of a refused request is never applied (ReceiptsAreTrue).        *)
(***************************************************************************)
EXTENDS ExecWire, FiniteSetTheorems, SequenceTheorems, TLAPS

-----------------------------------------------------------------------------
(* The at-most-once contract (EffectOnce) *)

\* Nothing has been attempted at the start.
LEMMA InitOnceInv == OnceInit => OnceInv
  BY KeyAssumption DEF OnceInit, OnceInv, OnceTypeOK, KeyAppliesOnce, Spent

\* An attempt may begin: none is open and its key is not recorded as applied.
LEMMA BeginPreserves ==
  ASSUME NEW i \in Attempt, NEW k \in Key \cup {NoKey}, OnceInv, Begin(i, k)
  PROVE  OnceInv'
<1> USE DEF OnceInv
<1>1. i \notin DOMAIN tried /\ i \notin effects /\ open = {}
  BY DEF Begin, OnceTypeOK
<1>2. /\ DOMAIN tried' = DOMAIN tried \cup {i} /\ tried'[i] = k
      /\ \A j \in DOMAIN tried : tried'[j] = tried[j]
  BY <1>1 DEF Begin
<1>3. OnceTypeOK'
  BY <1>1, <1>2 DEF Begin, OnceTypeOK
<1>4. KeyAppliesOnce'
  BY <1>1, <1>2 DEF Begin, KeyAppliesOnce, OnceTypeOK
<1>5. (\A a, b \in open : a = b)'
  BY DEF Begin
<1>6. (\A j \in effects \ open : tried[j] # NoKey => outcome[tried[j]] = "applied")'
  BY <1>1, <1>2 DEF Begin, OnceTypeOK
<1>7. (\A j \in open : ~Spent(tried[j]))'
  BY <1>2 DEF Begin, Spent
<1> QED BY <1>3, <1>4, <1>5, <1>6, <1>7

\* The open attempt acts once.
LEMMA ApplyPreserves ==
  ASSUME NEW i \in open, OnceInv, Apply(i)
  PROVE  OnceInv'
<1> USE DEF OnceInv
<1>1. OnceTypeOK'
  BY DEF Apply, OnceTypeOK
<1>2. \A j \in effects : tried[j] # NoKey => tried[j] # tried[i]
  BY DEF Apply, OnceTypeOK, Spent
<1>3. KeyAppliesOnce'
  BY <1>2 DEF Apply, KeyAppliesOnce
<1> QED BY <1>1, <1>3 DEF Apply, Spent

\* Closing an attempt records of its key what happened.
LEMMA ClosePreserves ==
  ASSUME NEW i \in open, OnceInv, Close(i)
  PROVE  OnceInv'
<1> USE DEF OnceInv
<1>1. open' = {}
  BY DEF Close
<1>2. OnceTypeOK'
  BY <1>1 DEF Close, OnceTypeOK
<1>3. KeyAppliesOnce'
  BY DEF Close, KeyAppliesOnce
<1>4. ASSUME NEW j \in effects, tried[j] # NoKey PROVE outcome'[tried[j]] = "applied"
  <2>1. CASE j = i
    BY <2>1, <1>4 DEF Close, OnceTypeOK
  <2>2. CASE j # i
    <3>1. j \notin open /\ outcome[tried[j]] = "applied" /\ tried[j] \in Key
      BY <2>2, <1>4 DEF OnceTypeOK
    <3>2. tried[i] # tried[j]
      BY <3>1, <1>4 DEF Spent
    <3> QED BY <3>1, <3>2 DEF Close, OnceTypeOK
  <2> QED BY <2>1, <2>2
<1> QED BY <1>1, <1>2, <1>3, <1>4 DEF Close

\* The strengthening holds in every behaviour of the contract.
THEOREM OnceInvariant == OnceSpec => []OnceInv
<1>1. ASSUME OnceInv, [OnceNext]_onceVars PROVE OnceInv'
  <2>1. CASE \E i \in Attempt, k \in Key \cup {NoKey} : Begin(i, k)
    BY <2>1, <1>1, BeginPreserves
  <2>2. CASE \E i \in open : Apply(i) \/ Close(i)
    BY <2>2, <1>1, ApplyPreserves, ClosePreserves
  <2>3. CASE UNCHANGED onceVars
    BY <2>3, <1>1 DEF onceVars, OnceInv, OnceTypeOK, KeyAppliesOnce, Spent
  <2> QED BY <2>1, <2>2, <2>3, <1>1 DEF OnceNext
<1> QED BY <1>1, InitOnceInv, PTL DEF OnceSpec

\* An effect under an at-most-once key is applied at most once, for any keys and
\* any number of attempts (prepare_execution_once).
THEOREM KeysApplyOnce == OnceSpec => []KeyAppliesOnce
<1>1. OnceInv => KeyAppliesOnce
  BY DEF OnceInv
<1> QED BY <1>1, OnceInvariant, PTL

-----------------------------------------------------------------------------
(* The wire (ExecWire) *)

\* Every attempt belongs to one connection, carries its key, and a connection in the
\* queue has made none.
Booked ==
    /\ DOMAIN maker = DOMAIN tried
    /\ \A i \in DOMAIN tried :
          /\ maker[i] \in DOMAIN conns
          /\ tried[i] = Key0(maker[i])
          /\ conns[maker[i]].stage # "queued"
    /\ \A i, j \in DOMAIN tried : maker[i] = maker[j] => i = j

\* A receipt is given when the request is served, and not before.
Unanswered == \A c \in DOMAIN conns : conns[c].stage # "served" => conns[c].reply = "none"

\* The dispatch in progress: an open attempt made for the connection that is waiting.
InCall ==
    host.pc \in {"dispatch", "settle"} =>
        /\ host.attempt \in open /\ maker[host.attempt] = host.conn
        /\ conns[host.conn].stage = "deciding"
        /\ (host.attempt \in effects <=> host.pc = "settle")

\* Of the requests for an intent without a key, at most one is not refused.
KeylessOnce ==
    \A c, d \in DOMAIN conns :
        /\ conns[c].intent = conns[d].intent /\ KeyOf[conns[c].intent] = NoKey
        /\ conns[c].reply \notin Refusals /\ conns[d].reply \notin Refusals
        => c = d

\* Receipts are true, one connection at a time.
TrueReceipt(c, reply) ==
    /\ reply \in Refusals => \A i \in effects : maker[i] # c
    /\ reply \in AppliedOutcomes =>
          \E i \in effects : conns[maker[i]].intent = conns[c].intent

WireInv ==
    /\ OnceInv /\ conns \in Seq(Conn)
    /\ Booked /\ Unanswered /\ InCall /\ KeylessOnce
    /\ \A c \in DOMAIN conns : TrueReceipt(c, conns[c].reply)

-----------------------------------------------------------------------------
(* What the invariant says in the words of the properties *)

\* A set without two different members has at most one.
LEMMA AtMostOneMember ==
    ASSUME NEW S, \A i, j \in S : i = j
    PROVE  Cardinality(S) <= 1
<1>1. CASE S = {}
  BY <1>1, FS_EmptySet
<1>2. CASE S # {}
  <2>1. PICK x : x \in S
    BY <1>2
  <2>2. S = {x}
    BY <2>1
  <2>3. Cardinality(S) = 1
    BY <2>2, FS_Singleton
  <2> QED BY <2>3
<1> QED BY <1>1, <1>2

\* Two effects for one intent are one.
LEMMA InvOnce == WireInv => IntentAppliesOnce
<1> SUFFICES ASSUME WireInv, NEW x \in Intent
             PROVE  Cardinality(AttemptsFor(x) \cap effects) <= 1
  BY DEF IntentAppliesOnce
<1>1. ASSUME NEW i \in AttemptsFor(x) \cap effects, NEW j \in AttemptsFor(x) \cap effects
      PROVE  i = j
  <2>1. /\ i \in DOMAIN tried /\ j \in DOMAIN tried /\ i \in effects /\ j \in effects
        /\ conns[maker[i]].intent = x /\ conns[maker[j]].intent = x
    BY DEF AttemptsFor
  <2>2. /\ tried[i] = KeyOf[x] /\ tried[j] = KeyOf[x]
        /\ maker[i] \in DOMAIN conns /\ maker[j] \in DOMAIN conns
    BY <2>1 DEF WireInv, Booked, Key0
  <2>3. CASE KeyOf[x] # NoKey
    BY <2>1, <2>2, <2>3 DEF WireInv, OnceInv, KeyAppliesOnce
  <2>4. CASE KeyOf[x] = NoKey
    <3>1. conns[maker[i]].reply \notin Refusals /\ conns[maker[j]].reply \notin Refusals
      BY <2>1, <2>2 DEF WireInv, TrueReceipt
    <3>2. maker[i] = maker[j]
      BY <2>1, <2>2, <2>4, <3>1 DEF WireInv, KeylessOnce
    <3> QED BY <2>1, <3>2 DEF WireInv, Booked
  <2> QED BY <2>3, <2>4
<1> QED BY <1>1, AtMostOneMember

\* Receipts are true.
LEMMA InvReceipts == WireInv => ReceiptsAreTrue
<1> SUFFICES ASSUME WireInv PROVE ReceiptsAreTrue
  OBVIOUS
<1>1. \A i \in effects : i \in DOMAIN tried /\ maker[i] \in DOMAIN conns
  BY DEF WireInv, OnceInv, OnceTypeOK, Booked
<1>2. \A i \in effects : conns[maker[i]].reply \notin Refusals
  BY <1>1 DEF WireInv, TrueReceipt
<1>3. ASSUME NEW c \in DOMAIN conns, conns[c].reply \in AppliedOutcomes
      PROVE  AttemptsFor(conns[c].intent) \cap effects # {}
  BY <1>1, <1>3 DEF WireInv, TrueReceipt, AttemptsFor
<1> QED BY <1>2, <1>3 DEF ReceiptsAreTrue

-----------------------------------------------------------------------------
(* Connections *)

\* What an answer changes.
Answers(c, reply) ==
    /\ conns' \in Seq(Conn) /\ DOMAIN conns' = DOMAIN conns
    /\ \A d \in DOMAIN conns : conns'[d].intent = conns[d].intent
    /\ \A d \in DOMAIN conns \ {c} : conns'[d] = conns[d]
    /\ conns'[c].stage = "served" /\ conns'[c].reply = reply

\* An answer changes the stage and the receipt of its connection and nothing else.
LEMMA AnswerShape ==
    ASSUME conns \in Seq(Conn), NEW c \in DOMAIN conns, NEW reply \in Outcomes, Answer(c, reply)
    PROVE  Answers(c, reply)
<1> DEFINE old == conns[c]
           mid == [old EXCEPT !.stage = "served"]
           new == [mid EXCEPT !.reply = reply]
<1>1. old \in Conn /\ DOMAIN conns = 1..Len(conns) /\ Len(conns) \in Nat
  OBVIOUS
<1>2. mid \in Conn /\ mid.intent = old.intent /\ mid.stage = "served"
  BY <1>1 DEF Conn
<1>3. new \in Conn /\ new.intent = old.intent /\ new.stage = "served" /\ new.reply = reply
  BY <1>2 DEF Conn
<1>4. conns' = [conns EXCEPT ![c] = new]
  BY <1>1 DEF Answer
<1> HIDE DEF new
<1>5. conns' \in Seq(Conn) /\ DOMAIN conns' = DOMAIN conns
  BY <1>1, <1>3, <1>4, ExceptSeq
<1> QED BY <1>1, <1>3, <1>4, <1>5 DEF Answers

-----------------------------------------------------------------------------
(* The contract of the runtime behind the host *)

\* Nothing happens to the contract.
LEMMA OnceStutter ==
    ASSUME OnceInv, UNCHANGED onceVars
    PROVE  OnceInv'
  BY DEF onceVars, OnceInv, OnceTypeOK, KeyAppliesOnce, Spent

\* An attempt for a connection keeps it.
LEMMA BeginKeepsOnce ==
    ASSUME WireInv, NEW c \in DOMAIN conns, NEW n, n = NextAttempt, Begin(n, Key0(c))
    PROVE  OnceInv'
<1>0. conns[c] \in Conn
  BY DEF WireInv
<1>1. conns[c].intent \in Intent
  BY <1>0 DEF Conn
<1>2. Key0(c) \in Key \cup {NoKey}
  BY <1>1, WireAssumption DEF Key0
<1>3. n \in Attempt
  BY DEF Begin
<1>4. PICK k \in Key \cup {NoKey} : k = Key0(c)
  BY <1>2
<1> QED BY <1>3, <1>4, BeginPreserves DEF WireInv

-----------------------------------------------------------------------------
(* Steps *)

\* A connection that has no receipt is answered.  What was applied meanwhile was applied
\* for it, and the receipt is true.
LEMMA AnswerKeeps ==
    ASSUME WireInv, OnceInv', UNCHANGED <<tried, maker>>, host'.pc \notin {"dispatch", "settle"},
           NEW c \in DOMAIN conns, NEW reply \in Outcomes, Answers(c, reply),
           conns[c].reply = "none", effects \subseteq effects',
           \A i \in effects' \ effects : maker[i] = c,
           reply \in Refusals => \A i \in effects' : maker[i] # c,
           reply \in AppliedOutcomes => \E i \in effects' : conns[maker[i]].intent = conns[c].intent
    PROVE  WireInv'
<1> USE DEF Answers
<1>1. /\ DOMAIN conns' = DOMAIN conns /\ tried' = tried /\ maker' = maker
      /\ \A d \in DOMAIN conns : d # c => conns'[d] = conns[d]
      /\ "none" \notin Refusals /\ "none" \notin AppliedOutcomes
  BY DEF Refusals, AppliedOutcomes
<1>2. Booked'
  <2>1. \A d \in DOMAIN conns : conns[d].stage # "queued" => conns'[d].stage # "queued"
    BY <1>1
  <2>2. \A d \in DOMAIN conns : KeyOf[conns'[d].intent] = KeyOf[conns[d].intent]
    BY <1>1
  <2> QED BY <1>1, <2>1, <2>2 DEF WireInv, Booked, Key0
<1>3. Unanswered'
  BY <1>1 DEF WireInv, Unanswered
<1>4. InCall'
  BY DEF InCall
<1>5. KeylessOnce'
  <2>1. \A d \in DOMAIN conns : conns'[d].reply \notin Refusals => conns[d].reply \notin Refusals
    BY <1>1
  <2> QED BY <1>1, <2>1 DEF WireInv, KeylessOnce
<1>6. ASSUME NEW d \in DOMAIN conns PROVE TrueReceipt(d, conns[d].reply)'
  <2>0. \A i \in effects' : i \in DOMAIN tried /\ maker[i] \in DOMAIN conns
    <3>1. \A i \in effects' : i \in DOMAIN tried
      BY <1>1 DEF OnceInv, OnceTypeOK
    <3> QED BY <3>1 DEF WireInv, Booked
  <2>1. CASE d = c
    BY <1>1, <2>0, <2>1 DEF TrueReceipt
  <2>2. CASE d # c
    <3>1. conns'[d] = conns[d] /\ TrueReceipt(d, conns[d].reply)
      BY <1>1, <2>2 DEF WireInv
    <3> QED BY <1>1, <2>0, <2>2, <3>1 DEF TrueReceipt
  <2> QED BY <2>1, <2>2
<1> QED BY <1>1, <1>2, <1>3, <1>4, <1>5, <1>6 DEF WireInv

\* A connection made by a requester.
LEMMA RequestKeeps ==
    ASSUME WireInv, NEW x \in Intent, NEW id \in 1..MaxConns, Request(x, id)
    PROVE  WireInv'
<1> DEFINE new == [intent |-> x, id |-> id, stage |-> "queued", reply |-> "none"]
<1>0. PICK n \in Nat : n = Len(conns) + 1
  BY DEF WireInv
<1>1. /\ conns' = Append(conns, new) /\ UNCHANGED <<onceVars, maker, host>>
      /\ KeyOf[x] # NoKey \/ \A c \in DOMAIN conns : conns[c].intent = x => conns[c].reply \in Refusals
  BY DEF Request, MayRetry, MayResend
<1>2. new \in Conn /\ new.intent = x /\ new.stage = "queued" /\ new.reply = "none"
  BY DEF Conn
<1> HIDE DEF new
<1>3. /\ conns' \in Seq(Conn) /\ DOMAIN conns = 1..Len(conns) /\ Len(conns) \in Nat
      /\ DOMAIN conns' = DOMAIN conns \cup {n} /\ n \notin DOMAIN conns
      /\ conns'[n] = new /\ \A c \in DOMAIN conns : conns'[c] = conns[c]
  BY <1>0, <1>1, <1>2, AppendProperties DEF WireInv
<1>4. /\ OnceInv' /\ tried' = tried /\ maker' = maker /\ effects' = effects /\ open' = open
      /\ host' = host
  BY <1>1, OnceStutter DEF WireInv, onceVars
<1>5. Booked'
  BY <1>3, <1>4 DEF WireInv, Booked, Key0
<1>6. Unanswered'
  BY <1>2, <1>3 DEF WireInv, Unanswered
<1>7. InCall'
  <2> SUFFICES ASSUME host.pc \in {"dispatch", "settle"} PROVE InCall'
    BY <1>4 DEF InCall
  <2>1. host.attempt \in DOMAIN tried /\ maker[host.attempt] = host.conn
    BY DEF WireInv, InCall, OnceInv, OnceTypeOK
  <2>2. host.conn \in DOMAIN conns
    BY <2>1 DEF WireInv, Booked
  <2> QED BY <1>3, <1>4, <2>2 DEF WireInv, InCall
<1>8. KeylessOnce'
  <2> SUFFICES ASSUME NEW c \in DOMAIN conns', NEW d \in DOMAIN conns',
                      conns'[c].intent = conns'[d].intent, KeyOf[conns'[c].intent] = NoKey,
                      conns'[c].reply \notin Refusals, conns'[d].reply \notin Refusals
               PROVE  c = d
    BY DEF KeylessOnce
  <2>1. CASE c \in DOMAIN conns /\ d \in DOMAIN conns
    BY <1>3, <2>1 DEF WireInv, KeylessOnce
  <2>2. CASE c = n /\ d \in DOMAIN conns
    BY <1>1, <1>2, <1>3, <2>2
  <2>3. CASE c \in DOMAIN conns /\ d = n
    BY <1>1, <1>2, <1>3, <2>3
  <2> QED BY <1>3, <2>1, <2>2, <2>3
<1>9. \A c \in DOMAIN conns' : TrueReceipt(c, conns[c].reply)'
  <2>0. \A i \in effects : maker[i] \in DOMAIN conns
    BY DEF WireInv, OnceInv, OnceTypeOK, Booked
  <2>1. ASSUME NEW c \in DOMAIN conns PROVE TrueReceipt(c, conns[c].reply)'
    <3>1. TrueReceipt(c, conns[c].reply)
      BY DEF WireInv
    <3> QED BY <1>3, <1>4, <2>0, <3>1 DEF TrueReceipt
  <2>2. TrueReceipt(n, conns[n].reply)'
    BY <1>2, <1>3 DEF TrueReceipt, Refusals, AppliedOutcomes
  <2> QED BY <1>3, <2>1, <2>2
<1> QED BY <1>3, <1>4, <1>5, <1>6, <1>7, <1>8, <1>9 DEF WireInv

\* A queued request that is answered without an attempt.
LEMMA DecideKeeps ==
    ASSUME WireInv, UNCHANGED <<onceVars, maker, host>>, host.pc = "idle",
           NEW c \in DOMAIN conns, conns[c].stage = "queued",
           NEW reply \in Outcomes, Answer(c, reply),
           reply \in AppliedOutcomes => \E i \in effects : conns[maker[i]].intent = conns[c].intent
    PROVE  WireInv'
<1>1. OnceInv' /\ tried' = tried /\ effects' = effects /\ maker' = maker /\ host' = host
  BY OnceStutter DEF WireInv, onceVars
<1>2. Answers(c, reply)
  BY AnswerShape DEF WireInv
<1>3. conns[c].reply = "none"
  BY DEF WireInv, Unanswered
<1>4. \A i \in effects : maker[i] # c
  BY DEF WireInv, OnceInv, OnceTypeOK, Booked
<1> QED BY <1>1, <1>2, <1>3, <1>4, AnswerKeeps

\* What an attempt for connection c, at n, leaves: the contract, the books and the receipts.
LEMMA BeginKeeps ==
    ASSUME WireInv, NEW c \in DOMAIN conns, conns[c].stage = "queued",
           NEW n, n = NextAttempt, Begin(n, Key0(c)),
           maker' = [i \in DOMAIN tried \cup {n} |-> IF i = n THEN c ELSE maker[i]],
           conns' \in Seq(Conn), DOMAIN conns' = DOMAIN conns,
           \A d \in DOMAIN conns : conns'[d].intent = conns[d].intent,
           \A d \in DOMAIN conns \ {c} : conns'[d] = conns[d],
           conns'[c].stage # "queued",
           \/ conns'[c].reply = "none"
           \/ conns'[c].stage = "served" /\ conns'[c].reply \in Refusals,
           InCall'
    PROVE  WireInv'
<1>1. OnceInv'
  BY BeginKeepsOnce
<1>2. /\ n \notin DOMAIN tried /\ n \notin effects /\ effects' = effects
      /\ DOMAIN tried' = DOMAIN tried \cup {n} /\ tried'[n] = Key0(c)
      /\ \A i \in DOMAIN tried : tried'[i] = tried[i]
  BY DEF WireInv, OnceInv, OnceTypeOK, Begin
<1>3. /\ DOMAIN maker' = DOMAIN tried' /\ maker'[n] = c
      /\ \A i \in DOMAIN tried : maker'[i] = maker[i]
  BY <1>2
<1>4. \A d \in DOMAIN conns : Key0(d)' = Key0(d)
  BY DEF Key0
<1>5. conns[c].reply = "none" /\ \A i \in DOMAIN tried : maker[i] # c /\ maker[i] \in DOMAIN conns
  BY DEF WireInv, Unanswered, Booked
<1>6. Booked'
  <2>1. ASSUME NEW i \in DOMAIN tried'
        PROVE  /\ maker'[i] \in DOMAIN conns' /\ tried'[i] = KeyOf[conns'[maker'[i]].intent]
               /\ conns'[maker'[i]].stage # "queued"
    <3>1. CASE i = n
      BY <1>2, <1>3, <3>1 DEF Key0
    <3>2. CASE i \in DOMAIN tried
      BY <1>2, <1>3, <1>5, <3>2 DEF WireInv, Booked, Key0
    <3> QED BY <1>2, <3>1, <3>2
  <2>2. ASSUME NEW i \in DOMAIN tried', NEW j \in DOMAIN tried', maker'[i] = maker'[j] PROVE i = j
    <3>1. CASE i = n \/ j = n
      BY <1>2, <1>3, <1>5, <2>2, <3>1
    <3>2. CASE i \in DOMAIN tried /\ j \in DOMAIN tried
      BY <1>3, <2>2, <3>2 DEF WireInv, Booked
    <3> QED BY <1>2, <3>1, <3>2
  <2> QED BY <1>3, <2>1, <2>2 DEF Booked, Key0
<1>7. Unanswered'
  <2>1. ASSUME NEW d \in DOMAIN conns, conns'[d].stage # "served" PROVE conns'[d].reply = "none"
    BY <2>1 DEF WireInv, Unanswered
  <2> QED BY <2>1 DEF Unanswered
<1>8. KeylessOnce'
  <2>1. \A d \in DOMAIN conns : conns'[d].reply \notin Refusals => conns[d].reply \notin Refusals
    BY <1>5 DEF Refusals
  <2> QED BY <2>1 DEF WireInv, KeylessOnce
<1>9. ASSUME NEW d \in DOMAIN conns PROVE TrueReceipt(d, conns[d].reply)'
  <2>0. \A i \in effects : i \in DOMAIN tried /\ maker'[i] = maker[i] /\ maker[i] \in DOMAIN conns
    BY <1>3, <1>5 DEF WireInv, OnceInv, OnceTypeOK
  <2>1. CASE d = c
    <3>1. conns'[c].reply \notin AppliedOutcomes
      BY DEF AppliedOutcomes, Refusals
    <3> QED BY <1>2, <1>5, <2>0, <2>1, <3>1 DEF TrueReceipt
  <2>2. CASE d # c
    <3>1. conns'[d] = conns[d] /\ TrueReceipt(d, conns[d].reply)
      BY <2>2 DEF WireInv
    <3>2. conns'[d].reply \in Refusals => \A i \in effects' : maker'[i] # d
      BY <1>2, <2>0, <3>1 DEF TrueReceipt
    <3>3. ASSUME conns'[d].reply \in AppliedOutcomes
          PROVE  \E i \in effects' : conns'[maker'[i]].intent = conns'[d].intent
      <4>1. PICK i \in effects : conns[maker[i]].intent = conns[d].intent
        BY <3>1, <3>3 DEF TrueReceipt
      <4>2. maker'[i] = maker[i] /\ conns'[maker[i]].intent = conns[maker[i]].intent
        BY <2>0
      <4> QED BY <1>2, <3>1, <4>1, <4>2
    <3> QED BY <3>2, <3>3 DEF TrueReceipt
  <2> QED BY <2>1, <2>2
<1> QED BY <1>1, <1>6, <1>7, <1>8, <1>9 DEF WireInv

\* The attempt is logged and dispatched.
LEMMA AttemptKeeps ==
    ASSUME WireInv, NEW c \in DOMAIN conns, DecideAttempt(c)
    PROVE  WireInv'
<1>0. PICK n : n = NextAttempt
  OBVIOUS
<1>1. /\ conns[c].stage = "queued" /\ Begin(n, Key0(c))
      /\ maker' = [i \in DOMAIN tried \cup {n} |-> IF i = n THEN c ELSE maker[i]]
      /\ conns' = [conns EXCEPT ![c].stage = "deciding"]
      /\ host' = [pc |-> "dispatch", conn |-> c, attempt |-> n]
  BY <1>0 DEF DecideAttempt, Admitted
<1> DEFINE new == [conns[c] EXCEPT !.stage = "deciding"]
<1>2. conns[c] \in Conn /\ DOMAIN conns = 1..Len(conns) /\ conns \in Seq(Conn)
  BY DEF WireInv
<1>3. /\ new \in Conn /\ new.intent = conns[c].intent /\ new.stage = "deciding"
      /\ new.reply = conns[c].reply
  BY <1>2 DEF Conn
<1>4. conns' = [conns EXCEPT ![c] = new]
  BY <1>1, <1>2
<1> HIDE DEF new
<1>5. /\ conns' \in Seq(Conn) /\ DOMAIN conns' = DOMAIN conns
      /\ \A d \in DOMAIN conns \ {c} : conns'[d] = conns[d]
      /\ conns'[c] = new
  BY <1>2, <1>3, <1>4, ExceptSeq
<1>6. conns'[c].reply = "none"
  BY <1>1, <1>3, <1>5 DEF WireInv, Unanswered
<1>7. InCall'
  <2>1. open' = {n} /\ n \notin effects /\ effects' = effects
    BY <1>1 DEF Begin, WireInv, OnceInv, OnceTypeOK
  <2>2. host'.attempt = n /\ host'.conn = c /\ host'.pc = "dispatch"
    BY <1>1
  <2>3. maker'[n] = c
    BY <1>1
  <2> QED BY <1>3, <1>5, <2>1, <2>2, <2>3 DEF InCall
<1>8. \A d \in DOMAIN conns : conns'[d].intent = conns[d].intent
  BY <1>3, <1>5
<1> QED BY <1>0, <1>1, <1>3, <1>5, <1>6, <1>7, <1>8, BeginKeeps

\* The append of the attempt fails, durable or not.
LEMMA AuditFailureKeeps ==
    ASSUME WireInv, NEW c \in DOMAIN conns, DecideAuditFails(c)
    PROVE  WireInv'
<1>0. PICK n : n = NextAttempt
  OBVIOUS
<1>1. /\ host.pc = "idle" /\ conns[c].stage = "queued" /\ host' = host
      /\ Answer(c, "Runtime") /\ "Runtime" \in Outcomes /\ "Runtime" \in Refusals
      /\ "Runtime" \notin AppliedOutcomes
  BY DEF DecideAuditFails, Admitted, Outcomes, Refusals, AppliedOutcomes
<1>2. CASE UNCHANGED <<onceVars, maker>>
  BY <1>1, <1>2, DecideKeeps
<1>3. CASE /\ Begin(n, Key0(c))
           /\ maker' = [i \in DOMAIN tried \cup {n} |-> IF i = n THEN c ELSE maker[i]]
  <2>1. Answers(c, "Runtime")
    BY <1>1, AnswerShape DEF WireInv
  <2>2. InCall'
    BY <1>1 DEF InCall
  <2> QED BY <1>0, <1>1, <1>3, <2>1, <2>2, BeginKeeps DEF Answers
<1> QED BY <1>0, <1>2, <1>3 DEF DecideAuditFails

\* The executor acts, and reports or fails.
LEMMA ExecuteKeeps ==
    ASSUME WireInv, NEW applies \in BOOLEAN, NEW ok \in BOOLEAN, Execute(applies, ok)
    PROVE  WireInv'
<1>0. PICK i, c : i = host.attempt /\ c = host.conn
  OBVIOUS
<1>1. /\ host.pc = "dispatch" /\ i \in open /\ i \notin effects /\ maker[i] = c
      /\ i \in DOMAIN tried /\ c \in DOMAIN conns /\ conns[c].stage = "deciding"
      /\ conns[c].reply = "none"
  <2>1. host.pc = "dispatch"
    BY DEF Execute
  <2>2. i \in open /\ i \notin effects /\ maker[i] = c /\ conns[c].stage = "deciding"
    BY <1>0, <2>1 DEF WireInv, InCall
  <2>3. i \in DOMAIN tried
    BY <2>2 DEF WireInv, OnceInv, OnceTypeOK
  <2>4. c \in DOMAIN conns
    BY <2>2, <2>3 DEF WireInv, Booked
  <2> QED BY <2>1, <2>2, <2>3, <2>4 DEF WireInv, Unanswered
<1>2. /\ OnceInv' /\ tried' = tried /\ open' = open /\ maker' = maker
      /\ effects \subseteq effects' /\ effects' \subseteq effects \cup {i}
      /\ ok => i \in effects'
  <2>1. CASE applies
    <3>1. Apply(i)
      BY <1>0, <2>1 DEF Execute
    <3>2. OnceInv'
      BY <1>1, <3>1, ApplyPreserves DEF WireInv
    <3> QED BY <3>1, <3>2 DEF Apply, Execute
  <2>2. CASE ~applies
    BY <2>2, OnceStutter DEF Execute, WireInv, onceVars
  <2> QED BY <2>1, <2>2
<1>3. CASE ok
  <2>1. conns' = conns /\ host' = [host EXCEPT !.pc = "settle"]
    BY <1>3 DEF Execute
  <2>2. InCall'
    <3>1. host'.pc = "settle" => host'.attempt = i /\ host'.conn = c
      BY <1>0, <2>1
    <3>2. host'.pc = "settle" \/ host'.pc \notin {"dispatch", "settle"}
      BY <2>1
    <3> QED BY <1>1, <1>2, <1>3, <2>1, <3>1, <3>2 DEF InCall
  <2>3. Booked' /\ Unanswered' /\ KeylessOnce'
    BY <1>2, <2>1 DEF WireInv, Booked, Unanswered, KeylessOnce, Key0
  <2>4. ASSUME NEW d \in DOMAIN conns PROVE TrueReceipt(d, conns[d].reply)'
    <3>1. TrueReceipt(d, conns[d].reply)
      BY DEF WireInv
    <3>2. d = c => conns[d].reply \notin Refusals
      BY <1>1 DEF Refusals
    <3> QED BY <1>1, <1>2, <2>1, <3>1, <3>2 DEF TrueReceipt
  <2> QED BY <1>2, <2>1, <2>2, <2>3, <2>4 DEF WireInv
<1>4. CASE ~ok
  <2>1. host'.pc = "idle" /\ Answer(c, "Uncertain")
    BY <1>0, <1>4 DEF Execute, ReplyToExecutorError, NoJob
  <2>2. /\ "Uncertain" \in Outcomes /\ "Uncertain" \notin Refusals
        /\ "Uncertain" \notin AppliedOutcomes
    BY DEF Outcomes, Refusals, AppliedOutcomes
  <2>3. Answers(c, "Uncertain")
    BY <1>1, <2>1, <2>2, AnswerShape DEF WireInv
  <2> QED BY <1>1, <1>2, <2>1, <2>2, <2>3, AnswerKeeps
<1> QED BY <1>3, <1>4

\* The settlement is recorded or lost; the requester is told its effect applied.
LEMMA SettlementKeeps ==
    ASSUME WireInv, host.pc = "settle", NEW reply \in AppliedOutcomes, Answer(host.conn, reply),
           Close(host.attempt) \/ UNCHANGED onceVars, host' = NoJob, UNCHANGED maker
    PROVE  WireInv'
<1>0. PICK i, c : i = host.attempt /\ c = host.conn
  OBVIOUS
<1>1. i \in open /\ i \in effects /\ maker[i] = c /\ conns[c].stage = "deciding"
  BY <1>0 DEF WireInv, InCall
<1>2. i \in DOMAIN tried
  BY <1>1 DEF WireInv, OnceInv, OnceTypeOK
<1>3. c \in DOMAIN conns
  BY <1>1, <1>2 DEF WireInv, Booked
<1>4. conns[c].reply = "none"
  BY <1>1, <1>3 DEF WireInv, Unanswered
<1>5. OnceInv' /\ tried' = tried /\ effects' = effects
  <2>1. CASE Close(i)
    BY <1>1, <2>1, ClosePreserves DEF WireInv, Close
  <2>2. CASE UNCHANGED onceVars
    BY <2>2, OnceStutter DEF WireInv, onceVars
  <2> QED BY <1>0, <2>1, <2>2
<1>6. reply \in Outcomes /\ reply \notin Refusals
  BY DEF Outcomes, AppliedOutcomes, Refusals
<1>7. Answers(c, reply)
  BY <1>0, <1>3, <1>6, AnswerShape DEF WireInv
<1>8. host'.pc \notin {"dispatch", "settle"}
  BY DEF NoJob
<1> QED BY <1>1, <1>3, <1>4, <1>5, <1>6, <1>7, <1>8, AnswerKeeps

\* An operator closes an open attempt: receipts and connections are untouched.
LEMMA ReconcileKeeps ==
    ASSUME WireInv, NEW i \in open, Reconcile(i)
    PROVE  WireInv'
<1>1. host.pc = "idle" /\ host' = host /\ conns' = conns /\ maker' = maker /\ Close(i)
  BY DEF Reconcile
<1>2. OnceInv' /\ tried' = tried /\ effects' = effects
  BY <1>1, ClosePreserves DEF WireInv, Close
<1>3. InCall'
  BY <1>1 DEF InCall
<1> QED BY <1>1, <1>2, <1>3
   DEF WireInv, Booked, Unanswered, KeylessOnce, TrueReceipt, Key0

\* The host is lost with the connections it held.
LEMMA HostGoneKeeps ==
    ASSUME WireInv, HostGone
    PROVE  WireInv'
<1>1. /\ UNCHANGED <<onceVars, maker>> /\ host'.pc = "down"
      /\ conns' = [c \in DOMAIN conns |->
                     IF conns[c].stage \in {"queued", "deciding"} THEN [conns[c] EXCEPT !.stage = "lost"]
                     ELSE conns[c]]
  BY DEF HostGone, NoJob
<1>2. OnceInv' /\ tried' = tried /\ effects' = effects /\ maker' = maker
  BY <1>1, OnceStutter DEF WireInv, onceVars
<1>3. conns \in Seq(Conn) /\ DOMAIN conns = 1..Len(conns) /\ Len(conns) \in Nat
  BY DEF WireInv
<1>4. ASSUME NEW c \in DOMAIN conns
      PROVE  /\ conns'[c] \in Conn /\ conns'[c].intent = conns[c].intent
             /\ conns'[c].reply = conns[c].reply
             /\ \/ conns'[c].stage = conns[c].stage
                \/ conns'[c].stage = "lost" /\ conns[c].stage \in {"queued", "deciding"}
  <2>1. conns[c] \in Conn
    BY <1>3
  <2>2. CASE conns[c].stage \in {"queued", "deciding"}
    <3>1. conns'[c] = [conns[c] EXCEPT !.stage = "lost"]
      BY <1>1, <2>2
    <3> QED BY <2>1, <2>2, <3>1 DEF Conn
  <2>3. CASE conns[c].stage \notin {"queued", "deciding"}
    <3>1. conns'[c] = conns[c]
      BY <1>1, <2>3
    <3> QED BY <2>1, <3>1
  <2> QED BY <2>2, <2>3
<1>5. DOMAIN conns' = DOMAIN conns
  BY <1>1
<1>6. conns' \in Seq(Conn)
  <2>1. conns' \in [1..Len(conns) -> Conn]
    BY <1>1, <1>3, <1>4, <1>5
  <2> QED BY <1>3, <2>1
<1>7. Booked'
  BY <1>2, <1>4, <1>5 DEF WireInv, Booked, Key0
<1>8. Unanswered' /\ KeylessOnce' /\ InCall'
  BY <1>1, <1>4, <1>5 DEF WireInv, Unanswered, KeylessOnce, InCall
<1>9. ASSUME NEW c \in DOMAIN conns PROVE TrueReceipt(c, conns[c].reply)'
  <2>1. TrueReceipt(c, conns[c].reply) /\ \A i \in effects : maker[i] \in DOMAIN conns
    BY DEF WireInv, OnceInv, OnceTypeOK, Booked
  <2> QED BY <1>2, <1>4, <2>1 DEF TrueReceipt
<1> QED BY <1>2, <1>5, <1>6, <1>7, <1>8, <1>9 DEF WireInv

\* Steps that touch neither the contract nor a connection.
LEMMA QuietKeeps ==
    ASSUME WireInv, UNCHANGED <<onceVars, maker, conns>>,
           host' = host \/ host'.pc \notin {"dispatch", "settle"}
    PROVE  WireInv'
<1>1. OnceInv' /\ UNCHANGED <<tried, open, effects, outcome, maker, conns>>
  BY OnceStutter DEF WireInv, onceVars
<1> QED BY <1>1 DEF WireInv, Booked, Unanswered, InCall, KeylessOnce, TrueReceipt, Key0

\* A host without requests.
LEMMA WireInit == Init => WireInv
<1> SUFFICES ASSUME Init PROVE WireInv
  OBVIOUS
<1>1. OnceInv
  BY InitOnceInv DEF Init
<1>2. conns = <<>> /\ conns \in Seq(Conn) /\ DOMAIN conns = {} /\ host.pc = "idle"
  BY DEF Init, NoJob
<1>3. DOMAIN maker = {} /\ DOMAIN tried = {} /\ effects = {}
  BY DEF Init, OnceInit
<1> QED BY <1>1, <1>2, <1>3 DEF WireInv, Booked, Unanswered, InCall, KeylessOnce

\* Every step keeps the invariant.
LEMMA WireStep == WireInv /\ [Next]_vars => WireInv'
<1> SUFFICES ASSUME WireInv, [Next]_vars PROVE WireInv'
  OBVIOUS
<1>1. ASSUME NEW c \in DOMAIN conns, Decide(c) PROVE WireInv'
  <2>1. CASE DecideEarly(c) \/ DecideUnregistered(c) \/ DecideReplayed(c) \/ DecideRefused(c)
    <3>1. PICK reply \in Refusals : Answer(c, reply)
      BY <2>1 DEF DecideEarly, RefusedEarly, DecideUnregistered, DecideReplayed, DecideRefused, Refusals
    <3>2. /\ host.pc = "idle" /\ conns[c].stage = "queued" /\ UNCHANGED <<onceVars, maker, host>>
      BY <2>1 DEF DecideEarly, DecideUnregistered, DecideReplayed, DecideRefused, Admitted
    <3>3. reply \in Outcomes /\ reply \notin AppliedOutcomes
      BY <3>1 DEF Outcomes, Refusals, AppliedOutcomes
    <3> QED BY <3>1, <3>2, <3>3, DecideKeeps
  <2>2. ASSUME NEW reply \in Outcomes, DecideFromHistory(c, reply) PROVE WireInv'
    <3>1. /\ host.pc = "idle" /\ conns[c].stage = "queued" /\ UNCHANGED <<onceVars, maker, host>>
          /\ Answer(c, reply)
          /\ BoundTo(c) # {} \/ reply = "Runtime"
      BY <2>2 DEF DecideFromHistory, Admitted
    <3>2. reply \in AppliedOutcomes => \E i \in effects : conns[maker[i]].intent = conns[c].intent
      BY <3>1 DEF BoundTo, AppliedOutcomes
    <3> QED BY <3>1, <3>2, DecideKeeps
  <2> QED BY <1>1, <2>1, <2>2, AttemptKeeps, AuditFailureKeeps DEF Decide
<1>2. CASE Serve
  <2>1. ASSUME NEW reply \in AppliedOutcomes, Settle(reply) PROVE WireInv'
    BY <2>1, SettlementKeeps DEF Settle
  <2>2. CASE SettleFails
    <3>1. ReplyToLostSettlement \in AppliedOutcomes
      BY DEF ReplyToLostSettlement, AppliedOutcomes
    <3> QED BY <2>2, <3>1, SettlementKeeps DEF SettleFails
  <2> QED BY <1>1, <1>2, <2>1, <2>2, ExecuteKeeps DEF Serve
<1>3. CASE Crash \/ DropUncertain
  BY <1>3, HostGoneKeeps DEF Crash, DropUncertain
<1>4. CASE Restart \/ (\E p \in Peer : WithdrawPeer(p)) \/ UNCHANGED vars
  <2>1. UNCHANGED <<onceVars, maker, conns>> /\ (host' = host \/ host'.pc \notin {"dispatch", "settle"})
    BY <1>4 DEF Restart, WithdrawPeer, vars, NoJob
  <2> QED BY <2>1, QuietKeeps
<1> QED BY <1>2, <1>3, <1>4, RequestKeeps, ReconcileKeeps DEF Next, Recover

-----------------------------------------------------------------------------
(* Theorems *)

\* The invariant holds in every behaviour of requesters and host.
THEOREM WireInvariant == Spec => []WireInv
  BY WireInit, WireStep, PTL DEF Spec

\* An intent is applied at most once, whatever answer was lost, whatever frame was sent
\* again and however often the host was restarted (ExecutionClient::request,
\* ReplayWindow).
THEOREM IntentsApplyOnce == Spec => []IntentAppliesOnce
  BY InvOnce, WireInvariant, PTL

\* A refused request is never applied, and a request that is told its action applied is
\* told of its own (WireOutcome, refused_by_runtime).
THEOREM ReceiptsAlwaysTrue == Spec => []ReceiptsAreTrue
  BY InvReceipts, WireInvariant, PTL
=============================================================================
