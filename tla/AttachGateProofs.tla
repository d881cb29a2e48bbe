-------------------------- MODULE AttachGateProofs --------------------------
(***************************************************************************)
(* Why no query of the shell is answered twice or silenced while physical  *)
(* terminals come and go: the proof, for any number of clients and outputs *)
(* and any sizes of the journal, of a batch and of the gate.               *)
(***************************************************************************)
EXTENDS AttachGate, FiniteSetTheorems, TLAPS

\* Most leaves are left to Zenon; those that need arithmetic cite SMT.
USE Zenon

-----------------------------------------------------------------------------
Outputs == 1..MaxOutput
Gate == [owner : Hosts \cup {Nobody}, pending : BOOLEAN, start : Nat, ack : Nat, sent : Nat,
         suppressed : Nat, held : SUBSET Nat]
Stages == {"out", "capturing", "ready", "reading", "deliver", "showing", "leaving"}
Client == [pc : Stages, after : Nat, through : Nat, at : Nat]

\* Every variable has its type.
Types ==
  /\ written \in Nat /\ written <= MaxOutput
  /\ native \in [applied : Nat, replies : Seq(Nat)] /\ native.applied <= written
  /\ gate \in Gate
  /\ IsFiniteSet(gate.held) /\ Cardinality(gate.held) <= HeldCap
  /\ host \in [Hosts -> Client]
  /\ answers \in [Outputs -> Nat]
  /\ tries \in [attach : Nat, replaced : Nat]

-----------------------------------------------------------------------------
(* The inductive invariant.                                                *)

Live == gate.owner # Nobody /\ ~gate.pending

\* The gate's cursors are in order.
Cursors ==
  /\ gate.start <= written /\ gate.ack <= gate.sent /\ gate.sent <= written /\ gate.suppressed <= written
  /\ gate.owner = Nobody => gate.held = {} /\ ~gate.pending
  /\ gate.pending => gate.suppressed <= gate.start

\* Every answer of the renderer is in one place, and none that the gate has
\* given away is held.
Replies ==
  /\ \A i \in DOMAIN native.replies : /\ native.replies[i] \in 1..native.applied
                                      /\ native.replies[i] \notin gate.held
  /\ \A i, j \in DOMAIN native.replies : i # j => native.replies[i] # native.replies[j]
  /\ \A e \in gate.held : e \in 1..native.applied /\ e > gate.suppressed

\* The renderer may still answer e.
Awaited(e) == \/ e > native.applied
              \/ e \in gate.held
              \/ \E i \in DOMAIN native.replies : native.replies[i] = e

\* An output that was shown, and whose client said so or may still do so, is
\* answered by that client alone: the gate has suppressed the renderer's
\* answer, or holds it back until the client has acknowledged the output.
Owned ==
  \A e \in shown \ orphaned :
    /\ answers[e] = 1
    /\ e <= gate.suppressed \/ (Live /\ e > gate.ack)

\* An output that was not shown is answered by the renderer, once.
Unshown ==
  \A e \in Outputs : e \notin shown => /\ answers[e] <= 1
                                       /\ Awaited(e) => answers[e] = 0
                                       /\ Live /\ e > gate.ack => answers[e] = 0

\* What the gate has given away was shown.
GivenAway ==
  /\ shown \subseteq Outputs /\ dropped \subseteq shown
  /\ \A e \in Outputs : Awaited(e) =>
       /\ e <= gate.suppressed => e \in shown
       /\ Live /\ e <= gate.ack => e \in shown

\* A client's cursors are in order.  The attached client has shown all that
\* it may acknowledge, and shows nothing that counts as shown already.
Reached(c) == IF c.pc = "showing" THEN c.at ELSE c.after
Placed(h, c) ==
  /\ c.pc = "deliver" => c.at = c.after /\ c.after <= c.through /\ c.through <= written
  /\ c.pc = "showing" => c.after <= c.at /\ c.at <= c.through /\ c.through <= written
  /\ gate.owner = h => (gate.pending <=> c.pc = "capturing")
  /\ Valid(h) /\ c.pc # "out" =>
       /\ gate.ack <= c.after /\ c.after <= gate.sent
       /\ c.pc = "showing" => c.through <= gate.sent
       /\ \A e \in Outputs : gate.ack < e /\ e <= Reached(c) => e \in shown
       /\ c.pc # "leaving" => \A e \in shown \ orphaned : e > gate.ack => e <= Reached(c)
Clients == \A h \in Hosts : Placed(h, host[h])

AInv == Types /\ Cursors /\ Replies /\ Owned /\ Unshown /\ GivenAway /\ Clients

-----------------------------------------------------------------------------
(* What the steps do.                                                      *)

LEMMA BoundFacts ==
  MaxOutput \in Nat /\ HeldCap \in Nat /\ Retained \in Nat /\ BatchCap \in Nat /\ Nobody \notin Hosts
BY AttachAssumption

LEMMA AnsweredFacts ==
  ASSUME Types, NEW ids, answers' = Answered(ids)
  PROVE  /\ answers' \in [Outputs -> Nat]
         /\ \A e \in Outputs : answers'[e] = IF e \in ids THEN answers[e] + 1 ELSE answers[e]
<1>1. DOMAIN answers = Outputs /\ \A e \in Outputs : answers[e] \in Nat
  BY DEF Types
<1>2. /\ DOMAIN answers' = Outputs
      /\ \A e \in Outputs : answers'[e] = IF e \in ids THEN answers[e] + 1 ELSE answers[e]
  BY <1>1 DEF Answered
<1>3. answers' = [e \in Outputs |-> IF e \in ids THEN answers[e] + 1 ELSE answers[e]]
  BY <1>1 DEF Answered
<1>4. \A e \in Outputs : (IF e \in ids THEN answers[e] + 1 ELSE answers[e]) \in Nat
  BY <1>1, SMT
<1> QED BY <1>2, <1>3, <1>4

\* A part of the answers held.
LEMMA HeldFacts ==
  ASSUME Types, NEW H, H \subseteq gate.held
  PROVE  IsFiniteSet(H) /\ Cardinality(H) <= HeldCap /\ H \subseteq Nat
<1>1. IsFiniteSet(H) /\ Cardinality(H) <= Cardinality(gate.held) /\ Cardinality(gate.held) <= HeldCap
  BY FS_Subset DEF Types
<1>2. Cardinality(H) \in Nat /\ Cardinality(gate.held) \in Nat /\ HeldCap \in Nat
  BY <1>1, FS_CardinalityType, BoundFacts DEF Types
<1>3. gate.held \subseteq Nat
  BY DEF Types, Gate
<1> QED BY <1>1, <1>2, <1>3, SMT

LEMMA EndedFacts ==
  ASSUME NEW g \in Gate
  PROVE  /\ Ended(g) \in Gate /\ Ended(g).owner = Nobody /\ ~Ended(g).pending /\ Ended(g).held = {}
         /\ Ended(g).start = g.start /\ Ended(g).ack = g.ack /\ Ended(g).sent = g.sent
         /\ Ended(g).suppressed = IF g.pending \/ g.suppressed > g.ack THEN g.suppressed ELSE g.ack
<1>1. /\ DOMAIN g = {"owner", "pending", "start", "ack", "sent", "suppressed", "held"}
      /\ g.start \in Nat /\ g.ack \in Nat /\ g.sent \in Nat /\ g.suppressed \in Nat
  BY DEF Gate
<1>2. /\ Ended(g).owner = Nobody /\ Ended(g).pending = FALSE /\ Ended(g).held = {}
      /\ Ended(g).start = g.start /\ Ended(g).ack = g.ack /\ Ended(g).sent = g.sent
      /\ Ended(g).suppressed = IF g.pending \/ g.suppressed > g.ack THEN g.suppressed ELSE g.ack
  BY <1>1 DEF Ended
<1>3. Ended(g) \in Gate
  BY DEF Ended, Gate
<1> QED BY <1>2, <1>3

LEMMA AcknowledgedFacts ==
  ASSUME NEW g \in Gate, NEW n \in Nat
  PROVE  /\ acknowledged(g, n) \in Gate /\ acknowledged(g, n).owner = g.owner
         /\ acknowledged(g, n).pending = g.pending
         /\ acknowledged(g, n).held = {e \in g.held : e > n}
         /\ acknowledged(g, n).start = g.start /\ acknowledged(g, n).ack = n /\ acknowledged(g, n).sent = g.sent
         /\ acknowledged(g, n).suppressed = IF g.suppressed > n THEN g.suppressed ELSE n
BY DEF acknowledged, Gate

\* What keeps a client in its place when others move.
LEMMA PlacedKept ==
  ASSUME NEW h \in Hosts, NEW c \in Client, Placed(h, c), written \in Nat, written' \in Nat, written <= written',
         gate \in Gate, gate' \in Gate,
         gate'.owner = h => /\ gate.owner = h /\ gate'.pending = gate.pending /\ gate'.ack = gate.ack
                            /\ gate.sent <= gate'.sent /\ shown' \ orphaned' \subseteq shown \ orphaned,
         shown \subseteq shown'
  PROVE  Placed(h, c)'
<1>1. /\ c.after \in Nat /\ c.through \in Nat /\ c.at \in Nat /\ gate.ack \in Nat /\ gate.sent \in Nat
      /\ gate'.sent \in Nat
  BY DEF Client, Gate
<1>2. /\ c.pc = "deliver" => c.at = c.after /\ c.after <= c.through /\ c.through <= written'
      /\ c.pc = "showing" => c.after <= c.at /\ c.at <= c.through /\ c.through <= written'
  BY <1>1, SMT DEF Placed
<1>3. gate'.owner = h => (gate'.pending <=> c.pc = "capturing")
  BY DEF Placed
<1>4. ASSUME Valid(h)', c.pc # "out"
      PROVE  /\ gate'.ack <= c.after /\ c.after <= gate'.sent
             /\ c.pc = "showing" => c.through <= gate'.sent
             /\ \A e \in Outputs : gate'.ack < e /\ e <= Reached(c) => e \in shown'
             /\ c.pc # "leaving" => \A e \in shown' \ orphaned' : e > gate'.ack => e <= Reached(c)
  <2>1. /\ Valid(h) /\ gate'.ack = gate.ack /\ gate.sent <= gate'.sent
        /\ shown' \ orphaned' \subseteq shown \ orphaned
    BY <1>4 DEF Valid
  <2>2. /\ gate.ack <= c.after /\ c.after <= gate.sent
        /\ c.pc = "showing" => c.through <= gate.sent
        /\ \A e \in Outputs : gate.ack < e /\ e <= Reached(c) => e \in shown
        /\ c.pc # "leaving" => \A e \in shown \ orphaned : e > gate.ack => e <= Reached(c)
    BY <1>4, <2>1 DEF Placed
  <2>3. c.after <= gate'.sent /\ (c.pc = "showing" => c.through <= gate'.sent)
    BY <1>1, <2>1, <2>2, SMT
  <2> QED BY <2>1, <2>2, <2>3
<1> QED BY <1>2, <1>3, <1>4 DEF Placed, Reached

Others(S) ==
  \A h \in S : gate'.owner = h =>
    /\ gate.owner = h /\ gate'.pending = gate.pending /\ gate'.ack = gate.ack /\ gate.sent <= gate'.sent
    /\ shown' \ orphaned' \subseteq shown \ orphaned

LEMMA OthersKept ==
  ASSUME AInv, written' \in Nat, written <= written', gate' \in Gate, shown \subseteq shown',
         NEW h \in Hosts, host'[h] = host[h], Others({h})
  PROVE  Placed(h, host[h])'
<1>1. PICK c : c = host[h]
  OBVIOUS
<1>2. c \in Client /\ Placed(h, c) /\ written \in Nat /\ gate \in Gate
  BY <1>1 DEF AInv, Types, Clients
<1>3. Placed(h, c)'
  BY <1>2, PlacedKept DEF Others
<1> QED BY <1>1, <1>3 DEF Placed, Reached

LEMMA ClientsKept ==
  ASSUME AInv, written' \in Nat, written <= written', gate' \in Gate, host' = host, shown \subseteq shown', Others(Hosts)
  PROVE  Clients'
BY OthersKept DEF Clients, Others

\* One client moves.
LEMMA ClientMoves ==
  ASSUME AInv, written' = written, gate' \in Gate, shown \subseteq shown',
         NEW h \in Hosts, NEW c \in Client, host' = [host EXCEPT ![h] = c], Others(Hosts \ {h}), Placed(h, c)'
  PROVE  Clients' /\ host' \in [Hosts -> Client]
<1>1. host \in [Hosts -> Client] /\ written \in Nat
  BY DEF AInv, Types
<1>2. host' \in [Hosts -> Client] /\ host'[h] = c /\ \A k \in Hosts : k # h => host'[k] = host[k]
  BY <1>1
<1>3. Placed(h, host[h])'
  BY <1>2 DEF Placed, Reached
<1>4. ASSUME NEW k \in Hosts, k # h PROVE Placed(k, host[k])'
  <2>1. Others({k}) /\ host'[k] = host[k]
    BY <1>2, <1>4, SMT DEF Others
  <2>2. written <= written' /\ written' \in Nat
    BY <1>1, SMT
  <2> QED BY <2>1, <2>2, OthersKept
<1> QED BY <1>2, <1>3, <1>4 DEF Clients

\* The clients have no part in the rest of the invariant.
LEMMA HostFrame ==
  ASSUME AInv, UNCHANGED <<written, native, gate, answers, shown, dropped, orphaned>>,
         tries' \in [attach : Nat, replaced : Nat],
         NEW h \in Hosts, NEW c \in Client, host' = [host EXCEPT ![h] = c], Placed(h, c)
  PROVE  AInv'
<1>1. gate' \in Gate /\ gate.sent <= gate.sent
  BY SMT DEF AInv, Types, Gate
<1>2. Others(Hosts \ {h}) /\ Placed(h, c)'
  BY <1>1 DEF Others, Placed, Valid, Reached
<1>3. Clients' /\ host' \in [Hosts -> Client]
  BY <1>1, <1>2, ClientMoves
<1>4. Types'
  BY <1>3 DEF AInv, Types
<1>5. Cursors' /\ Replies' /\ Owned' /\ Unshown' /\ GivenAway'
  BY DEF AInv, Cursors, Replies, Owned, Unshown, GivenAway, Live, Awaited
<1> QED BY <1>3, <1>4, <1>5 DEF AInv

\* The renderer and the answers on their way.
LEMMA NativeFrame ==
  ASSUME AInv, UNCHANGED <<written, host, answers, shown, orphaned>>, dropped' \subseteq shown, Types', Cursors', Replies',
         gate'.owner = gate.owner, gate'.pending = gate.pending, gate'.ack = gate.ack, gate'.sent = gate.sent,
         gate'.suppressed = gate.suppressed,
         \A e \in Outputs : Awaited(e)' => Awaited(e)
  PROVE  AInv'
<1>1. gate' \in Gate /\ written' \in Nat /\ written <= written' /\ gate.sent <= gate'.sent
  BY SMT DEF AInv, Types, Gate
<1>2. Others(Hosts)
  BY <1>1 DEF Others
<1>3. Clients'
  BY <1>1, <1>2, ClientsKept
<1>4. Owned'
  BY DEF AInv, Owned, Live
<1>5. Unshown'
  BY DEF AInv, Unshown, Live
<1>6. GivenAway'
  BY DEF AInv, GivenAway, Live
<1> QED BY <1>3, <1>4, <1>5, <1>6 DEF AInv

-----------------------------------------------------------------------------
(* The shell and the renderer.                                             *)

LEMMA OfShellWrites ==
  ASSUME AInv, ShellWrites
  PROVE  AInv'
<1>1. /\ written \in Nat /\ written' = written + 1 /\ written < MaxOutput /\ MaxOutput \in Nat
      /\ UNCHANGED <<native, gate, host, answers, shown, dropped, orphaned, tries>>
  BY BoundFacts DEF ShellWrites, AInv, Types
<1>2. /\ native.applied \in Nat /\ gate.start \in Nat /\ gate.sent \in Nat /\ gate.suppressed \in Nat
      /\ native.applied <= written
  BY DEF AInv, Types, Gate
<1>3. written' \in Nat /\ written' <= MaxOutput /\ written <= written' /\ native.applied <= written'
  BY <1>1, <1>2, SMT
<1>4. Types'
  BY <1>1, <1>3 DEF AInv, Types
<1>5. /\ gate.start <= written /\ gate.sent <= written /\ gate.suppressed <= written
  BY DEF AInv, Cursors
<1>6. /\ gate.start <= written' /\ gate.sent <= written' /\ gate.suppressed <= written' /\ gate.sent <= gate.sent
  BY <1>1, <1>2, <1>5, SMT
<1>7. Cursors'
  BY <1>1, <1>6 DEF AInv, Cursors
<1>8. Replies' /\ Owned' /\ Unshown' /\ GivenAway'
  BY <1>1 DEF AInv, Replies, Owned, Unshown, GivenAway, Live, Awaited
<1>9. Others(Hosts) /\ gate' \in Gate
  BY <1>1, <1>6 DEF Others, AInv, Types
<1>10. Clients'
  BY <1>1, <1>3, <1>9, ClientsKept
<1> QED BY <1>4, <1>7, <1>8, <1>10 DEF AInv

LEMMA OfNativeApplies ==
  ASSUME AInv, NativeApplies
  PROVE  AInv'
<1> DEFINE n == native.applied + 1
<1>1. /\ native.applied < written /\ native'.applied = n /\ native'.replies = Append(native.replies, n)
      /\ native' = [applied |-> n, replies |-> Append(native.replies, n)]
      /\ UNCHANGED <<written, gate, host, answers, shown, dropped, orphaned, tries>>
  BY DEF NativeApplies
<1>2. native.applied \in Nat /\ native.replies \in Seq(Nat) /\ written \in Nat
  BY DEF AInv, Types
<1>3. n \in Nat /\ n <= written /\ native.applied < n
  BY <1>1, <1>2, SMT
<1>4. /\ Append(native.replies, n) \in Seq(Nat) /\ DOMAIN native.replies = 1..Len(native.replies)
      /\ DOMAIN native'.replies = 1..Len(native.replies) + 1 /\ Len(native.replies) \in Nat
      /\ \A i \in 1..Len(native.replies) : native'.replies[i] = native.replies[i]
      /\ native'.replies[Len(native.replies) + 1] = n
  BY <1>1, <1>2, <1>3, SMT
<1>5. \A i \in DOMAIN native'.replies :
        \/ i \in DOMAIN native.replies /\ native'.replies[i] = native.replies[i]
        \/ i = Len(native.replies) + 1 /\ native'.replies[i] = n
  BY <1>4, SMT
<1>6. Types' /\ Cursors'
  BY <1>1, <1>3, <1>4 DEF AInv, Types, Cursors
<1>7. /\ \A i \in DOMAIN native.replies : native.replies[i] \in 1..native.applied /\ native.replies[i] \notin gate.held
      /\ \A i, j \in DOMAIN native.replies : i # j => native.replies[i] # native.replies[j]
      /\ \A e \in gate.held : e \in 1..native.applied /\ e > gate.suppressed
  BY DEF AInv, Replies
<1>8. n \in 1..n /\ n \notin 1..native.applied /\ \A e \in 1..native.applied : e \in 1..n
  BY <1>2, SMT
<1> HIDE DEF n
<1>9. Replies'
  <2>1. /\ \A i \in DOMAIN native'.replies : native'.replies[i] \in 1..n /\ native'.replies[i] \notin gate.held
        /\ \A e \in gate.held : e \in 1..n /\ e > gate.suppressed
    BY <1>5, <1>7, <1>8
  <2>2. \A i, j \in DOMAIN native'.replies : i # j => native'.replies[i] # native'.replies[j]
    BY <1>5, <1>7, <1>8
  <2> QED BY <1>1, <2>1, <2>2 DEF Replies
<1>10. \A e \in Outputs : Awaited(e)' => Awaited(e)
  <2>1. \A e \in Outputs : e > n => e > native.applied
    BY <1>2, <1>3, SMT DEF Outputs
  <2>2. n > native.applied
    BY <1>2, <1>3, SMT
  <2> QED BY <1>1, <1>5, <2>1, <2>2 DEF Awaited
<1>11. dropped' \subseteq shown
  BY <1>1 DEF AInv, GivenAway
<1> QED BY <1>1, <1>6, <1>9, <1>10, <1>11, NativeFrame

LEMMA OfNativeReplaced ==
  ASSUME AInv, NativeReplaced
  PROVE  AInv'
<1>1. /\ native' = [applied |-> written, replies |-> <<>>] /\ tries' = [tries EXCEPT !.replaced = @ + 1]
      /\ UNCHANGED <<written, gate, host, answers, shown, dropped, orphaned>>
  BY DEF NativeReplaced
<1>2. <<>> \in Seq(Nat) /\ DOMAIN <<>> = {} /\ written \in Nat /\ written <= written
  BY SMT DEF AInv, Types
<1>3. tries' \in [attach : Nat, replaced : Nat]
  <2>1. tries \in [attach : Nat, replaced : Nat] /\ tries.replaced + 1 \in Nat
    BY SMT DEF AInv, Types
  <2> QED BY <1>1, <2>1
<1>4. Types' /\ Cursors'
  BY <1>1, <1>2, <1>3 DEF AInv, Types, Cursors
<1>5. native.applied \in Nat /\ native.applied <= written /\ written \in Nat
  BY DEF AInv, Types
<1>6. Replies'
  <2>1. \A e \in 1..native.applied : e \in 1..written
    BY <1>5, SMT
  <2> QED BY <1>1, <1>2, <2>1 DEF AInv, Replies
<1>7. \A e \in Outputs : Awaited(e)' => Awaited(e)
  <2>1. \A e \in Outputs : e > written => e > native.applied
    BY <1>5, SMT DEF Outputs
  <2> QED BY <1>1, <1>2, <2>1 DEF Awaited
<1>8. dropped' \subseteq shown
  BY <1>1 DEF AInv, GivenAway
<1> QED BY <1>1, <1>4, <1>6, <1>7, <1>8, NativeFrame

-----------------------------------------------------------------------------
(* An attachment ends: what was acknowledged up to k is the host's, the    *)
(* rest of what is held, and X, is the renderer's.                         *)

Closes(k, X) ==
  /\ gate' \in Gate /\ gate'.owner = Nobody /\ ~gate'.pending /\ gate'.held = {}
  /\ gate'.start = gate.start /\ gate'.ack = k /\ gate'.sent = gate.sent
  /\ gate'.suppressed = IF gate.pending \/ gate.suppressed > k THEN gate.suppressed ELSE k
  /\ orphaned' = orphaned \cup (IF gate.pending THEN {} ELSE {e \in shown : e > k})
  /\ answers' = Answered({e \in gate.held : gate.pending \/ e > k} \cup X)

LEMMA CloseStep ==
  ASSUME AInv, NEW k, NEW X, Closes(k, X), k \in Nat, gate.owner # Nobody,
         UNCHANGED <<written, shown, tries>>, native' \in [applied : Nat, replies : Seq(Nat)],
         host' \in [Hosts -> Client],
         native'.applied = native.applied,
         \A i \in DOMAIN native'.replies : \E j \in DOMAIN native.replies : native'.replies[i] = native.replies[j],
         \A i, j \in DOMAIN native'.replies : i # j => native'.replies[i] # native'.replies[j],
         \A x \in X : /\ x \in 1..native.applied /\ x > gate.suppressed /\ (gate.pending \/ x > k)
                      /\ \E i \in DOMAIN native.replies : native.replies[i] = x
                      /\ \A i \in DOMAIN native'.replies : native'.replies[i] # x,
         gate.ack <= k /\ k <= gate.sent,
         ~gate.pending => \A e \in Outputs : gate.ack < e /\ e <= k => e \in shown,
         dropped' \subseteq dropped \cup {e \in gate.held : ~gate.pending /\ e <= k}
  PROVE  Types' /\ Cursors' /\ Replies' /\ Owned' /\ Unshown' /\ GivenAway'
<1> DEFINE Ids == {e \in gate.held : gate.pending \/ e > k} \cup X
<1>1. /\ native.applied \in Nat /\ native.applied <= written /\ written \in Nat /\ written <= MaxOutput /\ MaxOutput \in Nat
      /\ gate.ack \in Nat /\ gate.suppressed \in Nat /\ gate.sent \in Nat /\ gate.start \in Nat /\ gate.pending \in BOOLEAN
      /\ native.replies \in Seq(Nat)
  BY BoundFacts DEF AInv, Types, Gate
<1>2. /\ gate.held \subseteq 1..native.applied /\ \A e \in gate.held : e > gate.suppressed
      /\ \A i \in DOMAIN native.replies : native.replies[i] \in 1..native.applied /\ native.replies[i] \notin gate.held
  BY DEF AInv, Replies
<1>3. 1..native.applied \subseteq Outputs /\ \A e \in 1..native.applied : ~(e > native.applied)
  BY <1>1, SMT DEF Outputs
<1>4. /\ answers' \in [Outputs -> Nat]
      /\ \A e \in Outputs : answers'[e] = IF e \in Ids THEN answers[e] + 1 ELSE answers[e]
  BY AnsweredFacts DEF Closes, AInv
<1>5. \A e \in Ids : /\ e \in 1..native.applied /\ e \in Outputs /\ e > gate.suppressed /\ (gate.pending \/ e > k)
                     /\ Awaited(e)
  BY <1>2, <1>3 DEF Awaited
<1>6. \A e \in Outputs : Awaited(e)' => Awaited(e) /\ e \notin Ids
  BY <1>2, <1>3, SMT DEF Awaited, Closes
<1> HIDE DEF Ids
<1>7. Types'
  <2>1. IsFiniteSet({}) /\ Cardinality({}) = 0 /\ 0 <= HeldCap
    BY FS_EmptySet, BoundFacts, SMT
  <2> QED BY <1>1, <1>4, <2>1 DEF Types, AInv, Closes
<1>8. Cursors'
  <2>1. gate.start <= written /\ gate.sent <= written /\ gate.suppressed <= written
    BY DEF AInv, Cursors
  <2>2. k <= written
    BY <1>1, <2>1, SMT
  <2> QED BY <2>1, <2>2 DEF Cursors, Closes
<1>9. Replies'
  <2>1. gate'.held = {}
    BY DEF Closes
  <2>2. \A i \in DOMAIN native'.replies : native'.replies[i] \in 1..native'.applied
    BY <1>2, SMT
  <2> QED BY <2>1, <2>2 DEF Replies
<1>10. Owned'
  <2> SUFFICES ASSUME NEW e \in shown \ orphaned' PROVE answers'[e] = 1 /\ e <= gate'.suppressed
    BY DEF Owned
  <2>1. e \in shown \ orphaned /\ e \in Outputs /\ e \in Nat
    BY SMT DEF Closes, AInv, GivenAway, Outputs
  <2>2. answers[e] = 1 /\ (e <= gate.suppressed \/ (Live /\ e > gate.ack))
    BY <2>1 DEF AInv, Owned
  <2>3. CASE gate.pending
    <3>1. e <= gate.suppressed /\ ~(e > gate.suppressed)
      BY <1>1, <2>1, <2>2, <2>3, SMT DEF Live
    <3>2. gate'.suppressed = gate.suppressed
      BY <2>3 DEF Closes
    <3>3. e \notin Ids
      BY <1>5, <3>1
    <3> QED BY <1>4, <2>1, <2>2, <3>1, <3>2, <3>3
  <2>4. CASE ~gate.pending
    <3>1. ~(e > k)
      BY <2>1, <2>4 DEF Closes
    <3>2. e <= gate'.suppressed
      <4>1. gate'.suppressed = IF gate.suppressed > k THEN gate.suppressed ELSE k
        BY <2>4 DEF Closes
      <4> QED BY <1>1, <2>1, <3>1, <4>1, SMT
    <3> QED BY <1>4, <1>5, <2>1, <2>2, <2>4, <3>1, <3>2
  <2> QED BY <2>3, <2>4
<1>11. Unshown'
  <2> SUFFICES ASSUME NEW e \in Outputs, e \notin shown
               PROVE  answers'[e] <= 1 /\ (Awaited(e)' => answers'[e] = 0)
    BY DEF Unshown, Live, Closes
  <2>1. answers[e] <= 1 /\ (Awaited(e) => answers[e] = 0) /\ answers[e] \in Nat
    BY DEF AInv, Unshown, Types
  <2>2. e \in Ids => answers[e] = 0
    BY <1>5, <2>1
  <2>3. answers'[e] = IF e \in Ids THEN answers[e] + 1 ELSE answers[e]
    BY <1>4
  <2>4. answers'[e] <= 1
    BY <2>1, <2>2, <2>3, SMT
  <2> QED BY <1>6, <2>1, <2>3, <2>4
<1>12. GivenAway'
  <2>1. ASSUME NEW e \in Outputs, Awaited(e), ~gate.pending, e <= k PROVE e \in shown
    <3>1. e <= gate.ack \/ gate.ack < e
      BY <1>1, SMT DEF Outputs
    <3> QED BY <2>1, <3>1 DEF AInv, GivenAway, Live
  <2>2. dropped' \subseteq shown /\ shown \subseteq Outputs
    BY <1>2, <1>3, <2>1 DEF AInv, GivenAway, Awaited
  <2>3. ASSUME NEW e \in Outputs, Awaited(e)', e <= gate'.suppressed PROVE e \in shown
    <3>1. Awaited(e)
      BY <1>6, <2>3
    <3>2. e <= gate.suppressed \/ (~gate.pending /\ e <= k)
      BY <2>3 DEF Closes
    <3> QED BY <2>1, <3>1, <3>2 DEF AInv, GivenAway
  <2> QED BY <2>2, <2>3 DEF GivenAway, Live, Closes
<1> QED BY <1>7, <1>8, <1>9, <1>10, <1>11, <1>12

LEMMA ClosedClients ==
  ASSUME AInv, gate' \in Gate, gate'.owner = Nobody
  PROVE  /\ Others(Hosts) /\ \A h \in Hosts : Others(Hosts \ {h})
         /\ \A h \in Hosts : gate'.owner # h /\ ~Valid(h)'
BY BoundFacts DEF Others, Valid

LEMMA EndCloses ==
  ASSUME AInv, End, NEW X, answers' = Answered(Restored(gate) \cup X)
  PROVE  Closes(gate.ack, X) /\ gate' \in Gate /\ gate'.owner = Nobody
<1>1. gate \in Gate /\ gate' = Ended(gate)
  BY DEF AInv, Types, End
<1>2. /\ gate' \in Gate /\ gate'.owner = Nobody /\ ~gate'.pending /\ gate'.held = {}
      /\ gate'.start = gate.start /\ gate'.ack = gate.ack /\ gate'.sent = gate.sent
      /\ gate'.suppressed = IF gate.pending \/ gate.suppressed > gate.ack THEN gate.suppressed ELSE gate.ack
  BY <1>1, EndedFacts
<1> QED BY <1>2 DEF Closes, End, Restored

LEMMA EndStep ==
  ASSUME AInv, End, answers' = Answered(Restored(gate)), gate.owner # Nobody,
         UNCHANGED <<written, native, shown, dropped, tries>>, host' \in [Hosts -> Client]
  PROVE  Types' /\ Cursors' /\ Replies' /\ Owned' /\ Unshown' /\ GivenAway'
<1>1. PICK k : k = gate.ack
  OBVIOUS
<1>2. Closes(k, {})
  <2>1. Restored(gate) = Restored(gate) \cup {}
    OBVIOUS
  <2> QED BY <1>1, <2>1, EndCloses
<1>3. k \in Nat /\ gate.ack <= k /\ k <= gate.sent
  <2>1. gate.ack \in Nat /\ gate.ack <= gate.sent
    BY DEF AInv, Types, Gate, Cursors
  <2> QED BY <1>1, <2>1, SMT
<1>4. \A e \in Outputs : gate.ack < e /\ e <= k => e \in shown
  <2>1. \A e \in Outputs : ~(gate.ack < e /\ e <= k)
    BY <1>1, <1>3, SMT DEF Outputs
  <2> QED BY <2>1
<1>5. native' \in [applied : Nat, replies : Seq(Nat)]
  BY DEF AInv, Types
<1>6. \A i, j \in DOMAIN native'.replies : i # j => native'.replies[i] # native'.replies[j]
  BY DEF AInv, Replies
<1>7. dropped' \subseteq dropped \cup {e \in gate.held : ~gate.pending /\ e <= k}
  OBVIOUS
<1>8. \A i \in DOMAIN native'.replies : \E j \in DOMAIN native.replies : native'.replies[i] = native.replies[j]
  OBVIOUS
<1> QED BY <1>2, <1>3, <1>4, <1>5, <1>6, <1>7, <1>8, CloseStep, SMT

LEMMA OfWatch ==
  ASSUME AInv, watchRawAttachment
  PROVE  AInv'
<1>1. /\ gate.owner # Nobody /\ End /\ answers' = Answered(Restored(gate))
      /\ UNCHANGED <<written, native, host, shown, dropped, tries>>
  BY DEF watchRawAttachment
<1>2. host' \in [Hosts -> Client] /\ written' \in Nat /\ written <= written'
  BY <1>1, SMT DEF AInv, Types
<1>3. Types' /\ Cursors' /\ Replies' /\ Owned' /\ Unshown' /\ GivenAway'
  BY <1>1, <1>2, EndStep
<1>4. gate' \in Gate /\ gate'.owner = Nobody
  <2>1. Restored(gate) = Restored(gate) \cup {}
    OBVIOUS
  <2> QED BY <1>1, <2>1, EndCloses
<1>5. Clients'
  BY <1>1, <1>2, <1>4, ClosedClients, ClientsKept
<1> QED BY <1>3, <1>5 DEF AInv

\* A client loses its attachment, or leaves it, and stands at c.
LEMMA ClientEnds ==
  ASSUME AInv, End, answers' = Answered(Restored(gate)), NEW h \in Hosts, gate.owner = h,
         UNCHANGED <<written, native, shown, dropped, tries>>,
         NEW c \in Client, host' = [host EXCEPT ![h] = c], c.pc \notin {"deliver", "showing"}
  PROVE  AInv'
<1>1. gate' \in Gate /\ gate'.owner = Nobody
  <2>1. Restored(gate) = Restored(gate) \cup {}
    OBVIOUS
  <2> QED BY <2>1, EndCloses
<1>2. Placed(h, c)' /\ Others(Hosts \ {h})
  BY <1>1, ClosedClients DEF Placed
<1>3. Clients' /\ host' \in [Hosts -> Client]
  BY <1>1, <1>2, ClientMoves
<1>4. gate.owner # Nobody
  BY BoundFacts
<1>5. Types' /\ Cursors' /\ Replies' /\ Owned' /\ Unshown' /\ GivenAway'
  BY <1>3, <1>4, EndStep
<1> QED BY <1>3, <1>5 DEF AInv

LEMMA NotAttachedFacts ==
  /\ NotAttached \in Client /\ NotAttached.pc = "out"
  /\ \A a \in Nat : LET c == [NotAttached EXCEPT !.pc = "leaving", !.after = a]
                    IN c \in Client /\ c.pc = "leaving" /\ c.after = a
  /\ LET c == [NotAttached EXCEPT !.pc = "capturing"] IN c \in Client /\ c.pc = "capturing"
<1>1. NotAttached \in Client /\ NotAttached.pc = "out"
  BY SMT DEF NotAttached, Client, Stages
<1>2. ASSUME NEW a \in Nat
      PROVE  LET c == [NotAttached EXCEPT !.pc = "leaving", !.after = a]
             IN c \in Client /\ c.pc = "leaving" /\ c.after = a
  <2> DEFINE c == [NotAttached EXCEPT !.pc = "leaving", !.after = a]
  <2>1. "leaving" \in Stages /\ DOMAIN NotAttached = {"pc", "after", "through", "at"}
    BY SMT DEF Stages, NotAttached
  <2>2. c \in Client
    BY <1>1, <2>1 DEF Client
  <2>3. c.pc = "leaving"
    BY <2>1
  <2>4. c.after = a
    BY <2>1
  <2> QED BY <2>2, <2>3, <2>4
<1>4. [NotAttached EXCEPT !.pc = "capturing"] = [pc |-> "capturing", after |-> 0, through |-> 0, at |-> 0]
  BY SMT DEF NotAttached
<1>5. [pc |-> "capturing", after |-> 0, through |-> 0, at |-> 0] \in Client
  BY SMT DEF Client, Stages
<1> QED BY <1>1, <1>2, <1>4, <1>5

\* A client that is not capturing may go at any time.
LEMMA PlacedOut ==
  ASSUME AInv, NEW h \in Hosts, gate.owner = h => host[h].pc # "capturing"
  PROVE  Placed(h, NotAttached)
BY NotAttachedFacts DEF AInv, Clients, Placed

LEMMA OfCaptureRefused ==
  ASSUME AInv, NEW h \in Hosts, CaptureRefused(h)
  PROVE  AInv'
<1>1. host' = [host EXCEPT ![h] = NotAttached] /\ UNCHANGED <<written, native, shown, dropped, tries>>
  BY DEF CaptureRefused
<1>2. CASE gate.owner = h
  <2>1. End /\ answers' = Answered(Restored(gate))
    BY <1>2 DEF CaptureRefused
  <2> QED BY <1>1, <1>2, <2>1, ClientEnds, NotAttachedFacts
<1>3. CASE gate.owner # h
  <2>1. UNCHANGED <<gate, answers, orphaned>> /\ Placed(h, NotAttached)
    BY <1>3, PlacedOut DEF CaptureRefused
  <2>2. tries' \in [attach : Nat, replaced : Nat]
    BY <1>1 DEF AInv, Types
  <2> QED BY <1>1, <2>1, <2>2, HostFrame, NotAttachedFacts
<1> QED BY <1>2, <1>3

LEMMA OfHostDies ==
  ASSUME AInv, NEW h \in Hosts, HostDies(h)
  PROVE  AInv'
<1>1. /\ host' = [host EXCEPT ![h] = NotAttached] /\ host[h].pc # "capturing"
      /\ UNCHANGED <<written, native, gate, answers, shown, dropped, orphaned, tries>>
  BY DEF HostDies
<1>2. tries' \in [attach : Nat, replaced : Nat]
  BY <1>1 DEF AInv, Types
<1> QED BY <1>1, <1>2, PlacedOut, HostFrame, NotAttachedFacts

-----------------------------------------------------------------------------
(* The answers of the renderer arrive.                                     *)

LEMMA TailFacts ==
  ASSUME AInv, native.replies # <<>>, native' = [native EXCEPT !.replies = Tail(@)]
  PROVE  /\ native' \in [applied : Nat, replies : Seq(Nat)] /\ native'.applied = native.applied
         /\ \A i \in DOMAIN native'.replies : \E j \in DOMAIN native.replies : native'.replies[i] = native.replies[j]
         /\ \A i, j \in DOMAIN native'.replies : i # j => native'.replies[i] # native'.replies[j]
         /\ \E i \in DOMAIN native.replies : native.replies[i] = Head(native.replies)
         /\ \A i \in DOMAIN native'.replies : native'.replies[i] # Head(native.replies)
<1>1. native \in [applied : Nat, replies : Seq(Nat)]
  BY DEF AInv, Types
<1>2. native' \in [applied : Nat, replies : Seq(Nat)] /\ native'.applied = native.applied
      /\ native'.replies = Tail(native.replies)
  <2>1. native.replies \in Seq(Nat) /\ native.applied \in Nat
    BY <1>1
  <2>2. Tail(native.replies) \in Seq(Nat)
    BY <2>1, SMT
  <2> QED BY <1>1, <2>1, <2>2
<1> DEFINE r == native.replies
           next(i) == i + 1
<1>3. /\ 1 \in DOMAIN r /\ Head(r) = r[1]
      /\ \A i \in DOMAIN native'.replies : next(i) \in DOMAIN r /\ native'.replies[i] = r[next(i)] /\ next(i) # 1
      /\ \A i, j \in DOMAIN native'.replies : i # j => next(i) # next(j)
  <2>1. r \in Seq(Nat) /\ r # <<>>
    BY <1>1
  <2>2. Len(r) \in Nat \ {0} /\ DOMAIN r = 1..Len(r) /\ Head(r) = r[1]
    BY <2>1, SMT
  <2>3. /\ DOMAIN native'.replies = 1..(Len(r) - 1)
        /\ \A i \in 1..(Len(r) - 1) : native'.replies[i] = r[i + 1]
    BY <1>2, <2>1, <2>2, SMT
  <2> QED BY <2>2, <2>3, SMT
<1>4. \A i, j \in DOMAIN r : i # j => r[i] # r[j]
  BY DEF AInv, Replies
<1> HIDE DEF next
<1> QED BY <1>2, <1>3, <1>4, SMT

LEMMA EffectFacts ==
  ASSUME AInv, effect
  PROVE  \E e \in Outputs :
           /\ e \in 1..native.applied /\ e \notin gate.held /\ Awaited(e) /\ e = Head(native.replies)
           /\ \A i \in DOMAIN native'.replies : native'.replies[i] # e
           /\ \A x \in Outputs : Awaited(x)' => Awaited(x) \/ x \in gate'.held
<1>1. native.replies # <<>> /\ native' = [native EXCEPT !.replies = Tail(@)]
  BY DEF effect
<1>2. Head(native.replies) \in 1..native.applied /\ Head(native.replies) \notin gate.held
  BY <1>1, TailFacts DEF AInv, Replies
<1>3. 1..native.applied \subseteq Outputs
  <2>1. native.applied \in Nat /\ written \in Nat /\ native.applied <= written /\ written <= MaxOutput /\ MaxOutput \in Nat
    BY BoundFacts DEF AInv, Types
  <2> QED BY <2>1, SMT DEF Outputs
<1> QED BY <1>1, <1>2, <1>3, TailFacts, SMT DEF Awaited

\* What does not touch the gate's cursors and takes one answer off the way.
LEMMA TailReplies ==
  ASSUME AInv, effect, gate'.held = gate.held, gate'.suppressed = gate.suppressed
  PROVE  Replies'
<1>1. native.replies # <<>> /\ native' = [native EXCEPT !.replies = Tail(@)]
  BY DEF effect
<1>2. /\ native'.applied = native.applied
      /\ \A i \in DOMAIN native'.replies : \E j \in DOMAIN native.replies : native'.replies[i] = native.replies[j]
      /\ \A i, j \in DOMAIN native'.replies : i # j => native'.replies[i] # native'.replies[j]
  BY <1>1, TailFacts
<1> QED BY <1>2 DEF AInv, Replies

LEMMA OfDiscard ==
  ASSUME AInv, effect, NEW e \in Outputs, e = Head(native.replies), Discarded(e), Awaited(e),
         dropped' = dropped \cup {e}, UNCHANGED <<gate, answers, orphaned>>
  PROVE  AInv'
<1>1. e \in shown
  BY DEF AInv, GivenAway, Discarded, Mine, Live
<1>2. dropped' \subseteq shown /\ UNCHANGED <<written, host, shown, tries>>
  BY <1>1 DEF AInv, GivenAway, effect
<1>3. native.replies # <<>> /\ native' = [native EXCEPT !.replies = Tail(@)]
  BY DEF effect
<1>4. native' \in [applied : Nat, replies : Seq(Nat)] /\ native'.applied = native.applied
  BY <1>3, TailFacts
<1>5. Types' /\ Cursors'
  BY <1>2, <1>4 DEF AInv, Types, Cursors
<1>6. \A x \in Outputs : Awaited(x)' => Awaited(x)
  BY EffectFacts DEF Awaited
<1> QED BY <1>2, <1>5, <1>6, TailReplies, NativeFrame

LEMMA OfMine ==
  ASSUME AInv, effect, NEW e \in Outputs, e = Head(native.replies), ~Discarded(e), Mine(e), Awaited(e),
         ~Awaited(e)', answers' = Answered({e}), UNCHANGED <<gate, dropped, orphaned>>
  PROVE  AInv'
<1>1. UNCHANGED <<written, host, shown, tries>> /\ native.replies # <<>> /\ native' = [native EXCEPT !.replies = Tail(@)]
  BY DEF effect
<1>2. native' \in [applied : Nat, replies : Seq(Nat)] /\ native'.applied = native.applied
  BY <1>1, TailFacts
<1>3. /\ answers' \in [Outputs -> Nat]
      /\ \A x \in Outputs : answers'[x] = IF x \in {e} THEN answers[x] + 1 ELSE answers[x]
  BY AnsweredFacts DEF AInv
<1>4. Types' /\ Cursors'
  BY <1>1, <1>2, <1>3 DEF AInv, Types, Cursors
<1>5. ~Live /\ ~(e <= gate.suppressed)
  BY DEF Mine, Live, Discarded
<1>6. Owned'
  BY <1>1, <1>3, <1>5 DEF AInv, Owned, Live, GivenAway
<1>7. \A x \in Outputs : Awaited(x)' => Awaited(x)
  BY EffectFacts DEF Awaited
<1>8. Unshown'
  <2> SUFFICES ASSUME NEW x \in Outputs, x \notin shown
               PROVE  answers'[x] <= 1 /\ (Awaited(x)' => answers'[x] = 0)
    BY <1>1, <1>5 DEF Unshown, Live
  <2>1. CASE x = e
    <3>1. answers[x] = 0 /\ answers'[x] = answers[x] + 1
      BY <1>3, <2>1 DEF AInv, Unshown
    <3>2. answers'[x] <= 1
      BY <3>1, SMT
    <3> QED BY <2>1, <3>2
  <2>2. CASE x # e
    BY <1>3, <1>7, <2>2 DEF AInv, Unshown
  <2> QED BY <2>1, <2>2
<1>9. GivenAway'
  BY <1>1, <1>7 DEF AInv, GivenAway, Live
<1>10. Clients'
  <2>1. gate' \in Gate /\ written' \in Nat /\ written <= written' /\ gate.sent <= gate'.sent
    BY <1>1, SMT DEF AInv, Types, Gate
  <2> QED BY <1>1, <2>1, ClientsKept DEF Others
<1> QED BY <1>4, <1>6, <1>8, <1>9, <1>10, TailReplies DEF AInv

LEMMA OfHold ==
  ASSUME AInv, effect, NEW e \in Outputs, e = Head(native.replies), ~Discarded(e), ~Mine(e), Awaited(e),
         e \in 1..native.applied, \A i \in DOMAIN native'.replies : native'.replies[i] # e,
         Cardinality(gate.held) < HeldCap, gate' = [gate EXCEPT !.held = @ \cup {e}],
         UNCHANGED <<answers, dropped, orphaned>>
  PROVE  AInv'
<1>1. UNCHANGED <<written, host, shown, tries>> /\ native.replies # <<>> /\ native' = [native EXCEPT !.replies = Tail(@)]
  BY DEF effect
<1>2. /\ native' \in [applied : Nat, replies : Seq(Nat)] /\ native'.applied = native.applied
      /\ \A i \in DOMAIN native'.replies : \E j \in DOMAIN native.replies : native'.replies[i] = native.replies[j]
      /\ \A i, j \in DOMAIN native'.replies : i # j => native'.replies[i] # native'.replies[j]
  BY <1>1, TailFacts
<1>3. gate \in Gate /\ e \in Nat /\ gate.suppressed \in Nat
  BY SMT DEF AInv, Types, Gate, Outputs
<1>4. /\ gate' \in Gate /\ gate'.held = gate.held \cup {e} /\ gate'.owner = gate.owner /\ gate'.pending = gate.pending
      /\ gate'.start = gate.start /\ gate'.ack = gate.ack /\ gate'.sent = gate.sent /\ gate'.suppressed = gate.suppressed
  BY <1>3, SMT DEF Gate
<1>5. e > gate.suppressed
  BY <1>3, SMT DEF Discarded
<1>6. IsFiniteSet(gate'.held) /\ Cardinality(gate'.held) <= HeldCap
  <2>1. IsFiniteSet(gate.held) /\ Cardinality(gate.held) \in Nat /\ HeldCap \in Nat
    BY FS_CardinalityType, BoundFacts DEF AInv, Types
  <2>2. /\ IsFiniteSet(gate.held \cup {e})
        /\ Cardinality(gate.held \cup {e}) = IF e \in gate.held THEN Cardinality(gate.held) ELSE Cardinality(gate.held) + 1
    BY <2>1, FS_AddElement
  <2>3. Cardinality(gate.held \cup {e}) <= HeldCap
    BY <2>1, <2>2, SMT
  <2> QED BY <1>4, <2>2, <2>3
<1>7. Types'
  BY <1>1, <1>2, <1>4, <1>6 DEF AInv, Types
<1>8. Cursors'
  BY <1>1, <1>4 DEF AInv, Cursors, Mine
<1>9. Replies'
  BY <1>2, <1>4, <1>5 DEF AInv, Replies
<1>10. \A x \in Outputs : Awaited(x)' => Awaited(x)
  BY <1>2, <1>4 DEF Awaited
<1>11. dropped' \subseteq shown
  BY DEF AInv, GivenAway
<1> QED BY <1>1, <1>4, <1>7, <1>8, <1>9, <1>10, <1>11, NativeFrame

\* The gate holds no more: the attachment ends, and the answer is delivered.
LEMMA OfOverflow ==
  ASSUME AInv, effect, NEW e \in Outputs, e = Head(native.replies), ~Discarded(e), ~Mine(e),
         e \in 1..native.applied, \A i \in DOMAIN native'.replies : native'.replies[i] # e,
         End, answers' = Answered(Restored(gate) \cup {e}), UNCHANGED dropped
  PROVE  AInv'
<1>1. UNCHANGED <<written, host, shown, tries>> /\ native.replies # <<>> /\ native' = [native EXCEPT !.replies = Tail(@)]
  BY DEF effect
<1>2. PICK k : k = gate.ack
  OBVIOUS
<1>3. Closes(k, {e}) /\ gate' \in Gate /\ gate'.owner = Nobody
  BY <1>2, EndCloses
<1>4. /\ k \in Nat /\ gate.ack <= k /\ k <= gate.sent /\ e \in Nat /\ gate.suppressed \in Nat
      /\ \A x \in Outputs : ~(gate.ack < x /\ x <= k)
  <2>1. gate.ack \in Nat /\ gate.ack <= gate.sent /\ gate.suppressed \in Nat
    BY DEF AInv, Types, Gate, Cursors
  <2> QED BY <1>2, <2>1, SMT DEF Outputs
<1>5. gate.owner # Nobody /\ e > gate.suppressed /\ (gate.pending \/ e > k)
  <2>1. gate.owner # Nobody /\ ~(e <= gate.suppressed) /\ (gate.pending \/ ~(e <= k))
    BY <1>2 DEF Mine, Discarded
  <2> QED BY <1>4, <2>1, SMT
<1>6. /\ native' \in [applied : Nat, replies : Seq(Nat)] /\ native'.applied = native.applied
      /\ \A i \in DOMAIN native'.replies : \E j \in DOMAIN native.replies : native'.replies[i] = native.replies[j]
      /\ \A i, j \in DOMAIN native'.replies : i # j => native'.replies[i] # native'.replies[j]
      /\ \E i \in DOMAIN native.replies : native.replies[i] = e
  BY <1>1, TailFacts
<1>7. host' \in [Hosts -> Client] /\ written' \in Nat /\ written <= written'
  BY <1>1, SMT DEF AInv, Types
<1>8. \A x \in {e} : /\ x \in 1..native.applied /\ x > gate.suppressed /\ (gate.pending \/ x > k)
                     /\ \E i \in DOMAIN native.replies : native.replies[i] = x
                     /\ \A i \in DOMAIN native'.replies : native'.replies[i] # x
  BY <1>5, <1>6
<1>9. dropped' \subseteq dropped \cup {x \in gate.held : ~gate.pending /\ x <= k}
  OBVIOUS
<1>10. Types' /\ Cursors' /\ Replies' /\ Owned' /\ Unshown' /\ GivenAway'
  <2>1. UNCHANGED <<written, shown, tries>> /\ \A x \in Outputs : gate.ack < x /\ x <= k => x \in shown
    BY <1>1, <1>4
  <2>2. k \in Nat /\ gate.ack <= k /\ k <= gate.sent /\ gate.owner # Nobody
    BY <1>4, <1>5
  <2> DEFINE X == {e}
  <2>3. /\ Closes(k, X)
        /\ \A x \in X : /\ x \in 1..native.applied /\ x > gate.suppressed /\ (gate.pending \/ x > k)
                        /\ \E i \in DOMAIN native.replies : native.replies[i] = x
                        /\ \A i \in DOMAIN native'.replies : native'.replies[i] # x
    BY <1>3, <1>8
  <2> HIDE DEF X
  <2> QED BY <1>6, <1>7, <1>9, <2>1, <2>2, <2>3, CloseStep
<1>11. Clients'
  BY <1>1, <1>3, <1>7, ClosedClients, ClientsKept
<1> QED BY <1>10, <1>11 DEF AInv

LEMMA OfEffect ==
  ASSUME AInv, effect
  PROVE  AInv'
<1>1. PICK e \in Outputs :
        /\ e \in 1..native.applied /\ e \notin gate.held /\ Awaited(e) /\ e = Head(native.replies)
        /\ \A i \in DOMAIN native'.replies : native'.replies[i] # e
  BY EffectFacts
<1>2. \/ /\ Discarded(e) /\ dropped' = dropped \cup {e} /\ UNCHANGED <<gate, answers, orphaned>>
      \/ /\ ~Discarded(e) /\ Mine(e) /\ answers' = Answered({e}) /\ UNCHANGED <<gate, dropped, orphaned>>
      \/ /\ ~Discarded(e) /\ ~Mine(e) /\ End /\ answers' = Answered(Restored(gate) \cup {e}) /\ UNCHANGED dropped
      \/ /\ ~Discarded(e) /\ ~Mine(e) /\ Cardinality(gate.held) < HeldCap
         /\ gate' = [gate EXCEPT !.held = @ \cup {e}] /\ UNCHANGED <<answers, dropped, orphaned>>
  BY <1>1 DEF effect
<1>3. ~(e > native.applied) /\ native'.applied = native.applied
  <2>1. native.applied \in Nat
    BY DEF AInv, Types
  <2>2. ~(e > native.applied)
    BY <1>1, <2>1, SMT
  <2> QED BY <2>2, TailFacts DEF effect
<1>4. CASE Discarded(e) /\ dropped' = dropped \cup {e} /\ UNCHANGED <<gate, answers, orphaned>>
  BY <1>1, <1>4, OfDiscard
<1>5. CASE ~Discarded(e) /\ Mine(e) /\ answers' = Answered({e}) /\ UNCHANGED <<gate, dropped, orphaned>>
  <2>1. ~Awaited(e)'
    BY <1>1, <1>3, <1>5 DEF Awaited
  <2> QED BY <1>1, <1>5, <2>1, OfMine
<1>6. CASE ~Discarded(e) /\ ~Mine(e) /\ End /\ answers' = Answered(Restored(gate) \cup {e}) /\ UNCHANGED dropped
  BY <1>1, <1>6, OfOverflow
<1>7. CASE /\ ~Discarded(e) /\ ~Mine(e) /\ Cardinality(gate.held) < HeldCap
           /\ gate' = [gate EXCEPT !.held = @ \cup {e}] /\ UNCHANGED <<answers, dropped, orphaned>>
  BY <1>1, <1>7, OfHold
<1> QED BY <1>2, <1>4, <1>5, <1>6, <1>7

-----------------------------------------------------------------------------
(* A client attaches.                                                      *)

LEMMA OfBegin ==
  ASSUME AInv, NEW h \in Hosts, begin(h)
  PROVE  AInv'
<1>1. /\ tries' = [tries EXCEPT !.attach = @ + 1]
      /\ UNCHANGED <<written, native, answers, shown, dropped, orphaned>>
  BY DEF begin
<1>2. tries' \in [attach : Nat, replaced : Nat]
  <2>1. tries \in [attach : Nat, replaced : Nat] /\ tries.attach + 1 \in Nat
    BY SMT DEF AInv, Types
  <2> QED BY <1>1, <2>1
<1>3. CASE gate.owner # Nobody
  <2>1. UNCHANGED <<gate, host>>
    BY <1>3 DEF begin
  <2> QED BY <1>1, <1>2, <2>1 DEF AInv, Types, Cursors, Replies, Owned, Unshown, GivenAway, Clients, Placed, Valid, Live,
             Awaited, Reached
<1>4. CASE gate.owner = Nobody
  <2> DEFINE c == [NotAttached EXCEPT !.pc = "capturing"]
  <2>1. /\ gate' = [gate EXCEPT !.owner = h, !.pending = TRUE, !.start = written, !.ack = written, !.sent = written]
        /\ host' = [host EXCEPT ![h] = c]
    BY <1>4 DEF begin
  <2>2. gate \in Gate /\ written \in Nat /\ gate.held = {} /\ ~gate.pending /\ gate.suppressed <= written
    BY <1>4 DEF AInv, Types, Cursors
  <2>3. gate' \in Gate
    BY <2>1, <2>2 DEF Gate
  <2>4. /\ gate'.owner = h /\ gate'.pending /\ gate'.start = written /\ gate'.ack = written /\ gate'.sent = written
        /\ gate'.suppressed = gate.suppressed /\ gate'.held = gate.held
    BY <2>1, <2>2, SMT DEF Gate
  <2>5. c \in Client /\ c.pc = "capturing"
    BY NotAttachedFacts
  <2> HIDE DEF c
  <2>6. Placed(h, c)' /\ Others(Hosts \ {h})
    BY <2>4, <2>5 DEF Placed, Valid, Others
  <2>7. Clients' /\ host' \in [Hosts -> Client]
    BY <1>1, <2>1, <2>3, <2>5, <2>6, ClientMoves
  <2>8. Types'
    BY <1>1, <1>2, <2>3, <2>4, <2>7 DEF AInv, Types
  <2>9. Cursors'
    <3>1. written <= written
      BY <2>2, SMT
    <3>2. h # Nobody
      BY BoundFacts
    <3> QED BY <1>1, <2>2, <2>4, <3>1, <3>2 DEF Cursors
  <2>10. Replies' /\ Owned' /\ Unshown' /\ GivenAway'
    <3>1. ~Live /\ ~Live'
      BY <1>4, <2>4 DEF Live
    <3>2. Replies'
      BY <1>1, <2>4 DEF AInv, Replies
    <3>3. Owned'
      BY <1>1, <2>4, <3>1 DEF AInv, Owned
    <3>4. Unshown'
      BY <1>1, <2>4, <3>1 DEF AInv, Unshown, Awaited
    <3>5. GivenAway'
      BY <1>1, <2>4, <3>1 DEF AInv, GivenAway, Awaited
    <3> QED BY <3>2, <3>3, <3>4, <3>5
  <2> QED BY <2>7, <2>8, <2>9, <2>10 DEF AInv
<1> QED BY <1>3, <1>4

LEMMA OfCommit ==
  ASSUME AInv, NEW h \in Hosts, commit(h)
  PROVE  AInv'
<1> DEFINE n == native.applied
<1>0. PICK c : c = [pc |-> "ready", after |-> n, through |-> 0, at |-> 0]
  OBVIOUS
<1>1. /\ host[h].pc = "capturing" /\ gate.owner = h /\ n >= gate.start /\ native.replies = <<>>
      /\ gate' = [gate EXCEPT !.pending = FALSE, !.ack = n, !.sent = n, !.held = {e \in @ : e > n}]
      /\ answers' = Answered({e \in gate.held : e <= n}) /\ host' = [host EXCEPT ![h] = c]
      /\ UNCHANGED <<written, native, shown, dropped, orphaned, tries>>
  BY <1>0 DEF commit
<1>2. /\ gate \in Gate /\ n \in Nat /\ written \in Nat /\ n <= written /\ gate.pending
      /\ gate.start \in Nat /\ gate.suppressed \in Nat /\ gate.suppressed <= gate.start
  BY <1>1 DEF AInv, Types, Gate, Clients, Placed, Cursors
<1>3. /\ gate' \in Gate /\ gate'.owner = h /\ ~gate'.pending /\ gate'.start = gate.start /\ gate'.ack = n /\ gate'.sent = n
      /\ gate'.suppressed = gate.suppressed /\ gate'.held = {e \in gate.held : e > n}
  <2>1. {e \in gate.held : e > n} \in SUBSET Nat
    BY <1>2 DEF Gate
  <2> DEFINE H == {e \in gate.held : e > n}
  <2>2. gate' = [gate EXCEPT !.pending = FALSE, !.ack = n, !.sent = n, !.held = H]
    BY <1>1
  <2> HIDE DEF H, n
  <2>3. H \in SUBSET Nat
    BY <2>1 DEF H
  <2>4. gate' \in Gate
    BY <1>2, <2>2, <2>3 DEF Gate
  <2>5. /\ gate'.owner = gate.owner /\ ~gate'.pending /\ gate'.start = gate.start /\ gate'.ack = n /\ gate'.sent = n
        /\ gate'.suppressed = gate.suppressed /\ gate'.held = H
    BY <1>2, <2>2, SMT DEF Gate
  <2> QED BY <1>1, <2>4, <2>5 DEF H
<1>4. c \in Client /\ c.pc = "ready" /\ c.after = n
  BY <1>0, <1>2, SMT DEF Client, Stages
<1>5. /\ \A e \in gate.held : e <= n /\ ~(e > n) /\ e > gate.suppressed /\ Awaited(e) /\ e \in Outputs
      /\ gate'.held = {}
  <2>1. \A e \in gate.held : e \in 1..n /\ e > gate.suppressed
    BY DEF AInv, Replies
  <2>2. \A e \in 1..n : e <= n /\ ~(e > n) /\ e \in Outputs
    <3>1. written <= MaxOutput /\ MaxOutput \in Nat
      BY BoundFacts DEF AInv, Types
    <3> QED BY <1>2, <3>1, SMT DEF Outputs
  <2> QED BY <1>3, <2>1, <2>2 DEF Awaited
<1>6. /\ answers' \in [Outputs -> Nat]
      /\ \A e \in Outputs : answers'[e] = IF e \in gate.held THEN answers[e] + 1 ELSE answers[e]
  <2>1. \A e \in Outputs : answers'[e] = IF e \in {x \in gate.held : x <= n} THEN answers[e] + 1 ELSE answers[e]
    BY <1>1, AnsweredFacts DEF AInv
  <2>2. answers' \in [Outputs -> Nat]
    BY <1>1, AnsweredFacts DEF AInv
  <2> QED BY <1>5, <2>1, <2>2
<1>7. \A e \in shown \ orphaned : e \in Outputs /\ answers[e] = 1 /\ e <= gate.suppressed /\ ~(e > n) /\ ~(e > gate.suppressed)
  <2>1. \A e \in shown \ orphaned : answers[e] = 1 /\ e <= gate.suppressed /\ e \in Outputs
    BY <1>2 DEF AInv, Owned, Live, GivenAway
  <2>2. \A e \in Outputs : e <= gate.suppressed => ~(e > n) /\ ~(e > gate.suppressed)
    BY <1>1, <1>2, SMT DEF Outputs
  <2> QED BY <2>1, <2>2
<1>8. DOMAIN native.replies = {}
  BY <1>1, SMT
<1>9. \A e \in Outputs : (Awaited(e)' => e > n) /\ (e > n => Awaited(e))
  BY <1>1, <1>5, <1>8 DEF Awaited
<1>10. n <= n /\ n <= gate'.sent /\ \A e \in Outputs : ~(n < e /\ e <= n) /\ ~(e > n /\ e <= n)
  BY <1>2, <1>3, SMT DEF Outputs
<1> HIDE DEF n
<1>11. Placed(h, c)' /\ Others(Hosts \ {h})
  <2>1. Others(Hosts \ {h})
    BY <1>3 DEF Others
  <2>2. /\ gate'.ack <= c.after /\ c.after <= gate'.sent
        /\ \A e \in Outputs : ~(gate'.ack < e /\ e <= Reached(c))
        /\ \A e \in shown \ orphaned : ~(e > gate'.ack)
    BY <1>3, <1>4, <1>7, <1>10 DEF Reached
  <2> QED BY <1>1, <1>3, <1>4, <2>1, <2>2 DEF Placed, Valid, Reached
<1>12. Clients' /\ host' \in [Hosts -> Client]
  BY <1>1, <1>3, <1>4, <1>11, ClientMoves
<1>13. Types'
  <2>1. IsFiniteSet({}) /\ Cardinality({}) = 0 /\ 0 <= HeldCap
    BY FS_EmptySet, BoundFacts, SMT
  <2> QED BY <1>1, <1>3, <1>5, <1>6, <1>12, <2>1 DEF AInv, Types
<1>14. Cursors'
  <2>1. h # Nobody
    BY BoundFacts
  <2> QED BY <1>1, <1>2, <1>3, <1>10, <2>1 DEF AInv, Cursors
<1>15. Replies'
  BY <1>1, <1>5, <1>8 DEF Replies
<1>16. Owned'
  BY <1>1, <1>3, <1>5, <1>6, <1>7 DEF Owned
<1>17. Unshown'
  <2> SUFFICES ASSUME NEW e \in Outputs, e \notin shown
               PROVE  /\ answers'[e] <= 1 /\ (Awaited(e)' => answers'[e] = 0)
                      /\ e > n => answers'[e] = 0
    BY <1>1, <1>3 DEF Unshown, Live
  <2>1. /\ answers[e] <= 1 /\ (Awaited(e) => answers[e] = 0)
        /\ answers'[e] = IF e \in gate.held THEN answers[e] + 1 ELSE answers[e]
    BY <1>6 DEF AInv, Unshown
  <2>2. CASE e \in gate.held
    <3>1. answers[e] = 0 /\ ~(e > n) /\ answers'[e] = answers[e] + 1
      BY <1>5, <2>1, <2>2
    <3>2. answers'[e] <= 1
      BY <3>1, SMT
    <3> QED BY <1>9, <3>1, <3>2
  <2>3. CASE e \notin gate.held
    BY <1>9, <2>1, <2>3
  <2> QED BY <2>2, <2>3
<1>18. GivenAway'
  BY <1>1, <1>3, <1>9, <1>10 DEF AInv, GivenAway, Live
<1> QED BY <1>12, <1>13, <1>14, <1>15, <1>16, <1>17, <1>18 DEF AInv

-----------------------------------------------------------------------------
(* A client reads, shows and leaves.                                       *)

LEMMA ClientFacts ==
  ASSUME AInv, NEW h \in Hosts
  PROVE  /\ host[h] \in Client /\ host[h].after \in Nat /\ host[h].through \in Nat /\ host[h].at \in Nat
         /\ Placed(h, host[h]) /\ host \in [Hosts -> Client] /\ tries \in [attach : Nat, replaced : Nat]
         /\ gate \in Gate /\ gate.ack \in Nat /\ gate.sent \in Nat /\ gate.suppressed \in Nat /\ written \in Nat
BY DEF AInv, Clients, Types, Client, Gate

\* A client's stage changes and nothing else of it.
LEMMA StageFacts ==
  ASSUME NEW h \in Hosts, host \in [Hosts -> Client], NEW p \in Stages, host' = [host EXCEPT ![h].pc = p]
  PROVE  \E c \in Client : /\ c.pc = p /\ c.after = host[h].after /\ c.through = host[h].through /\ c.at = host[h].at
                           /\ host' = [host EXCEPT ![h] = c]
<1> DEFINE c == [host[h] EXCEPT !.pc = p]
<1>1. host[h] \in Client
  OBVIOUS
<1>2. c \in Client /\ c.pc = p /\ c.after = host[h].after /\ c.through = host[h].through /\ c.at = host[h].at
  BY <1>1 DEF Client
<1>3. host' = [host EXCEPT ![h] = c]
  OBVIOUS
<1> QED BY <1>2, <1>3

\* Any client but one that captures may give up.
LEMMA PlacedLeaving ==
  ASSUME AInv, NEW h \in Hosts, NEW c \in Client, c.pc = "leaving", c.after = host[h].after,
         host[h].pc \notin {"out", "capturing"}
  PROVE  Placed(h, c)
<1>1. /\ host[h].after \in Nat /\ host[h].at \in Nat /\ Placed(h, host[h])
  BY ClientFacts
<1>2. \A e \in Outputs : e <= Reached(c) => e <= Reached(host[h])
  <2>1. host[h].pc = "showing" => host[h].after <= host[h].at
    BY <1>1 DEF Placed
  <2>2. CASE host[h].pc = "showing"
    <3>1. Reached(c) = host[h].after /\ Reached(host[h]) = host[h].at
      BY <2>2, SMT DEF Reached
    <3> QED BY <1>1, <2>1, <2>2, <3>1, SMT DEF Outputs
  <2>3. CASE host[h].pc # "showing"
    <3>1. Reached(c) = host[h].after /\ Reached(host[h]) = host[h].after
      BY <2>3, SMT DEF Reached
    <3> QED BY <3>1
  <2> QED BY <2>2, <2>3
<1>3. /\ c.pc # "deliver" /\ c.pc # "showing" /\ c.pc # "capturing"
  OBVIOUS
<1> QED BY <1>1, <1>2, <1>3 DEF Placed

LEMMA OfLeaves ==
  ASSUME AInv, NEW h \in Hosts, Leaves(h)
  PROVE  AInv'
<1>1. PICK c : c = [NotAttached EXCEPT !.pc = "leaving", !.after = host[h].after]
  OBVIOUS
<1>2. /\ host' = [host EXCEPT ![h] = c] /\ host[h].pc \notin {"out", "capturing"}
      /\ UNCHANGED <<written, native, gate, answers, shown, dropped, orphaned, tries>>
  BY <1>1 DEF Leaves
<1>3. c \in Client /\ c.pc = "leaving" /\ c.after = host[h].after /\ tries' \in [attach : Nat, replaced : Nat]
  BY <1>1, <1>2, NotAttachedFacts, ClientFacts
<1>4. Placed(h, c)
  BY <1>2, <1>3, PlacedLeaving
<1> QED BY <1>2, <1>3, <1>4, HostFrame

\* A client that the gate has turned down.
LEMMA TurnedDown ==
  ASSUME AInv, NEW h \in Hosts, host[h].pc \notin {"out", "capturing"}, host' = [host EXCEPT ![h].pc = "leaving"],
         UNCHANGED <<written, native, gate, answers, shown, dropped, orphaned, tries>>
  PROVE  AInv'
<1>1. PICK c : c = [host[h] EXCEPT !.pc = "leaving"]
  OBVIOUS
<1>2. c \in Client /\ c.pc = "leaving" /\ c.after = host[h].after /\ host' = [host EXCEPT ![h] = c]
  <2>1. host[h] \in Client /\ "leaving" \in Stages
    BY ClientFacts DEF Stages
  <2>2. c \in Client /\ c.pc = "leaving" /\ c.after = host[h].after
    BY <1>1, <2>1 DEF Client
  <2> QED BY <1>1, <2>2
<1>3. Placed(h, c) /\ tries' \in [attach : Nat, replaced : Nat]
  BY <1>2, PlacedLeaving, ClientFacts
<1> QED BY <1>2, <1>3, HostFrame

LEMMA OfAcknowledge ==
  ASSUME AInv, NEW h \in Hosts, acknowledge(h)
  PROVE  AInv'
<1>1. host[h].pc = "ready" /\ UNCHANGED <<written, native, answers, shown, orphaned, tries>>
  BY DEF acknowledge
<1>2. PICK n : n = host[h].after
  OBVIOUS
<1>3. CASE ~(Valid(h) /\ host[h].after >= gate.ack /\ host[h].after <= gate.sent)
  BY <1>1, <1>3, TurnedDown DEF acknowledge
<1>4. CASE Valid(h) /\ host[h].after >= gate.ack /\ host[h].after <= gate.sent
  <2>1. /\ gate' = acknowledged(gate, n) /\ dropped' = dropped \cup {e \in gate.held : e <= n}
        /\ host' = [host EXCEPT ![h].pc = "reading"]
    BY <1>2, <1>4 DEF acknowledge
  <2>2. /\ n \in Nat /\ n >= gate.ack /\ n <= gate.sent /\ gate.owner = h /\ ~gate.pending /\ gate.ack \in Nat
        /\ gate.suppressed \in Nat /\ gate.sent \in Nat /\ written \in Nat /\ gate \in Gate /\ gate.sent <= written
    BY <1>2, <1>4, ClientFacts DEF Valid, AInv, Cursors
  <2>3. /\ gate' \in Gate /\ gate'.owner = h /\ ~gate'.pending /\ gate'.held = {e \in gate.held : e > n}
        /\ gate'.start = gate.start /\ gate'.ack = n /\ gate'.sent = gate.sent
        /\ gate'.suppressed = IF gate.suppressed > n THEN gate.suppressed ELSE n
    <3>1. /\ acknowledged(gate, n) \in Gate /\ acknowledged(gate, n).owner = gate.owner
          /\ acknowledged(gate, n).pending = gate.pending
          /\ acknowledged(gate, n).held = {e \in gate.held : e > n}
          /\ acknowledged(gate, n).start = gate.start /\ acknowledged(gate, n).ack = n
          /\ acknowledged(gate, n).sent = gate.sent
          /\ acknowledged(gate, n).suppressed = IF gate.suppressed > n THEN gate.suppressed ELSE n
      BY <2>2, AcknowledgedFacts
    <3> QED BY <2>1, <2>2, <3>1
  <2>4. /\ \A e \in Outputs : (e <= gate.suppressed => e <= gate'.suppressed) /\ (e <= n => e <= gate'.suppressed)
        /\ \A e \in Outputs : e <= gate'.suppressed => e <= gate.suppressed \/ e <= n
        /\ \A e \in Nat : e > n /\ e > gate.suppressed => e > gate'.suppressed
        /\ gate'.suppressed <= written
        /\ \A e \in Outputs : (e <= n \/ e > n) /\ (e > n => e > gate.ack) /\ ~(n < e /\ e <= n)
        /\ \A e \in Outputs : e <= gate.ack \/ gate.ack < e
        /\ n <= n /\ n <= gate'.sent
        /\ \A e \in Outputs : ~(e > n /\ e <= n)
    <3>1. gate.suppressed <= written
      BY DEF AInv, Cursors
    <3> QED BY <2>2, <2>3, <3>1, SMT DEF Outputs
  <2>5. /\ \A e \in Outputs : gate.ack < e /\ e <= n => e \in shown
        /\ \A e \in shown \ orphaned : e > gate.ack => e <= n
    <3>1. Placed(h, host[h]) /\ Reached(host[h]) = n
      BY <1>1, <1>2, ClientFacts DEF Reached
    <3> QED BY <1>1, <1>4, <3>1 DEF Placed
  <2>6. Live /\ Live' /\ h # Nobody
    BY <2>2, <2>3, BoundFacts DEF Live
  <2>7. ASSUME NEW e \in Outputs, Awaited(e), e <= n PROVE e \in shown
    BY <2>4, <2>5, <2>6, <2>7 DEF AInv, GivenAway
  <2>8. shown \subseteq Outputs /\ gate.held \subseteq Outputs /\ gate.held \subseteq Nat
    <3>1. gate.held \subseteq 1..native.applied /\ native.applied \in Nat /\ native.applied <= written /\ written <= MaxOutput
          /\ MaxOutput \in Nat
      BY BoundFacts DEF AInv, Replies, Types
    <3> QED BY <2>2, <3>1, SMT DEF Outputs, AInv, GivenAway
  <2>9. \A e \in Outputs : Awaited(e)' => Awaited(e)
    BY <1>1, <2>3 DEF Awaited
  <2>10. "reading" \in Stages
    BY DEF Stages
  <2>11. PICK c \in Client : c.pc = "reading" /\ c.after = n /\ host' = [host EXCEPT ![h] = c]
    BY <1>2, <2>1, <2>10, ClientFacts, StageFacts
  <2>12. Placed(h, c)' /\ Others(Hosts \ {h})
    <3>1. Others(Hosts \ {h})
      BY <2>3 DEF Others
    <3>2. Reached(c) = n /\ c.pc # "deliver" /\ c.pc # "showing" /\ c.pc # "capturing"
      BY <2>11 DEF Reached
    <3>3. \A e \in shown \ orphaned : e > n => e <= n
      BY <2>4, <2>5, <2>8
    <3> QED BY <1>1, <2>3, <2>4, <2>11, <3>1, <3>2, <3>3 DEF Placed, Valid, Reached
  <2>13. Clients' /\ host' \in [Hosts -> Client]
    BY <1>1, <2>3, <2>11, <2>12, ClientMoves
  <2>14. Types'
    <3>1. IsFiniteSet(gate'.held) /\ Cardinality(gate'.held) <= HeldCap
      BY <2>3, HeldFacts DEF AInv
    <3> QED BY <1>1, <2>3, <2>13, <3>1 DEF AInv, Types
  <2>15. Cursors'
    BY <1>1, <2>3, <2>4, <2>6 DEF AInv, Cursors
  <2>16. Replies'
    BY <1>1, <2>3, <2>4, <2>8 DEF AInv, Replies
  <2>17. Owned'
    BY <1>1, <2>3, <2>4, <2>6, <2>8 DEF AInv, Owned
  <2>18. Unshown'
    BY <1>1, <2>3, <2>4, <2>6, <2>9 DEF AInv, Unshown
  <2>19. GivenAway'
    <3>1. dropped' \subseteq shown
      BY <2>1, <2>7, <2>8 DEF AInv, GivenAway, Awaited
    <3>2. \A e \in Outputs : Awaited(e)' => (e <= gate'.suppressed => e \in shown) /\ (e <= n => e \in shown)
      BY <2>4, <2>7, <2>9 DEF AInv, GivenAway
    <3> QED BY <1>1, <2>3, <2>8, <3>1, <3>2 DEF GivenAway
  <2> QED BY <2>13, <2>14, <2>15, <2>16, <2>17, <2>18, <2>19 DEF AInv
<1> QED BY <1>3, <1>4

LEMMA OfRead ==
  ASSUME AInv, NEW h \in Hosts, readOutputAfter(h)
  PROVE  AInv'
<1>1. host[h].pc = "reading" /\ UNCHANGED <<written, native, shown, dropped, tries>>
  BY DEF readOutputAfter
<1>2. ASSUME NEW n \in 0..BatchCap, host[h].after + n <= written, UNCHANGED <<gate, answers, orphaned>>,
             host' = [host EXCEPT ![h] = [pc |-> "deliver", after |-> host[h].after,
                                          through |-> host[h].after + n, at |-> host[h].after]]
      PROVE  AInv'
  <2>1. PICK c : c = [pc |-> "deliver", after |-> host[h].after, through |-> host[h].after + n, at |-> host[h].after]
    OBVIOUS
  <2>2. host[h] \in Client /\ host[h].after \in Nat /\ host[h].after + n \in Nat /\ host[h].after <= host[h].after + n
    <3>1. BatchCap \in Nat
      BY BoundFacts
    <3> QED BY <3>1, ClientFacts, SMT
  <2>3. "deliver" \in Stages
    BY DEF Stages
  <2>4. c \in Client
    BY <2>1, <2>2, <2>3 DEF Client
  <2>5. c.pc = "deliver" /\ c.through = host[h].after + n /\ c.at = host[h].after /\ c.after = host[h].after
    BY <2>1, <2>2 DEF Client
  <2>6. host' = [host EXCEPT ![h] = c]
    BY <1>2, <2>1
  <2>7. Placed(h, c)
    <3>1. Reached(c) = host[h].after /\ Reached(host[h]) = host[h].after
      BY <1>1, <2>5 DEF Reached
    <3> QED BY <1>1, <1>2, <2>2, <2>5, <3>1, ClientFacts DEF Placed
  <2>8. tries' \in [attach : Nat, replaced : Nat]
    BY <1>1, ClientFacts
  <2> QED BY <1>1, <1>2, <2>4, <2>6, <2>7, <2>8, HostFrame
<1>3. ASSUME host' = [host EXCEPT ![h].pc = "leaving"], gate.owner = h, End, answers' = Answered(Restored(gate))
      PROVE  AInv'
  <2>1. PICK p \in Stages : p = "leaving"
    BY DEF Stages
  <2>2. PICK c \in Client : c.pc = "leaving" /\ host' = [host EXCEPT ![h] = c]
    <3>1. host \in [Hosts -> Client] /\ host' = [host EXCEPT ![h].pc = p]
      BY <1>3, <2>1, ClientFacts
    <3> QED BY <2>1, <3>1, StageFacts
  <2> QED BY <1>1, <1>3, <2>2, ClientEnds
<1>4. ASSUME host' = [host EXCEPT ![h].pc = "leaving"], UNCHANGED <<gate, answers, orphaned>>
      PROVE  AInv'
  BY <1>1, <1>4, TurnedDown
<1> QED BY <1>2, <1>3, <1>4 DEF readOutputAfter

LEMMA OfDelivered ==
  ASSUME AInv, NEW h \in Hosts, delivered(h)
  PROVE  AInv'
<1>1. host[h].pc = "deliver" /\ UNCHANGED <<written, native, answers, shown, dropped, orphaned, tries>>
  BY DEF delivered
<1>2. CASE ~Valid(h)
  BY <1>1, <1>2, TurnedDown DEF delivered
<1>3. CASE Valid(h)
  <2>1. PICK t : t = IF gate.sent > host[h].through THEN gate.sent ELSE host[h].through
    OBVIOUS
  <2>2. gate' = [gate EXCEPT !.sent = t] /\ host' = [host EXCEPT ![h].pc = "showing"]
    BY <1>3, <2>1 DEF delivered
  <2>3. /\ gate \in Gate /\ gate.sent \in Nat /\ gate.ack \in Nat /\ host[h].through \in Nat /\ written \in Nat
        /\ host[h].after \in Nat /\ host \in [Hosts -> Client] /\ Placed(h, host[h])
    BY ClientFacts
  <2>4. /\ host[h].at = host[h].after /\ host[h].after <= host[h].through /\ host[h].through <= written
        /\ gate.ack <= host[h].after /\ host[h].after <= gate.sent /\ Reached(host[h]) = host[h].after
        /\ \A e \in Outputs : gate.ack < e /\ e <= Reached(host[h]) => e \in shown
        /\ \A e \in shown \ orphaned : e > gate.ack => e <= Reached(host[h])
    BY <1>1, <1>3, <2>3 DEF Placed, Reached
  <2>5. gate.ack <= gate.sent /\ gate.sent <= written
    BY DEF AInv, Cursors
  <2>6. /\ t \in Nat /\ t <= written /\ gate.ack <= t /\ host[h].through <= t /\ host[h].after <= t
        /\ host[h].after <= host[h].after
    BY <2>1, <2>3, <2>4, <2>5, SMT
  <2>7. gate' \in Gate
    BY <2>2, <2>3, <2>6 DEF Gate
  <2>8. /\ gate'.owner = gate.owner /\ gate'.pending = gate.pending /\ gate'.start = gate.start /\ gate'.ack = gate.ack
        /\ gate'.sent = t /\ gate'.suppressed = gate.suppressed /\ gate'.held = gate.held
    BY <2>2, <2>3, SMT DEF Gate
  <2>9. PICK p \in Stages : p = "showing"
    BY DEF Stages
  <2>10. PICK c \in Client : /\ c.pc = p /\ c.after = host[h].after /\ c.through = host[h].through
                             /\ c.at = host[h].at /\ host' = [host EXCEPT ![h] = c]
    <3>1. host' = [host EXCEPT ![h].pc = p]
      BY <2>2, <2>9
    <3> QED BY <2>3, <3>1, StageFacts
  <2>11. Placed(h, c)' /\ Others(Hosts \ {h})
    <3>1. Others(Hosts \ {h})
      BY <1>3, <2>8 DEF Others, Valid
    <3>2. Reached(c) = host[h].after /\ c.pc = "showing"
      BY <2>4, <2>9, <2>10 DEF Reached
    <3>3. /\ c.after <= c.at /\ c.at <= c.through /\ c.through <= written /\ gate'.ack <= c.after /\ c.after <= gate'.sent
          /\ c.through <= gate'.sent
          /\ \A e \in Outputs : gate'.ack < e /\ e <= Reached(c) => e \in shown
          /\ \A e \in shown \ orphaned : e > gate'.ack => e <= Reached(c)
      BY <2>4, <2>6, <2>8, <2>10, <3>2
    <3>4. ~gate'.pending
      BY <1>3, <2>8 DEF Valid
    <3> QED BY <1>1, <3>1, <3>2, <3>3, <3>4 DEF Placed, Reached
  <2>12. Clients' /\ host' \in [Hosts -> Client]
    BY <1>1, <2>7, <2>10, <2>11, ClientMoves
  <2>13. Types'
    BY <1>1, <2>7, <2>8, <2>12 DEF AInv, Types
  <2>14. Cursors'
    BY <1>1, <2>6, <2>8 DEF AInv, Cursors
  <2>15. Live' <=> Live
    BY <2>8 DEF Live
  <2>16. Replies'
    BY <1>1, <2>8 DEF AInv, Replies
  <2>17. Owned'
    BY <1>1, <2>8, <2>15 DEF AInv, Owned
  <2>18. Unshown'
    BY <1>1, <2>8, <2>15 DEF AInv, Unshown, Awaited
  <2>19. GivenAway'
    BY <1>1, <2>8, <2>15 DEF AInv, GivenAway, Awaited
  <2> QED BY <2>12, <2>13, <2>14, <2>16, <2>17, <2>18, <2>19 DEF AInv
<1> QED BY <1>2, <1>3

\* The whole batch is on the screen.
LEMMA OfBatchShown ==
  ASSUME AInv, NEW h \in Hosts, host[h].pc = "showing", host[h].at + 1 > host[h].through,
         host' = [host EXCEPT ![h] = [pc |-> "ready", after |-> host[h].through, through |-> 0, at |-> 0]],
         UNCHANGED <<written, native, gate, answers, shown, dropped, orphaned, tries>>
  PROVE  AInv'
<1>1. PICK c : c = [pc |-> "ready", after |-> host[h].through, through |-> 0, at |-> 0]
  OBVIOUS
<1>2. /\ gate.sent \in Nat /\ gate.ack \in Nat /\ host[h].through \in Nat /\ host[h].at \in Nat /\ host[h].after \in Nat
      /\ Placed(h, host[h]) /\ tries' \in [attach : Nat, replaced : Nat]
  BY ClientFacts
<1>3. c \in Client /\ c.pc = "ready" /\ c.after = host[h].through
  BY <1>1, <1>2, SMT DEF Client, Stages
<1>4. host[h].after <= host[h].at /\ host[h].at <= host[h].through
  BY <1>2 DEF Placed
<1>5. host[h].at = host[h].through
  BY <1>2, <1>4, SMT
<1>6. Reached(host[h]) = host[h].through /\ Reached(c) = host[h].through
  BY <1>3, <1>5 DEF Reached
<1>7. gate.ack <= host[h].after => gate.ack <= host[h].through
  BY <1>2, <1>4, <1>5, SMT
<1>8. Placed(h, c)
  BY <1>2, <1>3, <1>6, <1>7 DEF Placed
<1>9. host' = [host EXCEPT ![h] = c]
  BY <1>1
<1> QED BY <1>2, <1>3, <1>8, <1>9, HostFrame

LEMMA OfOutputShown ==
  ASSUME AInv, NEW h \in Hosts, NEW e, e = host[h].at + 1, host[h].pc = "showing", e <= host[h].through,
         host' = [host EXCEPT ![h].at = e], shown' = shown \cup {e}, answers' = Answered({e}),
         orphaned' = IF Valid(h) THEN orphaned ELSE orphaned \cup {e},
         UNCHANGED <<written, native, gate, dropped, tries>>
  PROVE  AInv'
<1>1. /\ gate \in Gate /\ gate.sent \in Nat /\ gate.ack \in Nat /\ host[h].through \in Nat /\ host[h].at \in Nat
      /\ host[h].after \in Nat /\ host \in [Hosts -> Client] /\ host[h] \in Client /\ Placed(h, host[h])
      /\ written \in Nat /\ written <= MaxOutput /\ MaxOutput \in Nat
  BY ClientFacts, BoundFacts DEF AInv, Types
<1>2. host[h].after <= host[h].at /\ host[h].at <= host[h].through /\ host[h].through <= written
  BY <1>1 DEF Placed
<1>3. e \in Outputs /\ e \in Nat /\ host[h].after <= e /\ (gate.ack <= host[h].after => e > gate.ack /\ ~(e <= host[h].at))
  BY <1>1, <1>2, SMT DEF Outputs
<1>4. Reached(host[h]) = host[h].at
  BY DEF Reached
<1>5. PICK c : c = [host[h] EXCEPT !.at = e]
  OBVIOUS
<1>6. /\ c \in Client /\ c.pc = "showing" /\ c.after = host[h].after /\ c.through = host[h].through /\ c.at = e
      /\ host' = [host EXCEPT ![h] = c]
  <2>1. c \in Client
    BY <1>1, <1>3, <1>5 DEF Client
  <2>2. c.pc = "showing" /\ c.after = host[h].after /\ c.through = host[h].through /\ c.at = e
    BY <1>1, <1>5, SMT DEF Client
  <2>3. host' = [host EXCEPT ![h] = c]
    BY <1>5
  <2> QED BY <2>1, <2>2, <2>3
<1>7. Reached(c) = e
  BY <1>6 DEF Reached
<1>8. /\ answers' \in [Outputs -> Nat]
      /\ \A x \in Outputs : answers'[x] = IF x \in {e} THEN answers[x] + 1 ELSE answers[x]
  BY AnsweredFacts DEF AInv
<1>9. ASSUME Valid(h)
      PROVE  /\ e > gate.ack /\ (e \in shown => e \in orphaned) /\ orphaned' = orphaned /\ Live
             /\ e \notin shown => answers[e] = 0
             /\ gate.ack <= host[h].after /\ host[h].after <= gate.sent /\ host[h].through <= gate.sent
             /\ \A x \in Outputs : gate.ack < x /\ x <= host[h].at => x \in shown
             /\ \A x \in shown \ orphaned : x > gate.ack => x <= host[h].at
  <2>1. /\ gate.ack <= host[h].after /\ host[h].after <= gate.sent /\ host[h].through <= gate.sent
        /\ \A x \in Outputs : gate.ack < x /\ x <= host[h].at => x \in shown
        /\ \A x \in shown \ orphaned : x > gate.ack => x <= host[h].at
    BY <1>1, <1>4, <1>9 DEF Placed
  <2>2. Live /\ orphaned' = orphaned
    BY <1>9, BoundFacts DEF Live, Valid
  <2>3. e > gate.ack /\ (e \in shown => e \in orphaned)
    BY <1>3, <2>1
  <2>4. e \notin shown => answers[e] = 0
    BY <1>3, <2>2, <2>3 DEF AInv, Unshown
  <2> QED BY <2>1, <2>2, <2>3, <2>4
<1>10. ~Valid(h) => orphaned' = orphaned \cup {e}
  OBVIOUS
<1>11. Others(Hosts \ {h})
  <2>1. gate'.sent = gate.sent /\ gate.sent <= gate.sent
    BY <1>1, SMT
  <2>2. CASE Valid(h)
    BY <2>2 DEF Others, Valid
  <2>3. CASE ~Valid(h)
    BY <1>10, <2>1, <2>3 DEF Others
  <2> QED BY <2>2, <2>3
<1>12. Placed(h, c)'
  <2>1. c.after <= c.at /\ c.at <= c.through /\ c.through <= written
    BY <1>2, <1>3, <1>6
  <2>2. gate.owner = h => (gate.pending <=> c.pc = "capturing")
    BY <1>1, <1>6 DEF Placed
  <2>3. ASSUME Valid(h)
        PROVE  /\ \A x \in Outputs : gate.ack < x /\ x <= e => x \in shown'
               /\ \A x \in shown' \ orphaned' : x > gate.ack => x <= e
    <3>1. \A x \in Outputs : (x <= e => x <= host[h].at \/ x = e) /\ (x <= host[h].at \/ x = e => x <= e)
      BY <1>1, SMT DEF Outputs
    <3>2. shown' \subseteq Outputs
      BY <1>3 DEF AInv, GivenAway
    <3> QED BY <1>9, <2>3, <3>1, <3>2
  <2>4. ASSUME Valid(h)
        PROVE  gate.ack <= c.after /\ c.after <= gate.sent /\ c.through <= gate.sent
    BY <1>6, <1>9, <2>4
  <2> QED BY <1>6, <1>7, <2>1, <2>2, <2>3, <2>4 DEF Placed, Valid, Reached
<1>13. Clients' /\ host' \in [Hosts -> Client]
  <2>1. gate' \in Gate /\ shown \subseteq shown'
    BY <1>1
  <2> QED BY <1>6, <1>11, <1>12, <2>1, ClientMoves
<1>14. Types' /\ Cursors' /\ Replies'
  <2>1. Types'
    BY <1>8, <1>13 DEF AInv, Types
  <2>2. Cursors' /\ Replies'
    BY DEF AInv, Cursors, Replies
  <2> QED BY <2>1, <2>2
<1>15. Owned'
  <2> SUFFICES ASSUME NEW x \in shown' \ orphaned'
               PROVE  answers'[x] = 1 /\ (x <= gate.suppressed \/ (Live /\ x > gate.ack))
    BY DEF Owned, Live
  <2>1. CASE x # e
    <3>1. x \in shown \ orphaned /\ x \in Outputs
      BY <1>9, <1>10, <2>1 DEF AInv, GivenAway
    <3> QED BY <1>8, <2>1, <3>1 DEF AInv, Owned
  <2>2. CASE x = e
    <3>1. Valid(h)
      BY <1>10, <2>2
    <3>2. answers[e] = 0 /\ e > gate.ack /\ Live
      BY <1>9, <2>2, <3>1
    <3>3. answers'[e] = answers[e] + 1
      BY <1>3, <1>8
    <3>4. answers'[e] = 1
      BY <3>2, <3>3, SMT
    <3> QED BY <2>2, <3>2, <3>4
  <2> QED BY <2>1, <2>2
<1>16. Unshown'
  BY <1>8 DEF AInv, Unshown, Live, Awaited
<1>17. GivenAway'
  BY <1>3 DEF AInv, GivenAway, Live, Awaited
<1> QED BY <1>13, <1>14, <1>15, <1>16, <1>17 DEF AInv

LEMMA OfShows ==
  ASSUME AInv, NEW h \in Hosts, Shows(h)
  PROVE  AInv'
<1>1. PICK e : e = host[h].at + 1
  OBVIOUS
<1>2. host[h].pc = "showing" /\ UNCHANGED <<written, native, gate, dropped, tries>>
  BY DEF Shows
<1>3. \/ /\ e > host[h].through
         /\ host' = [host EXCEPT ![h] = [pc |-> "ready", after |-> host[h].through, through |-> 0, at |-> 0]]
         /\ UNCHANGED <<shown, answers, orphaned>>
      \/ /\ e <= host[h].through /\ host' = [host EXCEPT ![h].at = e] /\ shown' = shown \cup {e}
         /\ answers' = Answered({e}) /\ orphaned' = IF Valid(h) THEN orphaned ELSE orphaned \cup {e}
  BY <1>1 DEF Shows
<1> QED BY <1>1, <1>2, <1>3, OfBatchShown, OfOutputShown

\* The client leaves, with what it showed in full.
LEMMA OfDetachRaw ==
  ASSUME AInv, NEW h \in Hosts, DetachRaw(h)
  PROVE  AInv'
<1>1. /\ host[h].pc = "leaving" /\ host' = [host EXCEPT ![h] = NotAttached]
      /\ UNCHANGED <<written, native, shown, tries>>
  BY DEF DetachRaw
<1>2. CASE ~(Valid(h) /\ host[h].after >= gate.ack /\ host[h].after <= gate.sent)
  <2>1. UNCHANGED <<gate, dropped, answers, orphaned>>
    BY <1>2 DEF DetachRaw
  <2>2. Placed(h, NotAttached) /\ tries' \in [attach : Nat, replaced : Nat]
    BY <1>1, PlacedOut, ClientFacts
  <2> QED BY <1>1, <2>1, <2>2, HostFrame, NotAttachedFacts
<1>3. CASE Valid(h) /\ host[h].after >= gate.ack /\ host[h].after <= gate.sent
  <2>1. PICK k : k = host[h].after
    OBVIOUS
  <2>2. PICK g : g = acknowledged(gate, k)
    OBVIOUS
  <2>3. /\ gate' = Ended(g) /\ dropped' = dropped \cup {e \in gate.held : e <= k}
        /\ answers' = Answered(Restored(g)) /\ orphaned' = orphaned \cup {e \in shown : e > g.ack}
    BY <1>3, <2>1, <2>2 DEF DetachRaw
  <2>4. /\ k \in Nat /\ k >= gate.ack /\ k <= gate.sent /\ gate.owner = h /\ ~gate.pending /\ gate.ack \in Nat
        /\ gate.suppressed \in Nat /\ gate \in Gate
    BY <1>3, <2>1, ClientFacts DEF Valid
  <2>5. /\ g \in Gate /\ g.owner = gate.owner /\ g.pending = gate.pending /\ g.held = {e \in gate.held : e > k}
        /\ g.start = gate.start /\ g.ack = k /\ g.sent = gate.sent
        /\ g.suppressed = IF gate.suppressed > k THEN gate.suppressed ELSE k
    BY <2>2, <2>4, AcknowledgedFacts
  <2>6. /\ gate' \in Gate /\ gate'.owner = Nobody /\ ~gate'.pending /\ gate'.held = {}
        /\ gate'.start = g.start /\ gate'.ack = g.ack /\ gate'.sent = g.sent
        /\ gate'.suppressed = IF g.pending \/ g.suppressed > g.ack THEN g.suppressed ELSE g.ack
    BY <2>3, <2>5, EndedFacts
  <2>7. gate'.suppressed = IF gate.suppressed > k THEN gate.suppressed ELSE k
    BY <2>4, <2>5, <2>6
  <2>8. Restored(g) = {e \in gate.held : gate.pending \/ e > k} \cup {}
    BY <2>4, <2>5 DEF Restored
  <2>9. Closes(k, {})
    BY <2>3, <2>4, <2>5, <2>6, <2>7, <2>8 DEF Closes
  <2>10. \A e \in Outputs : gate.ack < e /\ e <= k => e \in shown
    <3>1. Placed(h, host[h]) /\ Reached(host[h]) = k
      BY <1>1, <2>1, ClientFacts DEF Reached
    <3> QED BY <1>1, <1>3, <3>1 DEF Placed
  <2>11. Placed(h, NotAttached)' /\ Others(Hosts \ {h})
    BY <2>6, ClosedClients, NotAttachedFacts DEF Placed
  <2>12. Clients' /\ host' \in [Hosts -> Client]
    BY <1>1, <2>6, <2>11, ClientMoves, NotAttachedFacts
  <2>13. /\ gate.ack <= k /\ gate.owner # Nobody
    <3>1. gate.ack <= k
      BY <2>4, SMT
    <3> QED BY <2>4, <3>1, BoundFacts
  <2>14. /\ native' \in [applied : Nat, replies : Seq(Nat)] /\ native'.applied = native.applied
         /\ \A i \in DOMAIN native'.replies : \E j \in DOMAIN native.replies : native'.replies[i] = native.replies[j]
         /\ \A i, j \in DOMAIN native'.replies : i # j => native'.replies[i] # native'.replies[j]
    BY <1>1 DEF AInv, Types, Replies
  <2>15. dropped' \subseteq dropped \cup {e \in gate.held : ~gate.pending /\ e <= k}
    BY <2>3, <2>4
  <2>16. Types' /\ Cursors' /\ Replies' /\ Owned' /\ Unshown' /\ GivenAway'
    <3>1. UNCHANGED <<written, shown, tries>> /\ k \in Nat /\ k <= gate.sent
      BY <1>1, <2>4
    <3> QED BY <2>9, <2>10, <2>12, <2>13, <2>14, <2>15, <3>1, CloseStep, SMT
  <2> QED BY <2>12, <2>16 DEF AInv
<1> QED BY <1>2, <1>3

-----------------------------------------------------------------------------
(* The result.                                                             *)

LEMMA AtFirst == AttachInit => AInv
<1> SUFFICES ASSUME AttachInit PROVE AInv
  OBVIOUS
<1>1. /\ written = 0 /\ native = [applied |-> 0, replies |-> <<>>] /\ native.applied = 0 /\ native.replies = <<>>
      /\ gate = [owner |-> Nobody, pending |-> FALSE, start |-> 0, ack |-> 0, sent |-> 0, suppressed |-> 0, held |-> {}]
      /\ gate.owner = Nobody /\ gate.pending = FALSE /\ gate.start = 0 /\ gate.ack = 0 /\ gate.sent = 0
      /\ gate.suppressed = 0 /\ gate.held = {}
      /\ host = [h \in Hosts |-> NotAttached] /\ answers = [e \in Outputs |-> 0]
      /\ shown = {} /\ dropped = {} /\ orphaned = {} /\ tries = [attach |-> 0, replaced |-> 0]
  BY DEF AttachInit, Outputs
<1>2. IsFiniteSet({}) /\ Cardinality({}) = 0
  BY FS_EmptySet
<1>3. 0 \in Nat /\ 0 <= 0 /\ 0 <= MaxOutput /\ 0 <= HeldCap /\ <<>> \in Seq(Nat) /\ DOMAIN <<>> = {} /\ 0 <= 1
  BY BoundFacts, SMT
<1>4. gate \in Gate
  BY <1>1, <1>3, SMT DEF Gate
<1>5. Types
  <2>1. native \in [applied : Nat, replies : Seq(Nat)] /\ tries \in [attach : Nat, replaced : Nat]
    BY <1>1, <1>3
  <2>2. host \in [Hosts -> Client] /\ answers \in [Outputs -> Nat]
    BY <1>1, <1>3, NotAttachedFacts
  <2> QED BY <1>1, <1>2, <1>3, <1>4, <2>1, <2>2 DEF Types
<1>6. Cursors /\ Replies /\ Owned
  BY <1>1, <1>3 DEF Cursors, Replies, Owned
<1>7. Unshown
  BY <1>1, <1>3 DEF Unshown
<1>8. GivenAway
  <2>1. \A e \in Outputs : ~(e <= 0)
    BY BoundFacts, SMT DEF Outputs
  <2> QED BY <1>1, <2>1 DEF GivenAway
<1>9. Clients
  <2>1. \A h \in Hosts : host[h] = NotAttached /\ gate.owner # h
    BY <1>1, BoundFacts
  <2> QED BY <2>1, NotAttachedFacts DEF Clients, Placed, Valid
<1> QED BY <1>5, <1>6, <1>7, <1>8, <1>9 DEF AInv

LEMMA EachStep == AInv /\ [AttachNext]_attachVars => AInv'
<1> SUFFICES ASSUME AInv, [AttachNext]_attachVars PROVE AInv'
  OBVIOUS
<1>1. CASE UNCHANGED attachVars
  <2>1. UNCHANGED <<written, native, gate, host, answers, shown, dropped, orphaned, tries>>
    BY <1>1 DEF attachVars
  <2> QED BY <2>1 DEF AInv, Types, Cursors, Replies, Owned, Unshown, GivenAway, Clients, Placed, Valid, Live, Awaited, Reached
<1>2. ASSUME NEW h \in Hosts, HostStep(h) PROVE AInv'
  BY <1>2, OfBegin, OfCommit, OfCaptureRefused, OfAcknowledge, OfRead, OfDelivered, OfShows, OfLeaves, OfDetachRaw, OfHostDies
  DEF HostStep
<1> QED BY <1>1, <1>2, OfShellWrites, OfNativeApplies, OfNativeReplaced, OfEffect, OfWatch DEF AttachNext

\* The gate's cursors, the client's and the places an answer can be in fit
\* together, whatever the clients, the renderer and the shell do.
THEOREM GateInvariant == AttachSpec => []AInv
BY AtFirst, EachStep, PTL DEF AttachSpec

\* Every query is answered at most once, by the renderer or by the one
\* physical terminal that showed it, and the gate discards an answer only of
\* what was shown (terminal_attach_gate.go): for every number of clients and
\* of outputs, and every size of the journal, of a batch and of the gate.
THEOREM EveryQueryAnsweredOnce == AttachSpec => []QueriesAnsweredOnce
<1>1. AInv => QueriesAnsweredOnce
  <2> SUFFICES ASSUME AInv PROVE QueriesAnsweredOnce
    OBVIOUS
  <2>1. AttachTypeOK
    <3>1. gate.owner \in Hosts \cup {Nobody} /\ \A h \in Hosts : host[h].pc \in Stages
      BY DEF AInv, Types, Gate, Client
    <3> QED BY <3>1 DEF AInv, Types, Cursors, AttachTypeOK, Stages
  <2>2. AnsweredOnce
    <3> SUFFICES ASSUME NEW e \in Outputs PROVE answers[e] <= 1 \/ e \in orphaned
      BY DEF AnsweredOnce, Outputs
    <3>1. CASE e \in shown \ orphaned
      <4>1. answers[e] = 1
        BY <3>1 DEF AInv, Owned
      <4> QED BY <4>1, SMT
    <3>2. CASE e \notin shown
      BY <3>2 DEF AInv, Unshown
    <3> QED BY <3>1, <3>2
  <2>3. NoQuerySilenced
    BY DEF AInv, GivenAway, NoQuerySilenced
  <2> QED BY <2>1, <2>2, <2>3 DEF QueriesAnsweredOnce
<1> QED BY <1>1, GateInvariant, PTL

=============================================================================
