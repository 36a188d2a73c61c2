-------------------------- MODULE Threads_proofs ---------------------------
(***************************************************************************)
(* Theorems about what several threads share.  What the conversation with  *)
(* the Codex process says reaches the model, for any workers, length of    *)
(* the conversation and behaviour of the process; a topic note is a        *)
(* register with an undo stack, for any writers, proposals and texts; two  *)
(* refreshes of one token file never cost the login; what is said to the   *)
(* voice session while it is silent is heard.                              *)
(***************************************************************************)
EXTENDS MCThreads, SequenceTheorems, WellFoundedInduction, TLAPS

(* The conversation with the Codex process. *)

Labels == Requesting \cup {"idle", "closed", "get", "slice", "open", "ready", "wait"}

\* What the argument needs of the types.
Typed ==
  /\ pc \in [Callers -> Labels] /\ input \in [Callers -> {"message", "nothing"}]
  /\ history \in Int /\ sent \in Int
  /\ clean \in BOOLEAN

Before == {"get", "initialize", "login", "slice"}
After  == {"open", "thread", "ready", "start", "wait"}

\* While the conversation has the provider to itself no worker is in it, and
\* _sent_count is behind the conversation until the slice takes its last message.
Undisturbed ==
  clean =>
    /\ \A w \in Workers : pc[w] = "idle"
    /\ purpose = "turn"
    /\ pc[Session] = "idle" => sent <= history
    /\ pc[Session] \in Before => sent < history
    /\ pc[Session] \in After => input[Session] = "message" /\ sent = history

\* A summary is over before the turn it was made for.
Settled == pc[Session] = "idle" => purpose = "turn"

IInv == Typed /\ Settled /\ Undisturbed

\* The conversation and the workers are distinct callers.
LEMMA SessionIsACaller == Session \in Callers /\ \A w \in Workers : w \in Callers /\ w # Session
BY CodexAssumption DEF Callers

\* Nothing is said, sent or asked to begin with.
LEMMA StartsUndisturbed == Init => IInv
<1> SUFFICES ASSUME Init
             PROVE  IInv
  OBVIOUS
<1>1. Typed
  BY DEF Init, Typed, Labels
<1>2. Settled /\ Undisturbed
  BY SessionIsACaller DEF Init, Settled, Undisturbed, Before, After, Callers
<1> QED
  BY <1>1, <1>2 DEF IInv

\* Nothing the argument speaks of changes.
LEMMA Untouched ==
  ASSUME IInv, UNCHANGED <<pc, input, history, sent, purpose, clean>>
  PROVE  IInv'
BY DEF IInv, Typed, Settled, Undisturbed

\* A caller goes from one label to another, with the same conversation.
LEMMA Moved ==
  ASSUME IInv, NEW c \in Callers, NEW to \in Labels,
         pc' = [pc EXCEPT ![c] = to],
         UNCHANGED <<input, history, sent, purpose, clean>>,
         pc[c] # "idle", to # "idle",
         \/ pc[c] \in Before /\ to \in Before
         \/ pc[c] \in After /\ to \in After
  PROVE  IInv'
<1>1. Typed'
  BY DEF IInv, Typed
<1>2. CASE c = Session
  <2>1. \A w \in Workers : pc'[w] = pc[w]
    BY <1>2, SessionIsACaller DEF IInv, Typed
  <2>2. pc'[Session] = to
    BY <1>2, SessionIsACaller DEF IInv, Typed
  <2> QED
    BY <1>1, <1>2, <2>1, <2>2 DEF IInv, Settled, Undisturbed, Before, After
<1>3. CASE c # Session
  <2>1. c \in Workers
    BY <1>3 DEF Callers
  <2>2. ~clean
    BY <2>1 DEF IInv, Undisturbed
  <2>3. pc'[Session] = pc[Session]
    BY <1>3, SessionIsACaller DEF IInv, Typed
  <2> QED
    BY <1>1, <2>2, <2>3 DEF IInv, Settled, Undisturbed
<1> QED
  BY <1>2, <1>3

\* Once a chat of another's or one that failed has been there nothing is claimed.
LEMMA Disturbed ==
  ASSUME Typed', Settled', clean' = FALSE
  PROVE  IInv'
BY DEF IInv, Undisturbed

\* A message said and a job taken keep the invariant.
LEMMA CallersUndisturbed == IInv /\ (Say \/ \E w \in Workers : Ask(w)) => IInv'
<1> SUFFICES ASSUME IInv, Say \/ \E w \in Workers : Ask(w)
             PROVE  IInv'
  OBVIOUS
<1>1. CASE Say
  <2> USE SessionIsACaller DEF Say, Chat, memory
  <2>1. Typed' /\ Settled'
    <3>1. pc' \in [Callers -> Labels] /\ pc'[Session] = "get"
      BY <1>1 DEF IInv, Typed, Labels
    <3>2. input' = input /\ sent' = sent /\ history' \in Int
      BY <1>1 DEF IInv, Typed
    <3>3. clean' = clean \/ clean' = FALSE
      BY <1>1
    <3>4. clean' \in BOOLEAN
      BY <3>3, Zenon DEF IInv, Typed
    <3> QED
      BY <3>1, <3>2, <3>4 DEF IInv, Typed, Settled
  <2>2. CASE purpose' = "summary"
    BY <1>1, <2>1, <2>2, Disturbed
  <2>3. CASE purpose' # "summary"
    <3>1. purpose' = "turn" /\ UNCHANGED clean
      BY <1>1, <2>3
    <3>2. /\ pc'[Session] = "get" /\ history' = history + 1 /\ sent' = sent
          /\ \A w \in Workers : pc'[w] = pc[w]
      BY <1>1 DEF IInv, Typed
    <3>3. pc[Session] = "idle"
      BY <1>1
    <3> QED
      BY <2>1, <3>1, <3>2, <3>3 DEF IInv, Undisturbed, Typed, Before, After
  <2> QED
    BY <2>2, <2>3
<1>2. ASSUME NEW w \in Workers, Ask(w)
      PROVE  IInv'
  <2>1. Typed' /\ Settled'
    BY <1>2, SessionIsACaller DEF Ask, Chat, IInv, Typed, Settled, Labels, memory, talk
  <2> QED
    BY <1>2, <2>1, Disturbed DEF Ask
<1> QED
  BY <1>1, <1>2

\* So do /new and closing the provider,
LEMMA ResetUndisturbed == IInv /\ (ResetSession \/ Close) => IInv'
<1> SUFFICES ASSUME IInv, ResetSession \/ Close
             PROVE  IInv'
  OBVIOUS
<1>1. CASE ResetSession
  <2>1. Typed'
    BY <1>1 DEF ResetSession, IInv, Typed
  <2>2. Undisturbed'
    <3>1. /\ pc' = pc /\ pc[Session] = "idle" /\ sent' = 0 /\ history' = 0
          /\ purpose' = purpose
          /\ clean' => \A w \in Workers : pc[w] = "idle"
      BY <1>1 DEF ResetSession, talk
    <3>2. purpose = "turn"
      BY <3>1 DEF IInv, Settled
    <3> QED
      BY <3>1, <3>2 DEF Undisturbed, Before, After
  <2> QED
    BY <1>1, <2>1, <2>2 DEF ResetSession, talk, IInv, Settled
<1>2. CASE Close
  <2>1. Typed'
    BY <1>2 DEF Close, IInv, Typed, Labels, memory, talk
  <2>2. pc'[Session] = "closed" /\ \A w \in Workers : pc'[w] = pc[w]
    BY <1>2, SessionIsACaller DEF Close, IInv, Typed
  <2>3. UNCHANGED <<clean, purpose>>
    BY <1>2 DEF Close, talk
  <2> QED
    BY <2>1, <2>2, <2>3 DEF IInv, Settled, Undisturbed, Before, After
<1> QED
  BY <1>1, <1>2

\* The process and the reader touch neither the conversation nor the labels.
LEMMA ProcessUndisturbed ==
  /\ IInv
  /\ \/ Handle \/ Die \/ \E o \in Owners : Complete(o) \/ CallTool(o)
     \/ ReadResponse \/ ReadCompleted \/ RunTool \/ ToolReturns
     \/ UNCHANGED vars
  => IInv'
<1> SUFFICES ASSUME IInv,
                    \/ Handle \/ Die \/ \E o \in Owners : Complete(o) \/ CallTool(o)
                    \/ ReadResponse \/ ReadCompleted \/ RunTool \/ ToolReturns
                    \/ UNCHANGED vars
             PROVE  IInv'
  OBVIOUS
<1>1. UNCHANGED <<pc, input, history, sent, purpose, clean>>
  BY DEF Handle, Die, Complete, CallTool, ReadResponse, ReadCompleted, RunTool, ToolReturns,
         vars, memory, talk, process
<1> QED
  BY <1>1, Untouched

\* What chat does between its first and its last step.
LEMMA ChatUndisturbed ==
  ASSUME IInv, NEW c \in Callers, GetRpc(c) \/ Give(c)
  PROVE  IInv'
<1> USE DEF memory, talk, process, Answered, Request, Abandon
<1>1. CASE Slice(c)
  <2>1. /\ Typed' /\ Settled'
        /\ pc'[c] = "open" /\ UNCHANGED <<clean, purpose, history>>
    BY <1>1, SessionIsACaller DEF Slice, Length, IInv, Typed, Settled, Labels
  <2>2. CASE ~clean
    BY <2>1, <2>2 DEF IInv, Undisturbed
  <2>3. CASE clean
    <3>1. c = Session
      BY <1>1, <2>3 DEF Slice, IInv, Undisturbed, Callers
    <3>2. Length(c) = history /\ sent < history
      BY <1>1, <2>3, <3>1 DEF Slice, Length, IInv, Undisturbed, Before
    <3>3. sent' = history /\ input'[Session] = "message"
      BY <1>1, <3>1, <3>2, SessionIsACaller DEF Slice, IInv, Typed
    <3>4. \A w \in Workers : pc'[w] = pc[w]
      BY <1>1, <3>1, SessionIsACaller DEF Slice, IInv, Typed
    <3> QED
      BY <2>1, <2>3, <3>1, <3>3, <3>4 DEF IInv, Undisturbed, Before, After
  <2> QED
    BY <2>2, <2>3
<1>2. ASSUME NEW to \in Labels, pc' = [pc EXCEPT ![c] = to],
             UNCHANGED <<input, history, sent, purpose, clean>>,
             \/ pc[c] \in Before /\ to \in Before
             \/ pc[c] \in After /\ to \in After
      PROVE  IInv'
  BY <1>2, Moved DEF Before, After
<1>3. CASE GetRpc(c)
  BY <1>2, <1>3 DEF GetRpc, Labels, Requesting, Before
<1>4. CASE Login(c)
  BY <1>2, <1>4 DEF Login, Labels, Requesting, Before
<1>5. CASE LoggedIn(c)
  BY <1>2, <1>5 DEF LoggedIn, Labels, Requesting, Before
<1>6. CASE StartThread(c)
  BY <1>2, <1>6 DEF StartThread, Labels, Requesting, After
<1>7. CASE ThreadStarted(c)
  BY <1>2, <1>7 DEF ThreadStarted, Labels, Requesting, After
<1>8. CASE StartTurn(c)
  BY <1>2, <1>8 DEF StartTurn, Labels, Requesting, After
<1>9. CASE Wait(c)
  BY <1>2, <1>9 DEF Wait, Labels, Requesting, After
<1> QED
  BY <1>1, <1>3, <1>4, <1>5, <1>6, <1>7, <1>8, <1>9 DEF Give

\* a call that fails at any of its stages,
LEMMA FailuresUndisturbed ==
  ASSUME IInv, NEW c \in Callers, NEW transient \in BOOLEAN, Fail(c, transient)
  PROVE  IInv'
<1> USE SessionIsACaller DEF Fail, Rest, Chat, Abandon, memory, talk
<1>1. /\ clean' = FALSE /\ sent' = sent /\ history' \in {history, history - 1}
      /\ input' = [input EXCEPT ![c] = "nothing"]
      /\ pc' = [pc EXCEPT ![c] = "get"] \/ pc' = [pc EXCEPT ![c] = "idle"]
      /\ c # Session => purpose' = purpose
      /\ c = Session => purpose' = "turn" \/ pc' = [pc EXCEPT ![c] = "get"]
  OBVIOUS
<1>2. Typed'
  <2>1. pc' \in [Callers -> Labels] /\ input' \in [Callers -> {"message", "nothing"}]
    BY <1>1 DEF IInv, Typed, Labels
  <2>2. history' \in Int /\ sent' \in Int
    BY <1>1 DEF IInv, Typed
  <2> QED
    BY <1>1, <2>1, <2>2 DEF Typed
<1>3. Settled'
  BY <1>1 DEF IInv, Typed, Settled
<1> QED
  BY <1>1, <1>2, <1>3, Disturbed

\* a call that returns,
LEMMA ReturnsUndisturbed ==
  ASSUME IInv, NEW c \in Callers, Return(c)
  PROVE  IInv'
<1> USE SessionIsACaller DEF Return, Rest, Chat, Abandon, memory, talk
<1>1. /\ UNCHANGED <<clean, sent>> /\ pc[c] = "wait"
      /\ input' = [input EXCEPT ![c] = "nothing"]
      /\ pc' = [pc EXCEPT ![c] = "get"] \/ pc' = [pc EXCEPT ![c] = "idle"]
      /\ c # Session => purpose' = purpose /\ history' = history
      /\ c = Session => purpose' = "turn" \/ purpose' = purpose
  OBVIOUS
<1>2. history' \in Int
  BY DEF IInv, Typed
<1>3. Typed'
  BY <1>1, <1>2 DEF IInv, Typed, Labels
<1>4. Settled'
  <2>1. CASE c = Session
    BY <1>1, <2>1 DEF IInv, Typed, Settled
  <2>2. CASE c # Session
    BY <1>1, <2>2 DEF IInv, Typed, Settled
  <2> QED
    BY <2>1, <2>2
<1>5. CASE clean
  <2>1. c = Session /\ purpose = "turn" /\ sent = history
    BY <1>1, <1>5 DEF IInv, Undisturbed, Callers, After
  <2>2. pc' = [pc EXCEPT ![c] = "idle"] /\ history' = history + 1 /\ purpose' = purpose
    BY <2>1
  <2>3. pc'[Session] = "idle" /\ \A w \in Workers : pc'[w] = pc[w]
    BY <2>1, <2>2 DEF IInv, Typed
  <2> QED
    BY <1>1, <1>3, <1>4, <1>5, <2>1, <2>2, <2>3 DEF IInv, Typed, Undisturbed, Before, After
<1>6. CASE ~clean
  BY <1>1, <1>3, <1>4, <1>6 DEF IInv, Undisturbed
<1> QED
  BY <1>5, <1>6

\* and thus every step.
LEMMA StepsUndisturbed == IInv /\ [Next]_vars => IInv'
<1> SUFFICES ASSUME IInv, [Next]_vars
             PROVE  IInv'
  OBVIOUS
<1>1. CASE Say \/ \E w \in Workers : Ask(w)
  BY <1>1, CallersUndisturbed
<1>2. CASE ResetSession \/ Close
  BY <1>2, ResetUndisturbed
<1>3. ASSUME NEW c \in Callers, ChatStep(c)
      PROVE  IInv'
  <2>1. CASE GetRpc(c) \/ Give(c)
    BY <2>1, ChatUndisturbed
  <2>2. CASE RequestTimesOut(c) \/ Refused(c) \/ BrokenPipe(c) \/ WaitTimesOut(c)
    BY <2>2, FailuresUndisturbed DEF RequestTimesOut, Refused, BrokenPipe, WaitTimesOut
  <2>3. CASE Return(c)
    BY <2>3, ReturnsUndisturbed
  <2> QED
    BY <1>3, <2>1, <2>2, <2>3 DEF ChatStep, Ends
<1>4. CASE \/ Handle \/ Die \/ \E o \in Owners : Complete(o) \/ CallTool(o)
           \/ ReadResponse \/ ReadCompleted \/ RunTool \/ ToolReturns
           \/ UNCHANGED vars
  BY <1>4, ProcessUndisturbed
<1> QED
  BY <1>1, <1>2, <1>3, <1>4 DEF Next

(* While the conversation has the provider to itself and its turns were all *)
(* answered, each message of it is the input of its turn: _sent_count never *)
(* runs ahead of the list chat is given (providers/codex.py, chat).         *)
THEOREM Heard == Spec => []ConversationIsHeard
<1>1. IInv => ConversationIsHeard
  BY DEF IInv, Undisturbed, After, ConversationIsHeard
<1> QED
  BY StartsUndisturbed, StepsUndisturbed, <1>1, PTL DEF Spec

-----------------------------------------------------------------------------
(* A topic note.  First what its rows and their removal come to. *)

\* A set of natural numbers that is not empty has a least member.
LEMMA LeastNatural ==
  ASSUME NEW T \in SUBSET Nat, T # {}
  PROVE  \E x \in T : \A y \in T : x <= y
<1>1. IsWellFoundedOn(OpToRel(<, Nat), Nat)
  BY NatLessThanWellFounded
<1>2. PICK x \in T : \A y \in T : ~ (<<y, x>> \in OpToRel(<, Nat))
  BY <1>1, WFMin
<1>3. ASSUME NEW y \in T PROVE x <= y
  <2>1. x \in Nat /\ y \in Nat
    OBVIOUS
  <2>2. ~ (y < x)
    BY <1>2, <2>1 DEF OpToRel
  <2> QED
    BY <2>1, <2>2
<1> QED
  BY <1>3

\* Taking out one element leaves the others in their order.
LEMMA RemoveAtProperties ==
  ASSUME NEW S, NEW s \in Seq(S), NEW i \in 1..Len(s)
  PROVE  /\ RemoveAt(s, i) \in Seq(S) /\ Len(RemoveAt(s, i)) = Len(s) - 1
         /\ \A j \in 1..(Len(s) - 1) : RemoveAt(s, i)[j] = IF j < i THEN s[j] ELSE s[j + 1]
<1> DEFINE a == SubSeq(s, 1, i - 1)
           b == SubSeq(s, i + 1, Len(s))
<1>1. Len(s) \in Nat
  OBVIOUS
<1>2. a \in Seq(S) /\ Len(a) = i - 1 /\ \A j \in 1..(i - 1) : a[j] = s[j]
  BY <1>1
<1>3. b \in Seq(S) /\ Len(b) = Len(s) - i /\ \A j \in 1..(Len(s) - i) : b[j] = s[i + j]
  BY <1>1
<1> HIDE DEF a, b
<1>4. /\ a \o b \in Seq(S) /\ Len(a \o b) = Len(a) + Len(b)
      /\ \A j \in 1..(Len(a) + Len(b)) : (a \o b)[j] = IF j <= Len(a) THEN a[j] ELSE b[j - Len(a)]
  BY <1>2, <1>3, ConcatProperties
<1>5. RemoveAt(s, i) = a \o b
  BY DEF RemoveAt, a, b
<1>6. Len(a) + Len(b) = Len(s) - 1 /\ Len(a) = i - 1
  BY <1>1, <1>2, <1>3
<1>7. ASSUME NEW j \in 1..(Len(s) - 1)
      PROVE  (a \o b)[j] = IF j < i THEN s[j] ELSE s[j + 1]
  <2>1. CASE j < i
    <3>1. (a \o b)[j] = a[j] /\ j \in 1 .. (i - 1)
      BY <1>1, <1>4, <1>6, <2>1
    <3> QED
      BY <1>2, <2>1, <3>1
  <2>2. CASE ~ (j < i)
    <3>1. j - (i - 1) \in 1..(Len(s) - i) /\ i + (j - (i - 1)) = j + 1
      BY <1>1, <2>2
    <3>2. (a \o b)[j] = b[j - (i - 1)]
      BY <1>1, <1>4, <1>6, <2>2
    <3> QED
      BY <1>3, <2>2, <3>1, <3>2
  <2> QED
    BY <2>1, <2>2
<1>8. RemoveAt(s, i) \in Seq(S) /\ Len(RemoveAt(s, i)) = Len(s) - 1
  BY <1>4, <1>5, <1>6
<1> QED
  BY <1>5, <1>7, <1>8

\* Where the row with an id is, if there is one.
LEMMA FirstOfId ==
  ASSUME NEW s, NEW k, Len(s) \in Nat, NEW i \in 1..Len(s), s[i].id = k
  PROVE  LET f == SelectInSeq(s, LAMBDA r : r.id = k)
         IN  f \in 1..Len(s) /\ s[f].id = k
<1> DEFINE I == {j \in 1..Len(s) : s[j].id = k}
<1>1. I \in SUBSET Nat /\ I # {}
  OBVIOUS
<1>2. Min(I) \in I
  BY <1>1, LeastNatural DEF Min
<1>3. SelectInSeq(s, LAMBDA r : r.id = k) = Min(I)
  BY <1>1 DEF SelectInSeq
<1> QED
  BY <1>2, <1>3

\* DELETE ... WHERE id = k: at most one row goes.
LEMMA DeletedById ==
  ASSUME NEW S, NEW s \in Seq(S), NEW k
  PROVE  Note!WithoutRow(s, k) = s \/ \E i \in 1..Len(s) : s[i].id = k /\ Note!WithoutRow(s, k) = RemoveAt(s, i)
<1>1. CASE \E i \in 1..Len(s) : s[i].id = k
  <2> DEFINE f == SelectInSeq(s, LAMBDA r : r.id = k)
  <2>1. f \in 1..Len(s) /\ s[f].id = k
    BY <1>1, FirstOfId, LenProperties
  <2>2. Note!WithoutRow(s, k) = RemoveAt(s, f)
    <3>1. RemoveFirstMatch(s, LAMBDA r : r.id = k) = RemoveAt(s, f)
      BY <1>1 DEF RemoveFirstMatch
    <3> QED
      BY <3>1
      DEF Note!WithoutRow, Note!RemoveFirstMatch, RemoveFirstMatch, Note!SelectInSeq, SelectInSeq,
         Note!RemoveAt, RemoveAt, Min, Note!Min
  <2> QED
    BY <2>1, <2>2
<1>2. CASE ~ \E i \in 1..Len(s) : s[i].id = k
  <2>1. RemoveFirstMatch(s, LAMBDA r : r.id = k) = s
    BY <1>2 DEF RemoveFirstMatch
  <2> QED
    BY <2>1
    DEF Note!WithoutRow, Note!RemoveFirstMatch, RemoveFirstMatch, Note!SelectInSeq, SelectInSeq,
       Note!RemoveAt, RemoveAt, Min, Note!Min
<1> QED
  BY <1>1, <1>2

\* The last row taken out by an id that no other row has.
LEMMA LastDeletedById ==
  ASSUME NEW S, NEW s \in Seq(S), s # <<>>,
         \A i, j \in 1..Len(s) : s[i].id = s[j].id => i = j
  PROVE  Note!WithoutRow(s, Last(s).id) = Front(s)
<1>1. Len(s) \in Nat \ {0} /\ s[Len(s)].id = Last(s).id
  BY LenProperties, EmptySeq DEF Last
<1>2. PICK i \in 1..Len(s) :
        s[i].id = Last(s).id /\ Note!WithoutRow(s, Last(s).id) = RemoveAt(s, i)
  <2> DEFINE k == Last(s).id
             f == SelectInSeq(s, LAMBDA r : r.id = k)
  <2>1. \E i \in 1..Len(s) : s[i].id = k
    BY <1>1
  <2> HIDE DEF k
  <2>2. f \in 1..Len(s) /\ s[f].id = k
    BY <2>1, FirstOfId, LenProperties, ZenonT(30)
  <2>3. Note!WithoutRow(s, k) = RemoveAt(s, f)
    <3>1. RemoveFirstMatch(s, LAMBDA r : r.id = k) = RemoveAt(s, f)
      BY <2>1 DEF RemoveFirstMatch
    <3> QED
      BY <3>1
      DEF Note!WithoutRow, Note!RemoveFirstMatch, RemoveFirstMatch, Note!SelectInSeq, SelectInSeq,
         Note!RemoveAt, RemoveAt, Min, Note!Min
  <2> QED
    BY <2>2, <2>3 DEF k
<1>3. i = Len(s)
  BY <1>1, <1>2
<1>4. SubSeq(s, 1, Len(s) - 1) \in Seq(S)
  BY <1>1
<1>5. SubSeq(s, Len(s) + 1, Len(s)) = <<>>
  BY <1>1
<1> QED
  BY <1>1, <1>2, <1>3, <1>4, <1>5, ConcatEmptySeq DEF RemoveAt, Front

NoteJob(n) == [at : {"idle", "remember", "delete", "snapshot", "draft", "record", "write",
                     "unindex", "promote", "import", "retire", "restore", "reopen", "reindex",
                     "insert", "consume", "forget"},
               prior : Note!Contents, new : Note!Contents,
               proposal : Proposals \cup {Note!NoProposal}, row : 0 .. n]
NoteRow(n) == [id : 1 .. n, proposal : Proposals \cup {Note!NoProposal}, prior : Note!Contents]

NoteTypes ==
  /\ file \in Note!Contents /\ import \in BOOLEAN
  /\ revisions \in 0 .. MaxRevisions /\ faults \in 0 .. MaxFaults
  /\ revs \in Seq(NoteRow(revisions))
  /\ previews \subseteq [proposal : Proposals \cup {Note!NoProposal}, base : Note!Contents,
                         draft : Note!Contents]
  /\ reviews \in [Proposals -> {"pending", "promoted", "rejected"}] /\ chunks \subseteq Proposals
  /\ jobs \in [Writers -> NoteJob(revisions)]
  /\ overlap \in BOOLEAN

\* Who works on a proposal's row or chunk has a proposal.
ReviewsAreOfProposals ==
  \A w \in Writers :
    jobs[w].at \in {"record", "write", "unindex", "promote", "reopen", "reindex", "insert"} =>
      jobs[w].proposal # Note!NoProposal

\* Until two operations overlap, one writer at most is in one.
OneAtATime ==
  ~overlap => \A v, w \in Writers : Note!Busy(v) /\ Note!Busy(w) => v = w

\* No two undo rows have the same id.
RowsHaveIds ==
  \A i, j \in 1 .. Len(revs) : revs[i].id = revs[j].id => i = j

\* What a writer read is still so: the text it is about to replace, and the row it
\* made or goes back to.
ReadHolds(w) ==
  /\ jobs[w].at \in {"remember", "delete", "record"} => jobs[w].prior = file
  /\ jobs[w].at \in {"write", "restore", "reopen", "reindex", "insert", "consume"} => revs # <<>>
  /\ jobs[w].at \in {"write", "reopen", "reindex", "insert", "consume"} =>
       Last(revs).prior = file
  /\ jobs[w].at = "restore" => Last(revs).prior = jobs[w].new
  /\ jobs[w].at \in {"restore", "reopen", "reindex", "insert", "consume"} =>
       Last(revs).id = jobs[w].row

\* It is, while operations do not overlap.
ReadsStillHold == ~overlap => \A w \in Writers : ReadHolds(w)

NoteIInv ==
  /\ NoteTypes /\ ReviewsAreOfProposals /\ OneAtATime /\ RowsHaveIds /\ ReadsStillHold
  /\ PendingIsSearchable

\* In a step, writer w comes to r and the others stay where they are.
ComesTo(w, r) ==
  /\ jobs' \in [Writers -> NoteJob(revisions')] /\ jobs'[w] = r
  /\ \A v \in Writers : v # w => jobs'[v] = jobs[v]

\* With the last operation in it, an overlap ends.
EndsOverlap(w) == overlap' = (overlap /\ \E v \in Writers \ {w} : Note!Busy(v))

\* A writer at rest is a writer.
LEMMA IdleIsJob == \A n \in Nat : Note!Idle \in NoteJob(n)
  BY DEF Note!Idle, NoteJob, Note!Contents, Note!NoRow

\* What the bounds and the placeholders are.
LEMMA NoteNumbers == Assumptions => MaxRevisions \in Nat /\ MaxFaults \in Nat /\ Proposals \subseteq Nat \ {0}
<1> QED
  BY DEF Assumptions, Note!NotesAssumption

\* The note is empty, and so is its history.
LEMMA NoteInit == Assumptions /\ Note!Init => NoteIInv
<1> SUFFICES ASSUME Assumptions, Note!Init PROVE NoteIInv
  OBVIOUS
<1> USE DEF Note!Init, Note!Contents, Note!Empty, Note!Idle, Note!NoProposal, Note!NoRow
<1>1. NoteTypes
  <2>1. revisions \in 0 .. MaxRevisions /\ faults \in 0 .. MaxFaults
    BY NoteNumbers
  <2>2. revs \in Seq(NoteRow(revisions))
    BY EmptySeq
  <2>3. jobs \in [Writers -> NoteJob(revisions)]
    BY DEF NoteJob
  <2> QED
    BY <2>1, <2>2, <2>3 DEF NoteTypes
<1>2. ReviewsAreOfProposals /\ OneAtATime
  BY DEF ReviewsAreOfProposals, OneAtATime, Note!Busy
<1>3. RowsHaveIds
  BY DEF RowsHaveIds
<1>4. ReadsStillHold
  BY DEF ReadsStillHold, ReadHolds
<1>5. PendingIsSearchable
  BY DEF PendingIsSearchable, Note!PendingIsSearchable
<1> QED
  BY <1>1, <1>2, <1>3, <1>4, <1>5 DEF NoteIInv

\* How a writer moves on: it begins, goes to its next step, writes, or ends.
LEMMA NoteBegin ==
  ASSUME NoteTypes, NEW w \in Writers, NEW r \in NoteJob(revisions), Note!Begin(w, r),
         revisions' = revisions
  PROVE  /\ ComesTo(w, r) /\ jobs[w].at = "idle"
         /\ overlap' = (overlap \/ \E v \in Writers : Note!Busy(v))
<1> QED
  BY DEF NoteTypes, Note!Begin, Note!At, ComesTo

\* A writer goes on, leaving the note and its rows alone.
LEMMA NoteMove ==
  ASSUME NoteTypes, NEW w \in Writers, NEW l, Note!Move(w, l), revisions' \in Nat, revisions <= revisions',
         l \in {"snapshot", "write", "promote", "reindex", "insert", "consume"}
  PROVE  ComesTo(w, [jobs[w] EXCEPT !.at = l])
<1>1. jobs[w] \in NoteJob(revisions)
  BY DEF NoteTypes
<1>2. [jobs[w] EXCEPT !.at = l] \in NoteJob(revisions')
  BY <1>1 DEF NoteJob, NoteTypes
<1>3. \A v \in Writers : jobs[v] \in NoteJob(revisions')
  BY DEF NoteTypes, NoteJob
<1>4. jobs' = [jobs EXCEPT ![w] = [jobs[w] EXCEPT !.at = l]]
  BY DEF Note!Move
<1> QED
  BY <1>2, <1>3, <1>4 DEF NoteTypes, ComesTo

\* A writer writes the note.
LEMMA NoteWrite ==
  ASSUME NoteTypes, NEW w \in Writers, NEW l, Note!Write(w, l), revisions' = revisions,
         l \in {"snapshot", "unindex", "retire", "reopen", "consume"}
  PROVE  /\ file' = jobs[w].new /\ file' \in Note!Contents
         /\ ComesTo(w, [jobs[w] EXCEPT !.at = l, !.new = Note!Empty,
                                       !.prior = IF l = "snapshot" THEN @ ELSE Note!Empty])
<1>1. jobs[w] \in NoteJob(revisions)
  BY DEF NoteTypes
<1>2. [jobs[w] EXCEPT !.at = l, !.new = Note!Empty,
                      !.prior = IF l = "snapshot" THEN @ ELSE Note!Empty] \in NoteJob(revisions)
  BY <1>1 DEF NoteJob, Note!Contents
<1>3. jobs' = [jobs EXCEPT ![w] = [jobs[w] EXCEPT !.at = l, !.new = Note!Empty,
                      !.prior = IF l = "snapshot" THEN @ ELSE Note!Empty]]
  BY <1>1 DEF Note!Write, NoteTypes, NoteJob
<1> QED
  BY <1>1, <1>2, <1>3 DEF NoteTypes, ComesTo, Note!Write, NoteJob

\* A writer is done.
LEMMA NoteEnd ==
  ASSUME NoteTypes, NEW w \in Writers, Note!End(w), revisions' \in Nat, revisions <= revisions'
  PROVE  ComesTo(w, Note!Idle) /\ EndsOverlap(w)
<1>1. Note!Idle \in NoteJob(revisions')
  BY DEF Note!Idle, NoteJob, Note!Contents, Note!NoRow
<1>2. \A v \in Writers : jobs[v] \in NoteJob(revisions')
  BY DEF NoteTypes, NoteJob
<1> QED
  BY <1>1, <1>2 DEF NoteTypes, ComesTo, Note!End, EndsOverlap

\* One operation at a time, after each of these.
LEMMA OneGoesOn ==
  ASSUME OneAtATime, NEW w \in Writers, NEW r, ComesTo(w, r),
         (overlap => overlap') \/ (r.at = "idle" /\ EndsOverlap(w)),
         Note!Busy(w) \/ r.at \in {"idle", "draft"} \/ (overlap' = (overlap \/ \E v \in Writers : Note!Busy(v)))
  PROVE  OneAtATime'
<1> QED
  BY DEF OneAtATime, ComesTo, Note!Busy, EndsOverlap

\* A review goes from one statement to the next.
LEMMA ReviewGoesOn ==
  ASSUME ReviewsAreOfProposals, NEW w \in Writers, NEW r, ComesTo(w, r),
         r.at \in {"record", "write", "unindex", "promote", "reopen", "reindex", "insert"} =>
           r.proposal # Note!NoProposal
  PROVE  ReviewsAreOfProposals'
<1> QED
  BY DEF ReviewsAreOfProposals, ComesTo

\* What the one writer at work read holds; nobody else has read anything.
LEMMA ReadsGoOn ==
  ASSUME OneAtATime, ReadsStillHold, NEW w \in Writers, NEW r, ComesTo(w, r),
         (overlap => overlap') \/ EndsOverlap(w),
         Note!Busy(w) \/ (overlap' = (overlap \/ \E v \in Writers : Note!Busy(v))) \/ UNCHANGED <<file, revs>>,
         ~overlap' => ReadHolds(w)'
  PROVE  ReadsStillHold'
<1> SUFFICES ASSUME ~overlap', NEW v \in Writers, v # w PROVE ReadHolds(v)'
  BY DEF ReadsStillHold
<1>1. jobs'[v] = jobs[v]
  BY DEF ComesTo
<1>2. CASE jobs[v].at \in {"idle", "draft"}
  BY <1>1, <1>2 DEF ReadHolds
<1>3. CASE jobs[v].at \notin {"idle", "draft"}
  <2>1. ~overlap /\ Note!Busy(v)
    BY <1>3 DEF EndsOverlap, Note!Busy
  <2>2. ReadHolds(v) /\ UNCHANGED <<file, revs>>
    BY <2>1 DEF ReadsStillHold, OneAtATime
  <2> QED
    BY <1>1, <2>2 DEF ReadHolds
<1> QED
  BY <1>2, <1>3

\* Reviews and chunks stay as they are, and nobody leaves a proposal waiting.
LEMMA SearchGoesOn ==
  ASSUME PendingIsSearchable, NEW w \in Writers, NEW r, ComesTo(w, r), UNCHANGED <<reviews, chunks>>,
         faults' = 0 => faults = 0,
         faults = 0 /\ jobs[w].at \in {"promote", "reindex", "insert"} => r.at \in {"promote", "reindex", "insert"} /\ r.proposal = jobs[w].proposal
  PROVE  PendingIsSearchable'
<1> QED
  BY DEF PendingIsSearchable, Note!PendingIsSearchable, ComesTo

\* A revision row is added under a number not used before.
LEMMA NextRow ==
  ASSUME NoteTypes, RowsHaveIds, NEW p \in Proposals \cup {Note!NoProposal}, NEW c \in Note!Contents, Note!Revision(p, c), Assumptions
  PROVE  /\ revisions' \in 0 .. MaxRevisions /\ revisions' \in Nat /\ revisions <= revisions' 
         /\ revs' \in Seq(NoteRow(revisions'))
         /\ Len(revs') = Len(revs) + 1 /\ \A i \in 1 .. Len(revs) : revs'[i] = revs[i]
         /\ revs' # <<>> /\ Last(revs').prior = c /\ RowsHaveIds'
<1> DEFINE row == [id |-> revisions', proposal |-> p, prior |-> c]
<1>1. revisions' \in 0 .. MaxRevisions /\ revisions' = revisions + 1 /\ revisions \in Nat
  BY NoteNumbers DEF Note!Revision, NoteTypes
<1>2. row \in NoteRow(revisions')
  BY <1>1 DEF NoteRow
<1>3. NoteRow(revisions) \subseteq NoteRow(revisions')
  BY <1>1 DEF NoteRow
<1>4. revs \in Seq(NoteRow(revisions'))
  BY <1>3, SeqMonotonic DEF NoteTypes
<1>5. revs' = Append(revs, row)
  BY DEF Note!Revision
<1> HIDE DEF row
<1>6. /\ revs' \in Seq(NoteRow(revisions')) /\ Len(revs') = Len(revs) + 1
      /\ \A i \in 1 .. Len(revs) : revs'[i] = revs[i]
      /\ revs'[Len(revs) + 1] = row /\ revs' # <<>>
  BY <1>2, <1>4, <1>5, AppendProperties
<1>7. Last(revs').prior = c
  BY <1>6 DEF Last, row
<1>8. RowsHaveIds'
  <2>1. Len(revs) \in Nat /\ \A i \in 1 .. Len(revs) : revs[i].id \in 1 .. revisions
    <3>1. Len(revs) \in Nat /\ \A i \in 1 .. Len(revs) : revs[i] \in NoteRow(revisions)
      BY LenProperties DEF NoteTypes
    <3> QED
      BY <3>1 DEF NoteRow
  <2>2. \A i \in 1 .. Len(revs) : revs'[i].id = revs[i].id /\ revs'[i].id # revisions'
    BY <1>1, <1>6, <2>1
  <2>3. revs'[Len(revs) + 1].id = revisions'
    BY <1>6 DEF row
  <2> QED
    BY <1>6, <2>1, <2>2, <2>3 DEF RowsHaveIds
<1> QED
  BY <1>1, <1>6, <1>7, <1>8

\* A revision row is taken out, by its number.
LEMMA RowTakenOut ==
  ASSUME NEW S, revs \in Seq(S), RowsHaveIds, NEW k,
         revs' = Note!WithoutRow(revs, k)
  PROVE  revs' \in Seq(S) /\ RowsHaveIds'
<1>1. CASE revs' = revs
  BY <1>1 DEF RowsHaveIds
<1>2. ASSUME NEW i \in 1 .. Len(revs), revs' = RemoveAt(revs, i)
      PROVE  revs' \in Seq(S) /\ RowsHaveIds'
  <2>1. /\ revs' \in Seq(S) /\ Len(revs') = Len(revs) - 1
        /\ \A j \in 1 .. (Len(revs) - 1) : revs'[j] = IF j < i THEN revs[j] ELSE revs[j + 1]
    BY <1>2, RemoveAtProperties
  <2>2. Len(revs) \in Nat
    BY LenProperties
  <2> QED
    <3>1. \A j \in 1 .. Len(revs') :
            \E m \in 1 .. Len(revs) : revs'[j] = revs[m] /\ m = IF j < i THEN j ELSE j + 1
      BY <2>1, <2>2
    <3> QED
      BY <2>1, <2>2, <3>1 DEF RowsHaveIds
<1>3. revs' = revs \/ \E i \in 1 .. Len(revs) : revs' = RemoveAt(revs, i)
  BY DeletedById
<1> QED
  BY <1>1, <1>2, <1>3

\* Every step of the writers, of forgetting and of a stop keeps it.
LEMMA NoteNext == Assumptions /\ NoteIInv /\ [Note!Next]_(Note!vars) => NoteIInv'
<1> SUFFICES ASSUME Assumptions, NoteIInv, [Note!Next]_(Note!vars) PROVE NoteIInv'
  OBVIOUS
<1>0. /\ NoteTypes /\ ReviewsAreOfProposals /\ OneAtATime /\ RowsHaveIds /\ ReadsStillHold
      /\ PendingIsSearchable /\ revisions \in Nat /\ revisions <= revisions
  BY NoteNumbers DEF NoteIInv, NoteTypes
<1>a. revisions \in Nat
  BY <1>0
<1>1. ASSUME NEW w \in Writers, NEW text \in Texts, Note!Remember(w, text) PROVE NoteIInv'
  <2> DEFINE r == [Note!Idle EXCEPT !.at = "remember", !.prior = file, !.new = text]
  <2>1. r.at = "remember" /\ r.prior = file
    BY <1>0, <1>1 DEF NoteTypes, NoteJob, Note!Contents, Note!Empty, Note!NoRow,
                      Note!NoProposal, Note!Idle
  <2>2. r \in NoteJob(revisions)
    <3>1. file \in Note!Contents /\ text \in Note!Contents /\ Note!Empty \in Note!Contents
      BY <1>0 DEF NoteTypes, Note!Contents
    <3> QED
      BY <1>a, <3>1, IdleIsJob DEF NoteJob
  <2>3. /\ ComesTo(w, r) /\ jobs[w].at = "idle"
        /\ overlap' = (overlap \/ \E v \in Writers : Note!Busy(v))
    BY <1>0, <1>1, <2>2, NoteBegin DEF Note!Remember, Note!LatestTopicRevision
  <2> HIDE DEF r
  <2>4. NoteTypes'
    BY <1>0, <1>1, <2>1, <2>3 DEF Note!Remember, NoteTypes, ComesTo, Note!store
  <2>5. OneAtATime'
    BY <1>0, <1>1, <2>1, <2>3, OneGoesOn DEF Note!Remember, Note!Busy
  <2>6. ReviewsAreOfProposals'
    BY <1>0, <1>1, <2>1, <2>3, ReviewGoesOn DEF ReviewsAreOfProposals
  <2>7. RowsHaveIds'
    BY <1>0, <1>1 DEF Note!Remember, Note!store, RowsHaveIds
  <2>8. ~overlap' => ReadHolds(w)'
    BY <1>0, <1>1, <2>1, <2>3 DEF Note!Remember, Note!store, ComesTo, ReadHolds, ReadsStillHold
  <2>9. ReadsStillHold'
    BY <1>0, <1>1, <2>1, <2>3, <2>8, ReadsGoOn DEF Note!Remember, Note!store, Note!Busy
  <2>10. PendingIsSearchable'
    BY <1>0, <1>1, <2>1, <2>3, SearchGoesOn DEF Note!Remember, Note!store
  <2> QED
    BY <2>4, <2>5, <2>6, <2>7, <2>9, <2>10 DEF NoteIInv
<1>2. ASSUME NEW w \in Writers, Note!WriteNote(w) PROVE NoteIInv'
  <2> DEFINE r == [jobs[w] EXCEPT !.at = "snapshot", !.new = Note!Empty, !.prior = @]
  <2>1. r.at = "snapshot" /\ r.row = jobs[w].row /\ r.proposal = jobs[w].proposal
    BY <1>0, <1>2 DEF NoteTypes, NoteJob, Note!Contents, Note!Empty, Note!NoRow,
                      Note!NoProposal, Note!Idle
  <2>3. ComesTo(w, r) /\ jobs[w].at = "remember" /\ file' = jobs[w].new /\ file' \in Note!Contents
    BY <1>0, <1>2, NoteWrite DEF Note!WriteNote, Note!At
  <2> HIDE DEF r
  <2>4. NoteTypes'
    BY <1>0, <1>2, <2>1, <2>3 DEF Note!WriteNote, NoteTypes, ComesTo, Note!store
  <2>5. OneAtATime'
    BY <1>0, <1>2, <2>1, <2>3, OneGoesOn DEF Note!WriteNote, Note!Busy
  <2>6. ReviewsAreOfProposals'
    BY <1>0, <1>2, <2>1, <2>3, ReviewGoesOn DEF ReviewsAreOfProposals
  <2>7. RowsHaveIds'
    BY <1>0, <1>2 DEF Note!WriteNote, Note!store, RowsHaveIds
  <2>8. ~overlap' => ReadHolds(w)'
    BY <1>0, <1>2, <2>1, <2>3 DEF Note!WriteNote, Note!store, ComesTo, ReadHolds, ReadsStillHold
  <2>9. ReadsStillHold'
    BY <1>0, <1>2, <2>1, <2>3, <2>8, ReadsGoOn DEF Note!WriteNote, Note!store, Note!Busy
  <2>10. PendingIsSearchable'
    BY <1>0, <1>2, <2>1, <2>3, SearchGoesOn DEF Note!WriteNote, Note!store
  <2> QED
    BY <2>4, <2>5, <2>6, <2>7, <2>9, <2>10 DEF NoteIInv
<1>3. ASSUME NEW w \in Writers, Note!Delete(w) PROVE NoteIInv'
  <2> DEFINE r == [Note!Idle EXCEPT !.at = "delete", !.prior = file]
  <2>1. r.at = "delete" /\ r.prior = file
    BY <1>0, <1>3 DEF NoteTypes, NoteJob, Note!Contents, Note!Empty, Note!NoRow,
                      Note!NoProposal, Note!Idle
  <2>2. r \in NoteJob(revisions)
    <3>1. file \in Note!Contents /\ Note!Empty \in Note!Contents
      BY <1>0 DEF NoteTypes, Note!Contents
    <3> QED
      BY <1>a, <3>1, IdleIsJob DEF NoteJob
  <2>3. /\ ComesTo(w, r) /\ jobs[w].at = "idle"
        /\ overlap' = (overlap \/ \E v \in Writers : Note!Busy(v))
    BY <1>0, <1>3, <2>2, NoteBegin DEF Note!Delete, Note!LatestTopicRevision
  <2> HIDE DEF r
  <2>4. NoteTypes'
    BY <1>0, <1>3, <2>1, <2>3 DEF Note!Delete, NoteTypes, ComesTo, Note!store
  <2>5. OneAtATime'
    BY <1>0, <1>3, <2>1, <2>3, OneGoesOn DEF Note!Delete, Note!Busy
  <2>6. ReviewsAreOfProposals'
    BY <1>0, <1>3, <2>1, <2>3, ReviewGoesOn DEF ReviewsAreOfProposals
  <2>7. RowsHaveIds'
    BY <1>0, <1>3 DEF Note!Delete, Note!store, RowsHaveIds
  <2>8. ~overlap' => ReadHolds(w)'
    BY <1>0, <1>3, <2>1, <2>3 DEF Note!Delete, Note!store, ComesTo, ReadHolds, ReadsStillHold
  <2>9. ReadsStillHold'
    BY <1>0, <1>3, <2>1, <2>3, <2>8, ReadsGoOn DEF Note!Delete, Note!store, Note!Busy
  <2>10. PendingIsSearchable'
    BY <1>0, <1>3, <2>1, <2>3, SearchGoesOn DEF Note!Delete, Note!store
  <2> QED
    BY <2>4, <2>5, <2>6, <2>7, <2>9, <2>10 DEF NoteIInv
<1>4. ASSUME NEW w \in Writers, Note!Unlink(w) PROVE NoteIInv'
  <2>1. jobs[w].at = "delete"
    BY <1>4 DEF Note!Unlink, Note!At
  <2>2. /\ UNCHANGED <<revs, previews, reviews, chunks, import, revisions, faults>>
        /\ file' \in Note!Contents
    BY <1>4 DEF Note!Unlink, Note!Contents
  <2>3. PICK r : /\ ComesTo(w, r) /\ r.at \in {"idle", "snapshot"}
                 /\ UNCHANGED overlap \/ (r.at = "idle" /\ EndsOverlap(w))
    <3>1. CASE file # Note!Empty
      <4>1. Note!Move(w, "snapshot") /\ UNCHANGED overlap
        BY <1>4, <3>1 DEF Note!Unlink
      <4>2. [jobs[w] EXCEPT !.at = "snapshot"].at = "snapshot"
        BY <1>0 DEF NoteTypes, NoteJob
      <4> QED
        BY <1>0, <2>2, <4>1, <4>2, NoteMove
    <3>2. CASE file = Note!Empty
      <4>1. Note!End(w)
        BY <1>4, <3>2 DEF Note!Unlink
      <4> QED
        BY <1>0, <2>2, <4>1, NoteEnd DEF Note!Idle
    <3> QED
      BY <3>1, <3>2
  <2>4. NoteTypes' /\ RowsHaveIds'
    BY <1>0, <2>2, <2>3 DEF NoteTypes, ComesTo, RowsHaveIds, EndsOverlap
  <2>5. OneAtATime' /\ ReviewsAreOfProposals'
    BY <1>0, <2>1, <2>2, <2>3, OneGoesOn, ReviewGoesOn DEF Note!Busy
  <2>6. ~overlap' => ReadHolds(w)'
    BY <1>0, <2>1, <2>2, <2>3 DEF ReadHolds, ReadsStillHold, ComesTo
  <2>7. ReadsStillHold'
    BY <1>0, <2>1, <2>2, <2>3, <2>6, ReadsGoOn DEF Note!Busy
  <2>8. PendingIsSearchable'
    BY <1>0, <2>1, <2>2, <2>3, SearchGoesOn
  <2> QED
    BY <2>4, <2>5, <2>7, <2>8 DEF NoteIInv
<1>5. ASSUME NEW w \in Writers, Note!RecordRevision(w) PROVE NoteIInv'
  <2> DEFINE r == Note!Idle
  <2>1. r.at = "idle"
    BY DEF Note!Idle
  <2>2. /\ revisions' \in 0 .. MaxRevisions /\ revisions' \in Nat /\ revisions <= revisions'
        /\ revs' \in Seq(NoteRow(revisions')) /\ RowsHaveIds'
        /\ revs' # <<>> /\ Last(revs').prior = jobs[w].prior
    <3>1. jobs[w] \in NoteJob(revisions)
      BY <1>0 DEF NoteTypes
    <3>2. Note!NoProposal \in Proposals \cup {Note!NoProposal} /\ jobs[w].prior \in Note!Contents
      BY <3>1 DEF NoteJob
    <3>3. Note!Revision(Note!NoProposal, jobs[w].prior)
      BY <1>5 DEF Note!RecordRevision
    <3> QED
      BY <1>0, <3>2, <3>3, NextRow
  <2>3. ComesTo(w, r) /\ EndsOverlap(w) /\ jobs[w].at = "snapshot"
    BY <1>0, <1>5, <2>2, NoteEnd DEF Note!RecordRevision, Note!At
  <2> HIDE DEF r
  <2>4. NoteTypes'
    BY <1>0, <1>5, <2>1, <2>2, <2>3
    DEF Note!RecordRevision, NoteTypes, ComesTo, EndsOverlap, Note!store
  <2>5. OneAtATime'
    BY <1>0, <1>5, <2>1, <2>2, <2>3, OneGoesOn DEF Note!RecordRevision, Note!Busy
  <2>6. ReviewsAreOfProposals'
    BY <1>0, <1>5, <2>1, <2>2, <2>3, ReviewGoesOn DEF ReviewsAreOfProposals
  <2>8. ~overlap' => ReadHolds(w)'
    BY <1>0, <1>5, <2>1, <2>2, <2>3 DEF Note!RecordRevision, Note!store, ComesTo, ReadHolds,
           ReadsStillHold
  <2>9. ReadsStillHold'
    BY <1>0, <1>5, <2>1, <2>2, <2>3, <2>8, ReadsGoOn DEF Note!RecordRevision, Note!store,
           Note!Busy
  <2>10. PendingIsSearchable'
    BY <1>0, <1>5, <2>1, <2>2, <2>3, SearchGoesOn DEF Note!RecordRevision, Note!store
  <2> QED
    BY <2>2, <2>4, <2>5, <2>6, <2>9, <2>10 DEF NoteIInv
<1>6. ASSUME NEW w \in Writers, NEW p \in Proposals, Note!Preview(w, p) PROVE NoteIInv'
  <2>1. PICK base \in Note!MergeTargets :
          /\ jobs[w].at = "idle"
          /\ jobs' = [jobs EXCEPT ![w] = [Note!Idle EXCEPT !.at = "draft", !.prior = base,
                                                         !.proposal = p]]
    BY <1>6 DEF Note!Preview, Note!Draft, Note!At
  <2> DEFINE r == [Note!Idle EXCEPT !.at = "draft", !.prior = base, !.proposal = p]
  <2>2. r \in NoteJob(revisions) /\ r.at = "draft"
    <3>1. base \in Note!Contents /\ Note!Empty \in Note!Contents
      BY <1>0 DEF NoteTypes, Note!Contents, Note!MergeTargets
    <3> QED
      BY <1>a, <3>1, IdleIsJob DEF NoteJob
  <2>3. ComesTo(w, r) /\ UNCHANGED <<Note!store, revisions, faults, overlap>>
    BY <1>0, <1>6, <2>1, <2>2 DEF ComesTo, NoteTypes, Note!Preview
  <2> HIDE DEF r
  <2>4. NoteTypes' /\ RowsHaveIds'
    BY <1>0, <2>2, <2>3 DEF NoteTypes, ComesTo, RowsHaveIds, Note!store
  <2>5. OneAtATime' /\ ReviewsAreOfProposals'
    BY <1>0, <2>2, <2>3, OneGoesOn, ReviewGoesOn
  <2>6. ReadsStillHold'
    BY <1>0, <2>2, <2>3, ReadsGoOn DEF Note!store, ComesTo, ReadHolds
  <2>7. PendingIsSearchable'
    BY <1>0, <2>1, <2>2, <2>3, SearchGoesOn DEF Note!store
  <2> QED
    BY <2>4, <2>5, <2>6, <2>7 DEF NoteIInv
<1>7. ASSUME NEW w \in Writers, Note!PreviewImport(w) PROVE NoteIInv'
  <2>1. PICK base \in Note!MergeTargets :
          /\ jobs[w].at = "idle"
          /\ jobs' = [jobs EXCEPT ![w] = [Note!Idle EXCEPT !.at = "draft", !.prior = base,
                                                         !.proposal = Note!NoProposal]]
    BY <1>7 DEF Note!PreviewImport, Note!Draft, Note!At
  <2> DEFINE r == [Note!Idle EXCEPT !.at = "draft", !.prior = base, !.proposal = Note!NoProposal]
  <2>2. r \in NoteJob(revisions) /\ r.at = "draft"
    <3>1. base \in Note!Contents /\ Note!Empty \in Note!Contents
      BY <1>0 DEF NoteTypes, Note!Contents, Note!MergeTargets
    <3> QED
      BY <1>a, <3>1, IdleIsJob DEF NoteJob
  <2>3. ComesTo(w, r) /\ UNCHANGED <<Note!store, revisions, faults, overlap>>
    BY <1>0, <1>7, <2>1, <2>2 DEF ComesTo, NoteTypes, Note!PreviewImport
  <2> HIDE DEF r
  <2>4. NoteTypes' /\ RowsHaveIds'
    BY <1>0, <2>2, <2>3 DEF NoteTypes, ComesTo, RowsHaveIds, Note!store
  <2>5. OneAtATime' /\ ReviewsAreOfProposals'
    BY <1>0, <2>2, <2>3, OneGoesOn, ReviewGoesOn
  <2>6. ReadsStillHold'
    BY <1>0, <2>2, <2>3, ReadsGoOn DEF Note!store, ComesTo, ReadHolds
  <2>7. PendingIsSearchable'
    BY <1>0, <2>1, <2>2, <2>3, SearchGoesOn DEF Note!store
  <2> QED
    BY <2>4, <2>5, <2>6, <2>7 DEF NoteIInv
<1>8. ASSUME NEW w \in Writers, NEW text \in Texts, Note!RecordConsolidationPreview(w, text)
      PROVE  NoteIInv'
  <2> DEFINE r == Note!Idle
  <2>1. r.at = "idle"
    BY DEF Note!Idle
  <2>3. ComesTo(w, r) /\ EndsOverlap(w) /\ jobs[w].at = "draft"
    BY <1>0, <1>8, NoteEnd DEF Note!RecordConsolidationPreview, Note!RecordPreview, Note!At
  <2> HIDE DEF r
  <2>4. NoteTypes'
    <3>1. /\ jobs[w].proposal \in Proposals \cup {Note!NoProposal}
          /\ jobs[w].prior \in Note!Contents /\ text \in Note!Contents
      BY <1>0 DEF NoteTypes, NoteJob, Note!Contents
    <3>2. previews' \subseteq [proposal : Proposals \cup {Note!NoProposal},
                             base : Note!Contents, draft : Note!Contents]
      BY <1>0, <1>8, <3>1 DEF Note!RecordConsolidationPreview, Note!RecordPreview, NoteTypes
    <3> QED
      BY <1>0, <1>8, <2>1, <2>3, <3>2
      DEF Note!RecordConsolidationPreview, NoteTypes, ComesTo, EndsOverlap
  <2>5. OneAtATime'
    BY <1>0, <1>8, <2>1, <2>3, OneGoesOn DEF Note!RecordConsolidationPreview,
           Note!RecordPreview, Note!Busy
  <2>6. ReviewsAreOfProposals'
    BY <1>0, <1>8, <2>1, <2>3, ReviewGoesOn DEF ReviewsAreOfProposals
  <2>7. RowsHaveIds'
    BY <1>0, <1>8 DEF Note!RecordConsolidationPreview, Note!RecordPreview, Note!store,
                      RowsHaveIds
  <2>8. ~overlap' => ReadHolds(w)'
    BY <1>0, <1>8, <2>1, <2>3 DEF Note!RecordConsolidationPreview, Note!RecordPreview,
                                  Note!store, ComesTo, ReadHolds, ReadsStillHold
  <2>9. ReadsStillHold'
    BY <1>0, <1>8, <2>1, <2>3, <2>8, ReadsGoOn DEF Note!RecordConsolidationPreview,
           Note!RecordPreview, Note!store, Note!Busy
  <2>10. PendingIsSearchable'
    BY <1>0, <1>8, <2>1, <2>3, SearchGoesOn DEF Note!RecordConsolidationPreview,
           Note!RecordPreview, Note!store
  <2> QED
    BY <2>4, <2>5, <2>6, <2>7, <2>9, <2>10 DEF NoteIInv
<1>9. ASSUME NEW w \in Writers, NEW text \in Texts, Note!RecordImportPreview(w, text)
      PROVE  NoteIInv'
  <2> DEFINE r == Note!Idle
  <2>1. r.at = "idle"
    BY DEF Note!Idle
  <2>3. ComesTo(w, r) /\ EndsOverlap(w) /\ jobs[w].at = "draft"
    BY <1>0, <1>9, NoteEnd DEF Note!RecordImportPreview, Note!RecordPreview, Note!At
  <2> HIDE DEF r
  <2>4. NoteTypes'
    <3>1. /\ jobs[w].proposal \in Proposals \cup {Note!NoProposal}
          /\ jobs[w].prior \in Note!Contents /\ text \in Note!Contents
      BY <1>0 DEF NoteTypes, NoteJob, Note!Contents
    <3>2. previews' \subseteq [proposal : Proposals \cup {Note!NoProposal},
                             base : Note!Contents, draft : Note!Contents]
      BY <1>0, <1>9, <3>1 DEF Note!RecordImportPreview, Note!RecordPreview, NoteTypes
    <3> QED
      BY <1>0, <1>9, <2>1, <2>3, <3>2 DEF Note!RecordImportPreview, NoteTypes, ComesTo, EndsOverlap
  <2>5. OneAtATime'
    BY <1>0, <1>9, <2>1, <2>3, OneGoesOn DEF Note!RecordImportPreview, Note!RecordPreview,
           Note!Busy
  <2>6. ReviewsAreOfProposals'
    BY <1>0, <1>9, <2>1, <2>3, ReviewGoesOn DEF ReviewsAreOfProposals
  <2>7. RowsHaveIds'
    BY <1>0, <1>9 DEF Note!RecordImportPreview, Note!RecordPreview, Note!store, RowsHaveIds
  <2>8. ~overlap' => ReadHolds(w)'
    BY <1>0, <1>9, <2>1, <2>3 DEF Note!RecordImportPreview, Note!RecordPreview, Note!store,
                                  ComesTo, ReadHolds, ReadsStillHold
  <2>9. ReadsStillHold'
    BY <1>0, <1>9, <2>1, <2>3, <2>8, ReadsGoOn DEF Note!RecordImportPreview, Note!RecordPreview,
           Note!store, Note!Busy
  <2>10. PendingIsSearchable'
    BY <1>0, <1>9, <2>1, <2>3, SearchGoesOn DEF Note!RecordImportPreview, Note!RecordPreview,
           Note!store
  <2> QED
    BY <2>4, <2>5, <2>6, <2>7, <2>9, <2>10 DEF NoteIInv
<1>10. ASSUME NEW w \in Writers, NEW preview \in previews, Note!Approve(w, preview) PROVE NoteIInv'
  <2> DEFINE r == [Note!Idle EXCEPT !.at = "record", !.prior = file, !.new = preview.draft, !.proposal = preview.proposal]
  <2>1. r.at = "record" /\ r.prior = file /\ r.proposal = preview.proposal
    BY <1>0, <1>10 DEF NoteTypes, NoteJob, Note!Contents, Note!Empty, Note!NoRow,
                       Note!NoProposal, Note!Idle
  <2>2. r \in NoteJob(revisions)
    <3>1. /\ file \in Note!Contents /\ Note!Empty \in Note!Contents
          /\ preview.draft \in Note!Contents
          /\ preview.proposal \in Proposals \cup {Note!NoProposal}
      BY <1>0 DEF NoteTypes, Note!Contents
    <3> QED
      BY <1>a, <3>1, IdleIsJob DEF NoteJob
  <2>3. /\ ComesTo(w, r) /\ jobs[w].at = "idle"
        /\ overlap' = (overlap \/ \E v \in Writers : Note!Busy(v))
    BY <1>0, <1>10, <2>2, NoteBegin DEF Note!Approve, Note!Apply, Note!LatestTopicRevision
  <2> HIDE DEF r
  <2>4. NoteTypes'
    BY <1>0, <1>10, <2>1, <2>3 DEF Note!Approve, Note!Apply, NoteTypes, ComesTo, Note!store
  <2>5. OneAtATime'
    BY <1>0, <1>10, <2>1, <2>3, OneGoesOn DEF Note!Approve, Note!Apply, Note!Busy
  <2>6. ReviewsAreOfProposals'
    BY <1>0, <1>10, <2>1, <2>3, ReviewGoesOn DEF ReviewsAreOfProposals, Note!Approve
  <2>7. RowsHaveIds'
    BY <1>0, <1>10 DEF Note!Approve, Note!Apply, Note!store, RowsHaveIds
  <2>8. ~overlap' => ReadHolds(w)'
    BY <1>0, <1>10, <2>1, <2>3 DEF Note!Approve, Note!Apply, Note!store, ComesTo, ReadHolds,
                                   ReadsStillHold
  <2>9. ReadsStillHold'
    BY <1>0, <1>10, <2>1, <2>3, <2>8, ReadsGoOn DEF Note!Approve, Note!Apply, Note!store,
           Note!Busy
  <2>10. PendingIsSearchable'
    BY <1>0, <1>10, <2>1, <2>3, SearchGoesOn DEF Note!Approve, Note!Apply, Note!store
  <2> QED
    BY <2>4, <2>5, <2>6, <2>7, <2>9, <2>10 DEF NoteIInv
<1>11. ASSUME NEW w \in Writers, NEW preview \in previews, Note!ApproveImport(w, preview)
       PROVE  NoteIInv'
  <2> DEFINE r == [Note!Idle EXCEPT !.at = "import", !.prior = file, !.new = preview.draft, !.proposal = preview.proposal]
  <2>1. r.at = "import" /\ r.prior = file /\ r.proposal = preview.proposal
    BY <1>0, <1>11 DEF NoteTypes, NoteJob, Note!Contents, Note!Empty, Note!NoRow,
                       Note!NoProposal, Note!Idle
  <2>2. r \in NoteJob(revisions)
    <3>1. /\ file \in Note!Contents /\ Note!Empty \in Note!Contents
          /\ preview.draft \in Note!Contents
          /\ preview.proposal \in Proposals \cup {Note!NoProposal}
      BY <1>0 DEF NoteTypes, Note!Contents
    <3> QED
      BY <1>a, <3>1, IdleIsJob DEF NoteJob
  <2>3. /\ ComesTo(w, r) /\ jobs[w].at = "idle"
        /\ overlap' = (overlap \/ \E v \in Writers : Note!Busy(v))
    BY <1>0, <1>11, <2>2, NoteBegin DEF Note!ApproveImport, Note!Apply, Note!LatestTopicRevision
  <2> HIDE DEF r
  <2>4. NoteTypes'
    BY <1>0, <1>11, <2>1, <2>3 DEF Note!ApproveImport, Note!Apply, NoteTypes, ComesTo,
                                   Note!store
  <2>5. OneAtATime'
    BY <1>0, <1>11, <2>1, <2>3, OneGoesOn DEF Note!ApproveImport, Note!Apply, Note!Busy
  <2>6. ReviewsAreOfProposals'
    BY <1>0, <1>11, <2>1, <2>3, ReviewGoesOn DEF ReviewsAreOfProposals
  <2>7. RowsHaveIds'
    BY <1>0, <1>11 DEF Note!ApproveImport, Note!Apply, Note!store, RowsHaveIds
  <2>8. ~overlap' => ReadHolds(w)'
    BY <1>0, <1>11, <2>1, <2>3 DEF Note!ApproveImport, Note!Apply, Note!store, ComesTo,
                                   ReadHolds, ReadsStillHold
  <2>9. ReadsStillHold'
    BY <1>0, <1>11, <2>1, <2>3, <2>8, ReadsGoOn DEF Note!ApproveImport, Note!Apply, Note!store,
           Note!Busy
  <2>10. PendingIsSearchable'
    BY <1>0, <1>11, <2>1, <2>3, SearchGoesOn DEF Note!ApproveImport, Note!Apply, Note!store
  <2> QED
    BY <2>4, <2>5, <2>6, <2>7, <2>9, <2>10 DEF NoteIInv
<1>12. ASSUME NEW w \in Writers, Note!RecordTopicRevision(w) PROVE NoteIInv'
  <2> DEFINE r == [jobs[w] EXCEPT !.at = "write"]
  <2>1. r.at = "write" /\ r.new = jobs[w].new /\ r.row = jobs[w].row /\ r.proposal = jobs[w].proposal
        /\ r.prior = jobs[w].prior
    BY <1>0, <1>12 DEF NoteTypes, NoteJob, Note!Contents, Note!Empty, Note!NoRow,
                       Note!NoProposal, Note!Idle
  <2>2. /\ revisions' \in 0 .. MaxRevisions /\ revisions' \in Nat /\ revisions <= revisions'
        /\ revs' \in Seq(NoteRow(revisions')) /\ RowsHaveIds'
        /\ revs' # <<>> /\ Last(revs').prior = jobs[w].prior
    <3>1. jobs[w] \in NoteJob(revisions)
      BY <1>0 DEF NoteTypes
    <3>2. jobs[w].proposal \in Proposals \cup {Note!NoProposal} /\ jobs[w].prior \in Note!Contents
      BY <3>1 DEF NoteJob
    <3>3. Note!Revision(jobs[w].proposal, jobs[w].prior)
      BY <1>12 DEF Note!RecordTopicRevision
    <3> QED
      BY <1>0, <3>2, <3>3, NextRow
  <2>3. ComesTo(w, r) /\ jobs[w].at = "record"
    BY <1>0, <1>12, <2>2, NoteMove DEF Note!RecordTopicRevision, Note!At
  <2> HIDE DEF r
  <2>4. NoteTypes'
    BY <1>0, <1>12, <2>1, <2>2, <2>3 DEF Note!RecordTopicRevision, NoteTypes, ComesTo,
           Note!store
  <2>5. OneAtATime'
    BY <1>0, <1>12, <2>1, <2>2, <2>3, OneGoesOn DEF Note!RecordTopicRevision, Note!Busy
  <2>6. ReviewsAreOfProposals'
    BY <1>0, <1>12, <2>1, <2>2, <2>3, ReviewGoesOn DEF ReviewsAreOfProposals
  <2>8. ~overlap' => ReadHolds(w)'
    BY <1>0, <1>12, <2>1, <2>2, <2>3 DEF Note!RecordTopicRevision, Note!store, ComesTo,
           ReadHolds, ReadsStillHold
  <2>9. ReadsStillHold'
    BY <1>0, <1>12, <2>1, <2>2, <2>3, <2>8, ReadsGoOn DEF Note!RecordTopicRevision, Note!store,
           Note!Busy
  <2>10. PendingIsSearchable'
    BY <1>0, <1>12, <2>1, <2>2, <2>3, SearchGoesOn DEF Note!RecordTopicRevision, Note!store
  <2> QED
    BY <2>2, <2>4, <2>5, <2>6, <2>9, <2>10 DEF NoteIInv
<1>13. ASSUME NEW w \in Writers, Note!WriteDraft(w) PROVE NoteIInv'
  <2> DEFINE r == [jobs[w] EXCEPT !.at = "unindex", !.new = Note!Empty, !.prior = Note!Empty]
  <2>1. r.at = "unindex" /\ r.row = jobs[w].row /\ r.proposal = jobs[w].proposal
    BY <1>0, <1>13 DEF NoteTypes, NoteJob, Note!Contents, Note!Empty, Note!NoRow,
                       Note!NoProposal, Note!Idle
  <2>3. ComesTo(w, r) /\ jobs[w].at = "write" /\ file' = jobs[w].new /\ file' \in Note!Contents
    BY <1>0, <1>13, NoteWrite DEF Note!WriteDraft, Note!At
  <2> HIDE DEF r
  <2>4. NoteTypes'
    BY <1>0, <1>13, <2>1, <2>3 DEF Note!WriteDraft, NoteTypes, ComesTo, Note!store
  <2>5. OneAtATime'
    BY <1>0, <1>13, <2>1, <2>3, OneGoesOn DEF Note!WriteDraft, Note!Busy
  <2>6. ReviewsAreOfProposals'
    BY <1>0, <1>13, <2>1, <2>3, ReviewGoesOn DEF ReviewsAreOfProposals
  <2>7. RowsHaveIds'
    BY <1>0, <1>13 DEF Note!WriteDraft, Note!store, RowsHaveIds
  <2>8. ~overlap' => ReadHolds(w)'
    BY <1>0, <1>13, <2>1, <2>3 DEF Note!WriteDraft, Note!store, ComesTo, ReadHolds,
                                   ReadsStillHold
  <2>9. ReadsStillHold'
    BY <1>0, <1>13, <2>1, <2>3, <2>8, ReadsGoOn DEF Note!WriteDraft, Note!store, Note!Busy
  <2>10. PendingIsSearchable'
    BY <1>0, <1>13, <2>1, <2>3, SearchGoesOn DEF Note!WriteDraft, Note!store
  <2> QED
    BY <2>4, <2>5, <2>6, <2>7, <2>9, <2>10 DEF NoteIInv
<1>14. ASSUME NEW w \in Writers, Note!RemoveProposal(w) PROVE NoteIInv'
  <2> DEFINE r == [jobs[w] EXCEPT !.at = "promote"]
  <2>1. r.at = "promote" /\ r.new = jobs[w].new /\ r.row = jobs[w].row /\ r.proposal = jobs[w].proposal
        /\ r.prior = jobs[w].prior
    BY <1>0, <1>14 DEF NoteTypes, NoteJob, Note!Contents, Note!Empty, Note!NoRow,
                       Note!NoProposal, Note!Idle
  <2>3. ComesTo(w, r) /\ jobs[w].at = "unindex"
    BY <1>0, <1>14, NoteMove DEF Note!RemoveProposal, Note!At
  <2> HIDE DEF r
  <2>4. NoteTypes'
    BY <1>0, <1>14, <2>1, <2>3 DEF Note!RemoveProposal, NoteTypes, ComesTo, Note!store
  <2>5. OneAtATime'
    BY <1>0, <1>14, <2>1, <2>3, OneGoesOn DEF Note!RemoveProposal, Note!Busy
  <2>6. ReviewsAreOfProposals'
    BY <1>0, <1>14, <2>1, <2>3, ReviewGoesOn DEF ReviewsAreOfProposals
  <2>7. RowsHaveIds'
    BY <1>0, <1>14 DEF Note!RemoveProposal, Note!store, RowsHaveIds
  <2>8. ~overlap' => ReadHolds(w)'
    BY <1>0, <1>14, <2>1, <2>3 DEF Note!RemoveProposal, Note!store, ComesTo, ReadHolds,
                                   ReadsStillHold
  <2>9. ReadsStillHold'
    BY <1>0, <1>14, <2>1, <2>3, <2>8, ReadsGoOn DEF Note!RemoveProposal, Note!store, Note!Busy
  <2>10. PendingIsSearchable'
    BY <1>0, <1>14, <2>1, <2>3 DEF Note!RemoveProposal, PendingIsSearchable,
                                   Note!PendingIsSearchable, ComesTo, NoteTypes
  <2> QED
    BY <2>4, <2>5, <2>6, <2>7, <2>9, <2>10 DEF NoteIInv
<1>15. ASSUME NEW w \in Writers, Note!Promote(w) PROVE NoteIInv'
  <2> DEFINE r == Note!Idle
  <2>1. r.at = "idle"
    BY DEF Note!Idle
  <2>3. ComesTo(w, r) /\ EndsOverlap(w) /\ jobs[w].at = "promote"
    BY <1>0, <1>15, NoteEnd DEF Note!Promote, Note!At
  <2> HIDE DEF r
  <2>4. NoteTypes'
    BY <1>0, <1>15, <2>1, <2>3 DEF Note!Promote, NoteTypes, ComesTo, EndsOverlap, Note!store
  <2>5. OneAtATime'
    BY <1>0, <1>15, <2>1, <2>3, OneGoesOn DEF Note!Promote, Note!Busy
  <2>6. ReviewsAreOfProposals'
    BY <1>0, <1>15, <2>1, <2>3, ReviewGoesOn DEF ReviewsAreOfProposals
  <2>7. RowsHaveIds'
    BY <1>0, <1>15 DEF Note!Promote, Note!store, RowsHaveIds
  <2>8. ~overlap' => ReadHolds(w)'
    BY <1>0, <1>15, <2>1, <2>3 DEF Note!Promote, Note!store, ComesTo, ReadHolds, ReadsStillHold
  <2>9. ReadsStillHold'
    BY <1>0, <1>15, <2>1, <2>3, <2>8, ReadsGoOn DEF Note!Promote, Note!store, Note!Busy
  <2>10. PendingIsSearchable'
    BY <1>0, <1>15, <2>1, <2>3 DEF Note!Promote, PendingIsSearchable, Note!PendingIsSearchable,
                                   ComesTo, NoteTypes
  <2> QED
    BY <2>4, <2>5, <2>6, <2>7, <2>9, <2>10 DEF NoteIInv
<1>16. ASSUME NEW w \in Writers, Note!WriteImported(w) PROVE NoteIInv'
  <2> DEFINE r == [jobs[w] EXCEPT !.at = "retire", !.new = Note!Empty, !.prior = Note!Empty]
  <2>1. r.at = "retire" /\ r.row = jobs[w].row /\ r.proposal = jobs[w].proposal
    BY <1>0, <1>16 DEF NoteTypes, NoteJob, Note!Contents, Note!Empty, Note!NoRow,
                       Note!NoProposal, Note!Idle
  <2>3. ComesTo(w, r) /\ jobs[w].at = "import" /\ file' = jobs[w].new /\ file' \in Note!Contents
    BY <1>0, <1>16, NoteWrite DEF Note!WriteImported, Note!At
  <2> HIDE DEF r
  <2>4. NoteTypes'
    BY <1>0, <1>16, <2>1, <2>3 DEF Note!WriteImported, NoteTypes, ComesTo, Note!store
  <2>5. OneAtATime'
    BY <1>0, <1>16, <2>1, <2>3, OneGoesOn DEF Note!WriteImported, Note!Busy
  <2>6. ReviewsAreOfProposals'
    BY <1>0, <1>16, <2>1, <2>3, ReviewGoesOn DEF ReviewsAreOfProposals
  <2>7. RowsHaveIds'
    BY <1>0, <1>16 DEF Note!WriteImported, Note!store, RowsHaveIds
  <2>8. ~overlap' => ReadHolds(w)'
    BY <1>0, <1>16, <2>1, <2>3 DEF Note!WriteImported, Note!store, ComesTo, ReadHolds,
                                   ReadsStillHold
  <2>9. ReadsStillHold'
    BY <1>0, <1>16, <2>1, <2>3, <2>8, ReadsGoOn DEF Note!WriteImported, Note!store, Note!Busy
  <2>10. PendingIsSearchable'
    BY <1>0, <1>16, <2>1, <2>3, SearchGoesOn DEF Note!WriteImported, Note!store
  <2> QED
    BY <2>4, <2>5, <2>6, <2>7, <2>9, <2>10 DEF NoteIInv
<1>17. ASSUME NEW w \in Writers, Note!RetireImport(w) PROVE NoteIInv'
  <2> DEFINE r == Note!Idle
  <2>1. r.at = "idle"
    BY DEF Note!Idle
  <2>3. ComesTo(w, r) /\ EndsOverlap(w) /\ jobs[w].at = "retire"
    BY <1>0, <1>17, NoteEnd DEF Note!RetireImport, Note!At
  <2> HIDE DEF r
  <2>4. NoteTypes'
    BY <1>0, <1>17, <2>1, <2>3 DEF Note!RetireImport, NoteTypes, ComesTo, EndsOverlap, Note!store
  <2>5. OneAtATime'
    BY <1>0, <1>17, <2>1, <2>3, OneGoesOn DEF Note!RetireImport, Note!Busy
  <2>6. ReviewsAreOfProposals'
    BY <1>0, <1>17, <2>1, <2>3, ReviewGoesOn DEF ReviewsAreOfProposals
  <2>7. RowsHaveIds'
    BY <1>0, <1>17 DEF Note!RetireImport, Note!store, RowsHaveIds
  <2>8. ~overlap' => ReadHolds(w)'
    BY <1>0, <1>17, <2>1, <2>3 DEF Note!RetireImport, Note!store, ComesTo, ReadHolds,
                                   ReadsStillHold
  <2>9. ReadsStillHold'
    BY <1>0, <1>17, <2>1, <2>3, <2>8, ReadsGoOn DEF Note!RetireImport, Note!store, Note!Busy
  <2>10. PendingIsSearchable'
    BY <1>0, <1>17, <2>1, <2>3, SearchGoesOn DEF Note!RetireImport, Note!store
  <2> QED
    BY <2>4, <2>5, <2>6, <2>7, <2>9, <2>10 DEF NoteIInv
<1>18. ASSUME NEW w \in Writers, Note!Rollback(w) PROVE NoteIInv'
  <2> DEFINE r == [Note!Idle EXCEPT !.at = "restore", !.row = Last(revs).id, !.new = Last(revs).prior, !.proposal = Last(revs).proposal]
  <2>1. r.at = "restore" /\ r.row = Last(revs).id
        /\ r.new = Last(revs).prior /\ r.proposal = Last(revs).proposal
    BY <1>0, <1>18 DEF NoteTypes, NoteJob, Note!Contents, Note!Empty, Note!NoRow,
                       Note!NoProposal, Note!Idle
  <2>2. r \in NoteJob(revisions)
    <3>1. Len(revs) \in 1 .. Len(revs)
      BY <1>0, <1>18, EmptySeq, LenProperties DEF NoteTypes, Note!Rollback
    <3>2. Last(revs) \in NoteRow(revisions)
      BY <1>0, <3>1, ElementOfSeq DEF NoteTypes, Last
    <3>3. /\ Last(revs).id \in 0 .. revisions /\ Last(revs).prior \in Note!Contents
          /\ Last(revs).proposal \in Proposals \cup {Note!NoProposal}
          /\ Note!Empty \in Note!Contents
      BY <1>0, <3>2 DEF NoteRow, Note!Contents
    <3> QED
      BY <1>a, <3>3, IdleIsJob DEF NoteJob
  <2>3. /\ ComesTo(w, r) /\ jobs[w].at = "idle"
        /\ overlap' = (overlap \/ \E v \in Writers : Note!Busy(v))
    <3>1. Note!Begin(w, r) /\ revisions' = revisions
      <4>1. /\ Note!Begin(w, [Note!Idle EXCEPT !.at = "restore", !.row = Last(revs).id,
                                 !.new = Last(revs).prior, !.proposal = Last(revs).proposal])
            /\ revisions' = revisions
        BY <1>18 DEF Note!Rollback, Note!LatestTopicRevision, Note!Last, Last
      <4> QED
        BY <4>1 DEF r
    <3> QED
      BY <1>0, <2>2, <3>1, NoteBegin
  <2> HIDE DEF r
  <2>4. NoteTypes'
    BY <1>0, <1>18, <2>1, <2>3 DEF Note!Rollback, NoteTypes, ComesTo, Note!store
  <2>5. OneAtATime'
    BY <1>0, <1>18, <2>1, <2>3, OneGoesOn DEF Note!Rollback, Note!Busy
  <2>6. ReviewsAreOfProposals'
    BY <1>0, <1>18, <2>1, <2>3, ReviewGoesOn DEF ReviewsAreOfProposals
  <2>7. RowsHaveIds'
    BY <1>0, <1>18 DEF Note!Rollback, Note!store, RowsHaveIds
  <2>8. ~overlap' => ReadHolds(w)'
    BY <1>0, <1>18, <2>1, <2>3 DEF Note!Rollback, Note!store, ComesTo, ReadHolds, ReadsStillHold
  <2>9. ReadsStillHold'
    BY <1>0, <1>18, <2>1, <2>3, <2>8, ReadsGoOn DEF Note!Rollback, Note!store, Note!Busy
  <2>10. PendingIsSearchable'
    BY <1>0, <1>18, <2>1, <2>3, SearchGoesOn DEF Note!Rollback, Note!store
  <2> QED
    BY <2>4, <2>5, <2>6, <2>7, <2>9, <2>10 DEF NoteIInv
<1>19. ASSUME NEW w \in Writers, Note!Restore(w) PROVE NoteIInv'
  <2>1. jobs[w].at = "restore" /\ jobs[w].row \in 0 .. revisions
    BY <1>0, <1>19 DEF Note!Restore, Note!At, NoteTypes, NoteJob
  <2>2. UNCHANGED <<revs, previews, reviews, chunks, import, revisions, faults, overlap>>
    BY <1>19 DEF Note!Restore
  <2>3. PICK l : /\ Note!Write(w, l) /\ l \in {"reopen", "consume"}
                 /\ l = "reopen" => jobs[w].proposal # Note!NoProposal
    BY <1>19 DEF Note!Restore
  <2> DEFINE r == [jobs[w] EXCEPT !.at = l, !.new = Note!Empty,
                                  !.prior = IF l = "snapshot" THEN @ ELSE Note!Empty]
  <2>4. ComesTo(w, r) /\ file' = jobs[w].new /\ file' \in Note!Contents
    BY <1>0, <2>2, <2>3, NoteWrite
  <2>5. r.at = l /\ r.proposal = jobs[w].proposal /\ r.row = jobs[w].row
    BY <1>0 DEF NoteTypes, NoteJob
  <2> HIDE DEF r
  <2>6. NoteTypes' /\ RowsHaveIds'
    BY <1>0, <2>2, <2>4 DEF NoteTypes, ComesTo, RowsHaveIds
  <2>7. OneAtATime'
    BY <1>0, <2>1, <2>2, <2>4, OneGoesOn DEF Note!Busy
  <2>8. ReviewsAreOfProposals'
    BY <1>0, <2>3, <2>4, <2>5, ReviewGoesOn
  <2>9. ~overlap' => ReadHolds(w)'
    BY <1>0, <2>1, <2>2, <2>3, <2>4, <2>5 DEF ReadHolds, ReadsStillHold, ComesTo
  <2>10. ReadsStillHold'
    BY <1>0, <2>1, <2>2, <2>4, <2>9, ReadsGoOn DEF Note!Busy
  <2>11. PendingIsSearchable'
    BY <1>0, <2>1, <2>2, <2>4, SearchGoesOn
  <2> QED
    BY <2>6, <2>7, <2>8, <2>10, <2>11 DEF NoteIInv
<1>20. ASSUME NEW w \in Writers, Note!Reopen(w) PROVE NoteIInv'
  <2> DEFINE r == [jobs[w] EXCEPT !.at = "reindex"]
  <2>1. r.at = "reindex" /\ r.new = jobs[w].new /\ r.row = jobs[w].row /\ r.proposal = jobs[w].proposal
        /\ r.prior = jobs[w].prior
    BY <1>0, <1>20 DEF NoteTypes, NoteJob, Note!Contents, Note!Empty, Note!NoRow,
                       Note!NoProposal, Note!Idle
  <2>3. ComesTo(w, r) /\ jobs[w].at = "reopen"
    BY <1>0, <1>20, NoteMove DEF Note!Reopen, Note!At
  <2> HIDE DEF r
  <2>4. NoteTypes'
    BY <1>0, <1>20, <2>1, <2>3 DEF Note!Reopen, NoteTypes, ComesTo, Note!store
  <2>5. OneAtATime'
    BY <1>0, <1>20, <2>1, <2>3, OneGoesOn DEF Note!Reopen, Note!Busy
  <2>6. ReviewsAreOfProposals'
    BY <1>0, <1>20, <2>1, <2>3, ReviewGoesOn DEF ReviewsAreOfProposals
  <2>7. RowsHaveIds'
    BY <1>0, <1>20 DEF Note!Reopen, Note!store, RowsHaveIds
  <2>8. ~overlap' => ReadHolds(w)'
    BY <1>0, <1>20, <2>1, <2>3 DEF Note!Reopen, Note!store, ComesTo, ReadHolds, ReadsStillHold
  <2>9. ReadsStillHold'
    BY <1>0, <1>20, <2>1, <2>3, <2>8, ReadsGoOn DEF Note!Reopen, Note!store, Note!Busy
  <2>10. PendingIsSearchable'
    BY <1>0, <1>20, <2>1, <2>3 DEF Note!Reopen, PendingIsSearchable, Note!PendingIsSearchable,
                                   ComesTo, NoteTypes
  <2> QED
    BY <2>4, <2>5, <2>6, <2>7, <2>9, <2>10 DEF NoteIInv
<1>21. ASSUME NEW w \in Writers, Note!DeleteChunk(w) PROVE NoteIInv'
  <2> DEFINE r == [jobs[w] EXCEPT !.at = "insert"]
  <2>1. r.at = "insert" /\ r.new = jobs[w].new /\ r.row = jobs[w].row /\ r.proposal = jobs[w].proposal
        /\ r.prior = jobs[w].prior
    BY <1>0, <1>21 DEF NoteTypes, NoteJob, Note!Contents, Note!Empty, Note!NoRow,
                       Note!NoProposal, Note!Idle
  <2>3. ComesTo(w, r) /\ jobs[w].at = "reindex"
    BY <1>0, <1>21, NoteMove DEF Note!DeleteChunk, Note!At
  <2> HIDE DEF r
  <2>4. NoteTypes'
    BY <1>0, <1>21, <2>1, <2>3 DEF Note!DeleteChunk, NoteTypes, ComesTo, Note!store
  <2>5. OneAtATime'
    BY <1>0, <1>21, <2>1, <2>3, OneGoesOn DEF Note!DeleteChunk, Note!Busy
  <2>6. ReviewsAreOfProposals'
    BY <1>0, <1>21, <2>1, <2>3, ReviewGoesOn DEF ReviewsAreOfProposals
  <2>7. RowsHaveIds'
    BY <1>0, <1>21 DEF Note!DeleteChunk, Note!store, RowsHaveIds
  <2>8. ~overlap' => ReadHolds(w)'
    BY <1>0, <1>21, <2>1, <2>3 DEF Note!DeleteChunk, Note!store, ComesTo, ReadHolds,
                                   ReadsStillHold
  <2>9. ReadsStillHold'
    BY <1>0, <1>21, <2>1, <2>3, <2>8, ReadsGoOn DEF Note!DeleteChunk, Note!store, Note!Busy
  <2>10. PendingIsSearchable'
    BY <1>0, <1>21, <2>1, <2>3 DEF Note!DeleteChunk, PendingIsSearchable,
                                   Note!PendingIsSearchable, ComesTo, NoteTypes
  <2> QED
    BY <2>4, <2>5, <2>6, <2>7, <2>9, <2>10 DEF NoteIInv
<1>22. ASSUME NEW w \in Writers, Note!InsertChunk(w) PROVE NoteIInv'
  <2> DEFINE r == [jobs[w] EXCEPT !.at = "consume"]
  <2>1. r.at = "consume" /\ r.new = jobs[w].new /\ r.row = jobs[w].row /\ r.proposal = jobs[w].proposal
        /\ r.prior = jobs[w].prior
    BY <1>0, <1>22 DEF NoteTypes, NoteJob, Note!Contents, Note!Empty, Note!NoRow,
                       Note!NoProposal, Note!Idle
  <2>3. ComesTo(w, r) /\ jobs[w].at = "insert"
    BY <1>0, <1>22, NoteMove DEF Note!InsertChunk, Note!At
  <2> HIDE DEF r
  <2>4. NoteTypes'
    <3>1. chunks' \subseteq Proposals
      BY <1>0, <1>22, <2>3 DEF Note!InsertChunk, NoteTypes, NoteJob, ReviewsAreOfProposals
    <3> QED
      BY <1>0, <1>22, <2>1, <2>3, <3>1 DEF Note!InsertChunk, NoteTypes, ComesTo
  <2>5. OneAtATime'
    BY <1>0, <1>22, <2>1, <2>3, OneGoesOn DEF Note!InsertChunk, Note!Busy
  <2>6. ReviewsAreOfProposals'
    BY <1>0, <1>22, <2>1, <2>3, ReviewGoesOn DEF ReviewsAreOfProposals
  <2>7. RowsHaveIds'
    BY <1>0, <1>22 DEF Note!InsertChunk, Note!store, RowsHaveIds
  <2>8. ~overlap' => ReadHolds(w)'
    BY <1>0, <1>22, <2>1, <2>3 DEF Note!InsertChunk, Note!store, ComesTo, ReadHolds,
                                   ReadsStillHold
  <2>9. ReadsStillHold'
    BY <1>0, <1>22, <2>1, <2>3, <2>8, ReadsGoOn DEF Note!InsertChunk, Note!store, Note!Busy
  <2>10. PendingIsSearchable'
    BY <1>0, <1>22, <2>1, <2>3 DEF Note!InsertChunk, PendingIsSearchable,
                                   Note!PendingIsSearchable, ComesTo, NoteTypes
  <2> QED
    BY <2>4, <2>5, <2>6, <2>7, <2>9, <2>10 DEF NoteIInv
<1>23. ASSUME NEW w \in Writers, Note!DeleteTopicRevision(w) PROVE NoteIInv'
  <2> DEFINE r == Note!Idle
  <2>1. r.at = "idle"
    BY DEF Note!Idle
  <2>2. revs' \in Seq(NoteRow(revisions')) /\ RowsHaveIds'
    <3>1. revs' = Note!WithoutRow(revs, jobs[w].row) /\ revisions' = revisions
      BY <1>23 DEF Note!DeleteTopicRevision
    <3>2. revs \in Seq(NoteRow(revisions))
      BY <1>0 DEF NoteTypes
    <3> QED
      BY <1>0, <3>1, <3>2, RowTakenOut
  <2>3. ComesTo(w, r) /\ EndsOverlap(w) /\ jobs[w].at = "consume"
    BY <1>0, <1>23, <2>2, NoteEnd DEF Note!DeleteTopicRevision, Note!At
  <2> HIDE DEF r
  <2>4. NoteTypes'
    BY <1>0, <1>23, <2>1, <2>2, <2>3 DEF Note!DeleteTopicRevision, NoteTypes, ComesTo, EndsOverlap,
           Note!store
  <2>5. OneAtATime'
    BY <1>0, <1>23, <2>1, <2>2, <2>3, OneGoesOn DEF Note!DeleteTopicRevision, Note!Busy
  <2>6. ReviewsAreOfProposals'
    BY <1>0, <1>23, <2>1, <2>2, <2>3, ReviewGoesOn DEF ReviewsAreOfProposals
  <2>8. ~overlap' => ReadHolds(w)'
    BY <1>0, <1>23, <2>1, <2>2, <2>3 DEF Note!DeleteTopicRevision, Note!store, ComesTo,
           ReadHolds, ReadsStillHold
  <2>9. ReadsStillHold'
    BY <1>0, <1>23, <2>1, <2>2, <2>3, <2>8, ReadsGoOn DEF Note!DeleteTopicRevision, Note!store,
           Note!Busy
  <2>10. PendingIsSearchable'
    BY <1>0, <1>23, <2>1, <2>2, <2>3, SearchGoesOn DEF Note!DeleteTopicRevision, Note!store
  <2> QED
    BY <2>2, <2>4, <2>5, <2>6, <2>9, <2>10 DEF NoteIInv
<1>24. ASSUME NEW w \in Writers, NEW text \in Texts, Note!Forget(w, text) PROVE NoteIInv'
  <2> DEFINE r == [Note!Idle EXCEPT !.at = "forget", !.new = IF file = Note!Empty THEN Note!Empty ELSE text]
  <2>1. r.at = "forget"
    BY <1>0, <1>24 DEF NoteTypes, NoteJob, Note!Contents, Note!Empty, Note!NoRow,
                       Note!NoProposal, Note!Idle
  <2>2. r \in NoteJob(revisions)
    <3>1. text \in Note!Contents /\ Note!Empty \in Note!Contents
      BY DEF Note!Contents
    <3> QED
      BY <1>a, <3>1, IdleIsJob DEF NoteJob
  <2>3. /\ ComesTo(w, r) /\ jobs[w].at = "idle"
        /\ overlap' = (overlap \/ \E v \in Writers : Note!Busy(v))
    BY <1>0, <1>24, <2>2, NoteBegin DEF Note!Forget, Note!LatestTopicRevision
  <2> HIDE DEF r
  <2>4. NoteTypes'
    BY <1>0, <1>24, <2>1, <2>3 DEF Note!Forget, NoteTypes, ComesTo, Note!store
  <2>5. OneAtATime'
    BY <1>0, <1>24, <2>1, <2>3, OneGoesOn DEF Note!Forget, Note!Busy
  <2>6. ReviewsAreOfProposals'
    BY <1>0, <1>24, <2>1, <2>3, ReviewGoesOn DEF ReviewsAreOfProposals
  <2>7. RowsHaveIds'
    BY <1>0, <1>24 DEF Note!Forget, Note!store, RowsHaveIds
  <2>8. ~overlap' => ReadHolds(w)'
    BY <1>0, <1>24, <2>1, <2>3 DEF Note!Forget, Note!store, ComesTo, ReadHolds, ReadsStillHold
  <2>9. ReadsStillHold'
    BY <1>0, <1>24, <2>1, <2>3, <2>8, ReadsGoOn DEF Note!Forget, Note!store, Note!Busy
  <2>10. PendingIsSearchable'
    BY <1>0, <1>24, <2>1, <2>3, SearchGoesOn DEF Note!Forget, Note!store
  <2> QED
    BY <2>4, <2>5, <2>6, <2>7, <2>9, <2>10 DEF NoteIInv
<1>25. ASSUME NEW w \in Writers, Note!WriteForgotten(w) PROVE NoteIInv'
  <2>1. jobs[w].at = "forget"
    BY <1>25 DEF Note!WriteForgotten, Note!At
  <2>2. /\ UNCHANGED <<revs, previews, reviews, chunks, import, revisions, faults>>
        /\ file' \in Note!Contents
    BY <1>0, <1>25 DEF Note!WriteForgotten, NoteTypes, NoteJob
  <2>3. PICK r : ComesTo(w, r) /\ EndsOverlap(w) /\ r.at = "idle"
    BY <1>0, <1>25, <2>2, NoteEnd DEF Note!WriteForgotten, Note!Idle
  <2>4. NoteTypes' /\ RowsHaveIds'
    BY <1>0, <2>2, <2>3 DEF NoteTypes, ComesTo, RowsHaveIds, EndsOverlap
  <2>5. OneAtATime' /\ ReviewsAreOfProposals'
    BY <1>0, <2>1, <2>2, <2>3, OneGoesOn, ReviewGoesOn DEF Note!Busy
  <2>6. ~overlap' => ReadHolds(w)'
    BY <1>0, <2>1, <2>2, <2>3 DEF ReadHolds, ReadsStillHold, ComesTo
  <2>7. ReadsStillHold'
    BY <1>0, <2>1, <2>2, <2>3, <2>6, ReadsGoOn DEF Note!Busy
  <2>8. PendingIsSearchable'
    BY <1>0, <2>1, <2>2, <2>3, SearchGoesOn
  <2> QED
    BY <2>4, <2>5, <2>7, <2>8 DEF NoteIInv
<1>26. ASSUME NEW w \in Writers, Note!Stop(w) PROVE NoteIInv'
  <2>1. jobs[w].at # "idle" /\ UNCHANGED <<Note!store, revisions>>
    BY <1>26 DEF Note!Stop, Note!At
  <2>2. faults' \in 1 .. MaxFaults
    BY <1>0, <1>26, NoteNumbers DEF Note!Stop, NoteTypes
  <2>3. ComesTo(w, Note!Idle) /\ EndsOverlap(w) /\ Note!Idle.at = "idle"
    BY <1>0, <1>26, <2>1, NoteEnd DEF Note!Stop, Note!Idle
  <2>4. NoteTypes' /\ RowsHaveIds'
    BY <1>0, <2>1, <2>2, <2>3, NoteNumbers
    DEF NoteTypes, ComesTo, RowsHaveIds, Note!store, EndsOverlap
  <2>5. OneAtATime' /\ ReviewsAreOfProposals'
    BY <1>0, <2>1, <2>3, OneGoesOn, ReviewGoesOn
  <2>6. ReadHolds(w)'
    BY <2>3 DEF ReadHolds, ComesTo
  <2>7. ReadsStillHold'
    BY <1>0, <2>1, <2>2, <2>3, <2>6, ReadsGoOn DEF Note!store
  <2>8. PendingIsSearchable'
    BY <2>2 DEF PendingIsSearchable, Note!PendingIsSearchable
  <2> QED
    BY <2>4, <2>5, <2>7, <2>8 DEF NoteIInv
<1>27. ASSUME NEW p \in Proposals, Note!Reject(p) PROVE NoteIInv'
  <2>1. UNCHANGED <<file, revs, previews, jobs, revisions, faults, overlap>>
    BY <1>27 DEF Note!Reject
  <2>2. /\ import' \in BOOLEAN /\ chunks' \subseteq Proposals
        /\ reviews' \in [Proposals -> {"pending", "promoted", "rejected"}]
    BY <1>0, <1>27 DEF Note!Reject, NoteTypes
  <2>3. NoteTypes' /\ RowsHaveIds' /\ ReviewsAreOfProposals'
    BY <1>0, <2>1, <2>2 DEF NoteTypes, RowsHaveIds, ReviewsAreOfProposals
  <2>4. OneAtATime' /\ ReadsStillHold'
    BY <1>0, <2>1 DEF OneAtATime, Note!Busy, ReadsStillHold, ReadHolds
  <2>5. PendingIsSearchable'
    BY <1>0, <1>27, <2>1 DEF Note!Reject, PendingIsSearchable, Note!PendingIsSearchable,
                             NoteTypes
  <2> QED
    BY <2>3, <2>4, <2>5 DEF NoteIInv
<1>28. ASSUME Note!RejectImport PROVE NoteIInv'
  <2>1. UNCHANGED <<file, revs, previews, jobs, revisions, faults, overlap>>
    BY <1>28 DEF Note!RejectImport
  <2>2. /\ import' \in BOOLEAN /\ chunks' \subseteq Proposals
        /\ reviews' \in [Proposals -> {"pending", "promoted", "rejected"}]
    BY <1>0, <1>28 DEF Note!RejectImport, NoteTypes
  <2>3. NoteTypes' /\ RowsHaveIds' /\ ReviewsAreOfProposals'
    BY <1>0, <2>1, <2>2 DEF NoteTypes, RowsHaveIds, ReviewsAreOfProposals
  <2>4. OneAtATime' /\ ReadsStillHold'
    BY <1>0, <2>1 DEF OneAtATime, Note!Busy, ReadsStillHold, ReadHolds
  <2>5. PendingIsSearchable'
    BY <1>0, <1>28, <2>1 DEF Note!RejectImport, PendingIsSearchable, Note!PendingIsSearchable,
                             NoteTypes
  <2> QED
    BY <2>3, <2>4, <2>5 DEF NoteIInv
<1>29. ASSUME Note!RememberImport PROVE NoteIInv'
  <2>1. UNCHANGED <<file, revs, previews, jobs, revisions, faults, overlap>>
    BY <1>29 DEF Note!RememberImport
  <2>2. /\ import' \in BOOLEAN /\ chunks' \subseteq Proposals
        /\ reviews' \in [Proposals -> {"pending", "promoted", "rejected"}]
    BY <1>0, <1>29 DEF Note!RememberImport, NoteTypes
  <2>3. NoteTypes' /\ RowsHaveIds' /\ ReviewsAreOfProposals'
    BY <1>0, <2>1, <2>2 DEF NoteTypes, RowsHaveIds, ReviewsAreOfProposals
  <2>4. OneAtATime' /\ ReadsStillHold'
    BY <1>0, <2>1 DEF OneAtATime, Note!Busy, ReadsStillHold, ReadHolds
  <2>5. PendingIsSearchable'
    BY <1>0, <1>29, <2>1 DEF Note!RememberImport, PendingIsSearchable, Note!PendingIsSearchable,
                             NoteTypes
  <2> QED
    BY <2>3, <2>4, <2>5 DEF NoteIInv
<1>30. ASSUME Note!Edit PROVE NoteIInv'
  <2>1. UNCHANGED <<revs, previews, reviews, chunks, import, jobs, revisions, faults>>
    BY <1>30 DEF Note!Edit
  <2>2. file' \in Note!Contents /\ overlap' = (overlap \/ \E v \in Writers : Note!Busy(v))
    BY <1>30 DEF Note!Edit
  <2>3. NoteTypes' /\ RowsHaveIds' /\ ReviewsAreOfProposals'
    BY <1>0, <2>1, <2>2 DEF NoteTypes, RowsHaveIds, ReviewsAreOfProposals
  <2>4. OneAtATime'
    BY <1>0, <2>1, <2>2 DEF OneAtATime, Note!Busy
  <2>5. ReadsStillHold'
    BY <1>0, <2>1, <2>2 DEF ReadsStillHold, ReadHolds, Note!Busy
  <2>6. PendingIsSearchable'
    BY <1>0, <2>1 DEF PendingIsSearchable, Note!PendingIsSearchable
  <2> QED
    BY <2>3, <2>4, <2>5, <2>6 DEF NoteIInv
<1>31. CASE UNCHANGED Note!vars
  BY <1>0, <1>31 DEF Note!vars, NoteIInv, NoteTypes, ReviewsAreOfProposals, OneAtATime,
                     RowsHaveIds, ReadsStillHold, ReadHolds, PendingIsSearchable,
                     Note!PendingIsSearchable, Note!Busy
<1> QED
  BY <1>1, <1>2, <1>3, <1>4, <1>5, <1>6, <1>7, <1>8, <1>9, <1>10, <1>11, <1>12, <1>13, <1>14,
         <1>15, <1>16, <1>17, <1>18, <1>19, <1>20, <1>21, <1>22, <1>23, <1>24, <1>25, <1>26,
         <1>27, <1>28, <1>29, <1>30, <1>31 DEF Note!Next, Note!Service, Note!Drafting,
         Note!Approval, Note!Undoing, Note!Forgetting

-----------------------------------------------------------------------------
\* A step of the run is one of the note or leaves it alone.
LEMMA NoteStep == [MCNext]_mcVars => [Note!Next]_(Note!vars)
  BY DEF MCNext, mcVars, noteVars, Note!vars

\* A pending proposal is where review finds it, whatever writers, reviews and
\* forgetting do to the note (approve, reject, forget_source).
THEOREM PendingFound == MCSpec => []PendingIsSearchable
<1>1. MCInit => NoteIInv
  BY Assumptions, NoteInit DEF MCInit
<1>2. NoteIInv /\ [MCNext]_mcVars => NoteIInv'
  BY Assumptions, NoteStep, NoteNext
<1>3. NoteIInv => PendingIsSearchable
  BY DEF NoteIInv
<1> QED
  BY <1>1, <1>2, <1>3, PTL DEF MCSpec

-----------------------------------------------------------------------------
Priors(s) == [i \in 1 .. Len(s) |-> s[i].prior]
Late == {"write", "reopen", "reindex", "insert", "consume"}

\* The undo stack that writers at ws and the rows rs stand for.
StackOf(ws, rs) ==
  IF (\E w \in Writers : ws[w].at \in Late) /\ Priors(rs) # <<>>
  THEN Front(Priors(rs))
  ELSE IF \E w \in Writers : ws[w].at = "snapshot"
       THEN Append(Priors(rs), ws[CHOOSE w \in Writers : ws[w].at = "snapshot"].prior)
       ELSE Priors(rs)

OnlyBusy(ws, w) == \A v \in Writers : ws[v].at \notin {"idle", "draft"} => v = w

\* The undo stack in terms of the writers and the rows.
LEMMA UndoStackIs == Note!UndoStack = StackOf(jobs, revs) /\ Note!UndoStack' = StackOf(jobs', revs')
  BY DEF Note!UndoStack, Note!Some, Note!Priors, Note!Front, Front, Note!At, StackOf, Priors, Late

\* What was appended comes off again.
LEMMA FrontOfAppend ==
  ASSUME NEW S, NEW s \in Seq(S), NEW e \in S
  PROVE  Front(Append(s, e)) = s /\ Append(s, e) # <<>>
<1>1. /\ Append(s, e) \in Seq(S) /\ Len(Append(s, e)) = Len(s) + 1 /\ Append(s, e) # <<>>
      /\ \A i \in 1 .. Len(s) : Append(s, e)[i] = s[i]
  BY AppendProperties
<1>2. Len(s) \in Nat
  BY LenProperties
<1>3. Front(Append(s, e)) \in Seq(S) /\ Len(Front(Append(s, e))) = Len(s)
      /\ \A i \in 1 .. Len(s) : Front(Append(s, e))[i] = s[i]
  BY <1>1, <1>2 DEF Front
<1> QED
  BY <1>1, <1>2, <1>3, SeqEqual

\* All but the last member, and the last.
LEMMA FrontAndLast ==
  ASSUME NEW S, NEW s \in Seq(S), s # <<>>
  PROVE  /\ Front(s) \in Seq(S) /\ Len(Front(s)) = Len(s) - 1 /\ Len(s) \in Nat \ {0}
         /\ Last(s) \in S /\ Append(Front(s), Last(s)) = s
         /\ \A i \in 1 .. Len(s) - 1 : Front(s)[i] = s[i]
<1>1. Len(s) \in Nat \ {0}
  BY LenProperties, EmptySeq
<1>2. Front(s) \in Seq(S) /\ Len(Front(s)) = Len(s) - 1 /\ \A i \in 1 .. Len(s) - 1 : Front(s)[i] = s[i]
  <2>1. SubSeq(s, 1, Len(s) - 1) \in Seq(S)
    BY <1>1
  <2>2. Len(SubSeq(s, 1, Len(s) - 1)) = Len(s) - 1
    <3>1. Len(s) - 1 \in Int /\ \A i \in 1 .. Len(s) - 1 : s[i] \in S
      BY <1>1
    <3>2. Len(SubSeq(s, 1, Len(s) - 1)) = IF 1 <= Len(s) - 1 THEN (Len(s) - 1) - 1 + 1 ELSE 0
      BY <3>1, SubSeqProperties
    <3> DEFINE n == Len(s)
               m == Len(SubSeq(s, 1, Len(s) - 1))
    <3>3. n \in Nat \ {0} /\ m = IF 1 <= n - 1 THEN (n - 1) - 1 + 1 ELSE 0
      BY <1>1, <3>2
    <3> HIDE DEF n, m
    <3>4. m = n - 1
      BY <3>3
    <3> QED
      BY <3>4 DEF n, m
  <2>3. \A i \in 1 .. Len(s) - 1 : SubSeq(s, 1, Len(s) - 1)[i] = s[i]
    BY <1>1
  <2> QED
    BY <2>1, <2>2, <2>3 DEF Front
<1>3. Last(s) \in S /\ Last(s) = s[Len(s)]
  BY <1>1 DEF Last
<1> HIDE DEF Front, Last
<1>4. /\ Append(Front(s), Last(s)) \in Seq(S) /\ Len(Append(Front(s), Last(s))) = Len(Front(s)) + 1
      /\ \A i \in 1 .. Len(Front(s)) : Append(Front(s), Last(s))[i] = Front(s)[i]
      /\ Append(Front(s), Last(s))[Len(Front(s)) + 1] = Last(s)
  BY <1>2, <1>3, AppendProperties
<1>5. Len(Front(s)) + 1 = Len(s)
  BY <1>1, <1>2
<1>6. \A i \in 1 .. Len(s) : i \in 1 .. Len(s) - 1 \/ i = Len(s)
  BY <1>1
<1>7. \A i \in 1 .. Len(s) : Append(Front(s), Last(s))[i] = s[i]
  BY <1>2, <1>3, <1>4, <1>5, <1>6
<1>8. Append(Front(s), Last(s)) = s
  BY <1>4, <1>5, <1>7, SeqEqual
<1> QED
  BY <1>1, <1>2, <1>3, <1>8

\* The texts that the revision rows keep.
LEMMA PriorsOf ==
  ASSUME NEW n, NEW s \in Seq(NoteRow(n))
  PROVE  /\ Priors(s) \in Seq(Note!Contents) /\ Len(Priors(s)) = Len(s)
         /\ \A i \in 1 .. Len(s) : Priors(s)[i] = s[i].prior
<1>1. Len(s) \in Nat /\ \A i \in 1 .. Len(s) : s[i] \in NoteRow(n)
  BY LenProperties
<1>2. \A i \in 1 .. Len(s) : s[i].prior \in Note!Contents
  BY <1>1 DEF NoteRow
<1> QED
  BY <1>1, <1>2 DEF Priors

\* One more row keeps one more text.
LEMMA PriorsOfAppend ==
  ASSUME NEW n, NEW s \in Seq(NoteRow(n)), NEW e \in NoteRow(n)
  PROVE  Priors(Append(s, e)) = Append(Priors(s), e.prior) /\ e.prior \in Note!Contents
<1>1. e.prior \in Note!Contents
  BY DEF NoteRow
<1>2. /\ Append(s, e) \in Seq(NoteRow(n)) /\ Len(Append(s, e)) = Len(s) + 1
      /\ \A i \in 1 .. Len(s) : Append(s, e)[i] = s[i]
      /\ Append(s, e)[Len(s) + 1] = e
  BY AppendProperties
<1>3. /\ Priors(s) \in Seq(Note!Contents) /\ Len(Priors(s)) = Len(s)
      /\ \A i \in 1 .. Len(s) : Priors(s)[i] = s[i].prior
  BY PriorsOf
<1>4. /\ Append(Priors(s), e.prior) \in Seq(Note!Contents) /\ Len(Append(Priors(s), e.prior)) = Len(s) + 1
      /\ \A i \in 1 .. Len(s) : Append(Priors(s), e.prior)[i] = Priors(s)[i]
      /\ Append(Priors(s), e.prior)[Len(s) + 1] = e.prior
  BY <1>1, <1>3, AppendProperties
<1>5. /\ Priors(Append(s, e)) \in Seq(Note!Contents) /\ Len(Priors(Append(s, e))) = Len(s) + 1
      /\ \A i \in 1 .. Len(s) + 1 : Priors(Append(s, e))[i] = Append(s, e)[i].prior
  BY <1>2, PriorsOf
<1>6. Len(s) \in Nat
  BY LenProperties
<1>7. \A i \in 1 .. Len(s) + 1 : i \in 1 .. Len(s) \/ i = Len(s) + 1
  BY <1>6
<1>8. \A i \in 1 .. Len(s) + 1 : Priors(Append(s, e))[i] = Append(Priors(s), e.prior)[i]
  BY <1>2, <1>3, <1>4, <1>5, <1>7
<1> QED
  BY <1>1, <1>4, <1>5, <1>8, SeqEqual

\* One row less keeps one text less.
LEMMA PriorsOfFront ==
  ASSUME NEW n, NEW s \in Seq(NoteRow(n)), s # <<>>
  PROVE  /\ Priors(Front(s)) = Front(Priors(s)) /\ Priors(s) # <<>>
         /\ Last(Priors(s)) = Last(s).prior
<1>1. /\ Front(s) \in Seq(NoteRow(n)) /\ Len(Front(s)) = Len(s) - 1 /\ Len(s) \in Nat \ {0}
      /\ \A i \in 1 .. Len(s) - 1 : Front(s)[i] = s[i]
  BY FrontAndLast
<1>2. /\ Priors(s) \in Seq(Note!Contents) /\ Len(Priors(s)) = Len(s)
      /\ \A i \in 1 .. Len(s) : Priors(s)[i] = s[i].prior
  BY PriorsOf
<1>3. Priors(s) # <<>>
  BY <1>1, <1>2, EmptySeq
<1>4. /\ Front(Priors(s)) \in Seq(Note!Contents) /\ Len(Front(Priors(s))) = Len(s) - 1
      /\ \A i \in 1 .. Len(s) - 1 : Front(Priors(s))[i] = Priors(s)[i]
  BY <1>2, <1>3, FrontAndLast
<1>5. /\ Priors(Front(s)) \in Seq(Note!Contents) /\ Len(Priors(Front(s))) = Len(s) - 1
      /\ \A i \in 1 .. Len(s) - 1 : Priors(Front(s))[i] = Front(s)[i].prior
  BY <1>1, PriorsOf
<1>6. \A i \in 1 .. Len(s) - 1 : i \in 1 .. Len(s)
  BY <1>1
<1>7. \A i \in 1 .. Len(s) - 1 : Priors(Front(s))[i] = Front(Priors(s))[i]
  BY <1>1, <1>2, <1>4, <1>5, <1>6
<1>8. Priors(Front(s)) = Front(Priors(s))
  BY <1>4, <1>5, <1>7, SeqEqual
<1>9. Last(Priors(s)) = Last(s).prior
  BY <1>1, <1>2 DEF Last
<1> QED
  BY <1>3, <1>8, <1>9

\* With one writer at work, the stack follows from its place.
LEMMA StackByPlace ==
  ASSUME NEW ws, NEW rs, NEW w \in Writers, OnlyBusy(ws, w)
  PROVE  /\ ws[w].at \notin Late \cup {"snapshot"} => StackOf(ws, rs) = Priors(rs)
         /\ ws[w].at \in Late /\ Priors(rs) # <<>> => StackOf(ws, rs) = Front(Priors(rs))
         /\ ws[w].at = "snapshot" => StackOf(ws, rs) = Append(Priors(rs), ws[w].prior)
<1>1. \A v \in Writers : ws[v].at \in Late \cup {"snapshot"} => v = w
  BY DEF OnlyBusy, Late
<1>2. CASE ws[w].at \notin Late \cup {"snapshot"}
  BY <1>1, <1>2 DEF StackOf, Late
<1>3. CASE ws[w].at \in Late
  BY <1>1, <1>3 DEF StackOf, Late
<1>4. CASE ws[w].at = "snapshot"
  <2>1. \A v \in Writers : ws[v].at \notin Late
    BY <1>1, <1>4 DEF Late
  <2> DEFINE c == CHOOSE v \in Writers : ws[v].at = "snapshot"
  <2>2. c \in Writers /\ ws[c].at = "snapshot"
    BY <1>4
  <2>3. c = w
    BY <1>1, <2>2
  <2>4. StackOf(ws, rs) = Append(Priors(rs), ws[c].prior)
    BY <1>4, <2>1 DEF StackOf
  <2> QED
    BY <1>4, <2>3, <2>4 DEF Late
<1> QED
  BY <1>2, <1>3, <1>4

\* A step that moves no writer into or out of a place that counts.
LEMMA StackStays ==
  ASSUME NEW ws, NEW vs, NEW rs,
         \A v, w \in Writers : ws[v].at \notin {"idle", "draft"} /\ ws[w].at \notin {"idle", "draft"} => v = w,
         \A v \in Writers : /\ ws[v].at \in Late <=> vs[v].at \in Late
                            /\ ws[v].at = "snapshot" => vs[v].at = "snapshot" /\ ws[v].prior = vs[v].prior
                            /\ vs[v].at = "snapshot" => ws[v].at = "snapshot"
  PROVE  StackOf(ws, rs) = StackOf(vs, rs)
<1>1. CASE \E w \in Writers : ws[w].at = "snapshot"
  <2>1. PICK w \in Writers : ws[w].at = "snapshot"
    BY <1>1
  <2> DEFINE c == CHOOSE v \in Writers : ws[v].at = "snapshot"
             d == CHOOSE v \in Writers : vs[v].at = "snapshot"
  <2>2. c \in Writers /\ ws[c].at = "snapshot"
    BY <2>1
  <2>3. d \in Writers /\ vs[d].at = "snapshot"
    BY <2>1
  <2> HIDE DEF c, d
  <2>4. c = w /\ d = w
    BY <2>1, <2>2, <2>3
  <2>5. ws[c].prior = vs[d].prior
    BY <2>1, <2>4
  <2>6. \A v \in Writers : ws[v].at \notin Late /\ vs[v].at \notin Late
    BY <2>1 DEF Late
  <2>7. StackOf(ws, rs) = Append(Priors(rs), ws[c].prior)
    BY <2>1, <2>6 DEF StackOf, c
  <2>8. StackOf(vs, rs) = Append(Priors(rs), vs[d].prior)
    BY <2>1, <2>6 DEF StackOf, d
  <2> QED
    BY <2>5, <2>7, <2>8
<1>2. CASE ~ \E w \in Writers : ws[w].at = "snapshot"
  BY <1>2 DEF StackOf
<1> QED
  BY <1>1, <1>2

\* Nobody moves into or out of a place that counts.
Quiet ==
  \A v \in Writers : /\ jobs[v].at \in Late <=> jobs'[v].at \in Late
                     /\ jobs[v].at = "snapshot" =>
                          jobs'[v].at = "snapshot" /\ jobs[v].prior = jobs'[v].prior
                     /\ jobs'[v].at = "snapshot" => jobs[v].at = "snapshot"

\* A write that no row is kept of is the abstract overwriting.
LEMMA QuietIsOverwrite ==
  ASSUME NoteIInv, NoteIInv', ~overlap, ~overlap', UNCHANGED revs, Quiet
  PROVE  Note!Note!Next
<1>1. StackOf(jobs, revs) = StackOf(jobs', revs)
  BY StackStays DEF NoteIInv, OneAtATime, Note!Busy, Quiet
<1>2. Note!UndoStack' = Note!UndoStack /\ file' \in Note!Contents
  BY <1>1, UndoStackIs DEF NoteIInv, NoteTypes
<1> QED
  BY <1>2 DEF Note!Note!Next, Note!Note!Overwrite

\* A write whose former text goes on the stack is the abstract write.
LEMMA WriteOfTheNote ==
  ASSUME NoteIInv', ~overlap, ~overlap', Note!UndoStack' = Append(Note!UndoStack, file)
  PROVE  Note!Note!Next
  BY DEF Note!Note!Next, Note!Note!Write, NoteIInv, NoteTypes

\* A rollback to what the last row keeps is the abstract undo.
LEMMA UndoOfTheNote ==
  ASSUME ~overlap, ~overlap', Note!UndoStack # <<>>,
         Note!UndoStack' = Front(Note!UndoStack), file' = Last(Note!UndoStack)
  PROVE  Note!Note!Next
  BY DEF Note!Note!Next, Note!Note!Undo, Note!Note!Front, Note!Note!Last, Front, Last

\* A row taken off that undoes nothing is the abstract loss of an entry.
LEMMA EntryIsLost ==
  ASSUME Note!UndoStack # <<>>, Note!UndoStack' = Front(Note!UndoStack), UNCHANGED file
  PROVE  Note!Note!Next
  BY DEF Note!Note!Next, Note!Note!Lose, Note!Note!Front, Front

\* Each step of the note's writers is one of the register with its undo stack.
LEMMA NoteRefines ==
  ASSUME Assumptions, NoteIInv, NoteIInv', [Note!Next]_(Note!vars)
  PROVE  [Note!Note!Next]_(Note!Note!vars)
<1>1. CASE overlap \/ overlap'
  BY <1>1 DEF Note!Note!Next
<1>2. CASE ~overlap /\ ~overlap'
  <2>0. /\ ~overlap /\ ~overlap'
        /\ NoteTypes /\ OneAtATime /\ RowsHaveIds /\ NoteTypes' /\ OneAtATime'
        /\ \A w \in Writers : ReadHolds(w)
        /\ \A w \in Writers : jobs[w] \in NoteJob(revisions)
    BY <1>2 DEF NoteIInv, ReadsStillHold, NoteTypes
  <2>a. \A w \in Writers : Note!Busy(w) => OnlyBusy(jobs, w)
    BY <2>0 DEF OneAtATime, Note!Busy, OnlyBusy
  <2>b. revs \in Seq(NoteRow(revisions)) /\ Priors(revs) \in Seq(Note!Contents)
    BY <2>0, PriorsOf DEF NoteTypes
  <2>1. ASSUME NEW w \in Writers, NEW text \in Texts, Note!Remember(w, text) PROVE Note!Note!Next
    <3>1. UNCHANGED revs /\ Quiet
      BY <2>0, <2>1 DEF Note!Remember, Note!Begin, Note!At, Note!Busy, Note!Idle, Note!store,
                        Quiet, Late, NoteTypes, NoteJob
    <3> QED
      BY <2>0, <3>1, QuietIsOverwrite
  <2>2. ASSUME NEW w \in Writers, Note!Delete(w) PROVE Note!Note!Next
    <3>1. UNCHANGED revs /\ Quiet
      BY <2>0, <2>2 DEF Note!Delete, Note!Begin, Note!At, Note!Busy, Note!Idle, Note!store,
                        Quiet, Late, NoteTypes, NoteJob
    <3> QED
      BY <2>0, <3>1, QuietIsOverwrite
  <2>3. ASSUME NEW w \in Writers, NEW p \in Proposals, Note!Preview(w, p) PROVE Note!Note!Next
    <3>1. UNCHANGED revs /\ Quiet
      BY <2>0, <2>3 DEF Note!Preview, Note!Draft, Note!At, Note!Idle, Note!store, Quiet, Late,
                        NoteTypes, NoteJob
    <3> QED
      BY <2>0, <3>1, QuietIsOverwrite
  <2>4. ASSUME NEW w \in Writers, Note!PreviewImport(w) PROVE Note!Note!Next
    <3>1. UNCHANGED revs /\ Quiet
      BY <2>0, <2>4 DEF Note!PreviewImport, Note!Draft, Note!At, Note!Idle, Note!store, Quiet,
                        Late, NoteTypes, NoteJob
    <3> QED
      BY <2>0, <3>1, QuietIsOverwrite
  <2>5. ASSUME NEW w \in Writers, NEW text \in Texts, Note!RecordConsolidationPreview(w, text)
        PROVE  Note!Note!Next
    <3>1. UNCHANGED revs /\ Quiet
      BY <2>0, <2>5 DEF Note!RecordConsolidationPreview, Note!RecordPreview, Note!At, Note!End,
                        Note!Idle, Quiet, Late, NoteTypes, NoteJob
    <3> QED
      BY <2>0, <3>1, QuietIsOverwrite
  <2>6. ASSUME NEW w \in Writers, NEW text \in Texts, Note!RecordImportPreview(w, text)
        PROVE  Note!Note!Next
    <3>1. UNCHANGED revs /\ Quiet
      BY <2>0, <2>6 DEF Note!RecordImportPreview, Note!RecordPreview, Note!At, Note!End,
                        Note!Idle, Quiet, Late, NoteTypes, NoteJob
    <3> QED
      BY <2>0, <3>1, QuietIsOverwrite
  <2>7. ASSUME NEW w \in Writers, NEW preview \in previews, Note!Approve(w, preview)
        PROVE  Note!Note!Next
    <3>1. UNCHANGED revs /\ Quiet
      BY <2>0, <2>7 DEF Note!Approve, Note!Apply, Note!Begin, Note!At, Note!Busy, Note!Idle,
                        Note!store, Quiet, Late, NoteTypes, NoteJob
    <3> QED
      BY <2>0, <3>1, QuietIsOverwrite
  <2>8. ASSUME NEW w \in Writers, NEW preview \in previews, Note!ApproveImport(w, preview)
        PROVE  Note!Note!Next
    <3>1. UNCHANGED revs /\ Quiet
      BY <2>0, <2>8 DEF Note!ApproveImport, Note!Apply, Note!Begin, Note!At, Note!Busy,
                        Note!Idle, Note!store, Quiet, Late, NoteTypes, NoteJob
    <3> QED
      BY <2>0, <3>1, QuietIsOverwrite
  <2>9. ASSUME NEW w \in Writers, Note!RemoveProposal(w) PROVE Note!Note!Next
    <3>1. UNCHANGED revs /\ Quiet
      BY <2>0, <2>9 DEF Note!RemoveProposal, Note!At, Note!Move, Quiet, Late, NoteTypes, NoteJob
    <3> QED
      BY <2>0, <3>1, QuietIsOverwrite
  <2>10. ASSUME NEW w \in Writers, Note!Promote(w) PROVE Note!Note!Next
    <3>1. UNCHANGED revs /\ Quiet
      BY <2>0, <2>10 DEF Note!Promote, Note!At, Note!End, Note!Idle, Quiet, Late, NoteTypes,
                         NoteJob
    <3> QED
      BY <2>0, <3>1, QuietIsOverwrite
  <2>11. ASSUME NEW w \in Writers, Note!WriteImported(w) PROVE Note!Note!Next
    <3>1. UNCHANGED revs /\ Quiet
      BY <2>0, <2>11 DEF Note!WriteImported, Note!At, Note!Write, Quiet, Late, NoteTypes,
                         NoteJob
    <3> QED
      BY <2>0, <3>1, QuietIsOverwrite
  <2>12. ASSUME NEW w \in Writers, Note!RetireImport(w) PROVE Note!Note!Next
    <3>1. UNCHANGED revs /\ Quiet
      BY <2>0, <2>12 DEF Note!RetireImport, Note!At, Note!End, Note!Idle, Quiet, Late,
                         NoteTypes, NoteJob
    <3> QED
      BY <2>0, <3>1, QuietIsOverwrite
  <2>13. ASSUME NEW w \in Writers, Note!Rollback(w) PROVE Note!Note!Next
    <3>1. UNCHANGED revs /\ Quiet
      BY <2>0, <2>13 DEF Note!Rollback, Note!Begin, Note!At, Note!Busy, Note!Idle, Note!store,
                         Quiet, Late, NoteTypes, NoteJob
    <3> QED
      BY <2>0, <3>1, QuietIsOverwrite
  <2>14. ASSUME NEW w \in Writers, Note!Reopen(w) PROVE Note!Note!Next
    <3>1. UNCHANGED revs /\ Quiet
      BY <2>0, <2>14 DEF Note!Reopen, Note!At, Note!Move, Quiet, Late, NoteTypes, NoteJob
    <3> QED
      BY <2>0, <3>1, QuietIsOverwrite
  <2>15. ASSUME NEW w \in Writers, Note!DeleteChunk(w) PROVE Note!Note!Next
    <3>1. UNCHANGED revs /\ Quiet
      BY <2>0, <2>15 DEF Note!DeleteChunk, Note!At, Note!Move, Quiet, Late, NoteTypes, NoteJob
    <3> QED
      BY <2>0, <3>1, QuietIsOverwrite
  <2>16. ASSUME NEW w \in Writers, Note!InsertChunk(w) PROVE Note!Note!Next
    <3>1. UNCHANGED revs /\ Quiet
      BY <2>0, <2>16 DEF Note!InsertChunk, Note!At, Note!Move, Quiet, Late, NoteTypes, NoteJob
    <3> QED
      BY <2>0, <3>1, QuietIsOverwrite
  <2>17. ASSUME NEW w \in Writers, NEW text \in Texts, Note!Forget(w, text) PROVE Note!Note!Next
    <3>1. UNCHANGED revs /\ Quiet
      BY <2>0, <2>17 DEF Note!Forget, Note!Begin, Note!At, Note!Busy, Note!Idle, Note!store,
                         Quiet, Late, NoteTypes, NoteJob
    <3> QED
      BY <2>0, <3>1, QuietIsOverwrite
  <2>18. ASSUME NEW w \in Writers, Note!WriteForgotten(w) PROVE Note!Note!Next
    <3>1. UNCHANGED revs /\ Quiet
      BY <2>0, <2>18 DEF Note!WriteForgotten, Note!At, Note!End, Note!Idle, Quiet, Late,
                         NoteTypes, NoteJob
    <3> QED
      BY <2>0, <3>1, QuietIsOverwrite
  <2>19. ASSUME NEW w \in Writers, Note!Stop(w) PROVE Note!Note!Next
    <3>1. /\ jobs[w].at # "idle" /\ jobs'[w].at = "idle" /\ \A v \in Writers : v # w => jobs'[v] = jobs[v]
          /\ UNCHANGED <<file, revs>>
      BY <2>0, <2>19 DEF Note!Stop, Note!At, Note!End, Note!Idle, Note!store, NoteTypes
    <3>2. CASE jobs[w].at \notin Late \cup {"snapshot"}
      <4>1. Quiet
        BY <3>1, <3>2 DEF Quiet, Late
      <4> QED
        BY <2>0, <3>1, <4>1, QuietIsOverwrite
    <3>3. CASE jobs[w].at \in Late \cup {"snapshot"}
      <4>1. OnlyBusy(jobs, w) /\ OnlyBusy(jobs', w)
        BY <2>a, <3>1, <3>3 DEF Note!Busy, OnlyBusy, Late
      <4>2. StackOf(jobs', revs') = Priors(revs)
        BY <3>1, <4>1, StackByPlace DEF Late
      <4>3. CASE jobs[w].at = "snapshot"
        <5>1. jobs[w].prior \in Note!Contents
          BY <2>0 DEF NoteJob
        <5>2. StackOf(jobs, revs) = Append(Priors(revs), jobs[w].prior)
          BY <4>1, <4>3, StackByPlace
        <5>3. /\ Front(Append(Priors(revs), jobs[w].prior)) = Priors(revs)
              /\ Append(Priors(revs), jobs[w].prior) # <<>>
          BY <2>b, <5>1, FrontOfAppend
        <5> QED
          BY <3>1, <4>2, <5>2, <5>3, UndoStackIs, EntryIsLost
      <4>4. CASE jobs[w].at \in Late
        <5>1. revs # <<>> /\ Last(revs).prior = file
          BY <2>0, <4>4 DEF ReadHolds, Late
        <5>2. Priors(revs) # <<>> /\ Last(Priors(revs)) = file
          BY <2>b, <5>1, PriorsOfFront
        <5>3. StackOf(jobs, revs) = Front(Priors(revs))
          BY <4>1, <4>4, <5>2, StackByPlace
        <5>4. Priors(revs) = Append(Front(Priors(revs)), file)
          BY <2>b, <5>2, FrontAndLast
        <5> QED
          BY <2>0, <4>2, <5>3, <5>4, UndoStackIs, WriteOfTheNote
      <4> QED
        BY <3>3, <4>3, <4>4
    <3> QED
      BY <3>2, <3>3
  <2>20. ASSUME NEW p \in Proposals, Note!Reject(p) PROVE Note!Note!Next
    <3>1. UNCHANGED revs /\ Quiet
      BY <2>0, <2>20 DEF Note!Reject, Quiet, Late, NoteTypes, NoteJob
    <3> QED
      BY <2>0, <3>1, QuietIsOverwrite
  <2>21. ASSUME Note!RejectImport PROVE Note!Note!Next
    <3>1. UNCHANGED revs /\ Quiet
      BY <2>0, <2>21 DEF Note!RejectImport, Quiet, Late, NoteTypes, NoteJob
    <3> QED
      BY <2>0, <3>1, QuietIsOverwrite
  <2>22. ASSUME Note!RememberImport PROVE Note!Note!Next
    <3>1. UNCHANGED revs /\ Quiet
      BY <2>0, <2>22 DEF Note!RememberImport, Quiet, Late, NoteTypes, NoteJob
    <3> QED
      BY <2>0, <3>1, QuietIsOverwrite
  <2>23. ASSUME Note!Edit PROVE Note!Note!Next
    <3>1. UNCHANGED revs /\ Quiet
      BY <2>0, <2>23 DEF Note!Edit, Note!Busy, Quiet, Late, NoteTypes, NoteJob
    <3> QED
      BY <2>0, <3>1, QuietIsOverwrite
  <2>24. ASSUME NEW w \in Writers, Note!WriteNote(w) PROVE Note!Note!Next
    <3>1. /\ jobs[w].at = "remember" /\ jobs'[w].at = "snapshot" /\ jobs'[w].prior = jobs[w].prior
          /\ UNCHANGED revs /\ \A v \in Writers : v # w => jobs'[v] = jobs[v]
      BY <2>0, <2>24 DEF Note!WriteNote, Note!Write, Note!At, NoteTypes, NoteJob
    <3>2. OnlyBusy(jobs, w) /\ OnlyBusy(jobs', w)
      BY <2>a, <3>1 DEF Note!Busy, OnlyBusy
    <3>3. jobs[w].prior = file
      BY <2>0, <3>1 DEF ReadHolds
    <3>4. StackOf(jobs, revs) = Priors(revs) /\ StackOf(jobs', revs') = Append(Priors(revs), file)
      BY <3>1, <3>2, <3>3, StackByPlace DEF Late
    <3> QED
      BY <2>0, <3>4, UndoStackIs, WriteOfTheNote
  <2>25. ASSUME NEW w \in Writers, Note!Unlink(w) PROVE Note!Note!Next
    <3>1. /\ jobs[w].at = "delete" /\ UNCHANGED revs /\ \A v \in Writers : v # w => jobs'[v] = jobs[v]
      BY <2>0, <2>25 DEF Note!Unlink, Note!Move, Note!End, Note!At, NoteTypes, NoteJob
    <3>2. OnlyBusy(jobs, w) /\ OnlyBusy(jobs', w)
      BY <2>a, <3>1 DEF Note!Busy, OnlyBusy
    <3>3. CASE file # Note!Empty
      <4>1. jobs'[w].at = "snapshot" /\ jobs'[w].prior = jobs[w].prior
        BY <2>0, <2>25, <3>3 DEF Note!Unlink, Note!Move, NoteTypes, NoteJob
      <4>2. jobs[w].prior = file
        BY <2>0, <3>1 DEF ReadHolds
      <4>3. StackOf(jobs, revs) = Priors(revs) /\ StackOf(jobs', revs') = Append(Priors(revs), file)
        BY <3>1, <3>2, <4>1, <4>2, StackByPlace DEF Late
      <4> QED
        BY <2>0, <4>3, UndoStackIs, WriteOfTheNote
    <3>4. CASE file = Note!Empty
      <4>1. jobs'[w].at = "idle"
        BY <2>0, <2>25, <3>4 DEF Note!Unlink, Note!End, Note!Idle, NoteTypes
      <4>2. Quiet
        BY <3>1, <4>1 DEF Quiet, Late
      <4> QED
        BY <2>0, <3>1, <4>2, QuietIsOverwrite
    <3> QED
      BY <3>3, <3>4
  <2>26. ASSUME NEW w \in Writers, Note!RecordRevision(w) PROVE Note!Note!Next
    <3>1. /\ jobs[w].at = "snapshot" /\ jobs'[w].at = "idle" /\ \A v \in Writers : v # w => jobs'[v] = jobs[v]
          /\ revs' = Append(revs, [id |-> revisions', proposal |-> Note!NoProposal, prior |-> jobs[w].prior])
          /\ revisions' \in Nat /\ revisions' = revisions + 1
      BY <2>0, <2>26, NoteNumbers DEF Note!RecordRevision, Note!Revision, Note!End, Note!Idle,
                                      Note!At, NoteTypes
    <3>2. OnlyBusy(jobs, w) /\ OnlyBusy(jobs', w)
      BY <2>a, <3>1 DEF Note!Busy, OnlyBusy
    <3>3. Priors(revs') = Append(Priors(revs), jobs[w].prior)
      <4> DEFINE e == [id |-> revisions', proposal |-> Note!NoProposal, prior |-> jobs[w].prior]
      <4>1. NoteRow(revisions) \subseteq NoteRow(revisions') /\ e \in NoteRow(revisions')
        BY <2>0, <3>1 DEF NoteRow, NoteTypes, NoteJob
      <4>2. revs \in Seq(NoteRow(revisions'))
        BY <2>b, <4>1, SeqMonotonic
      <4>3. e.prior = jobs[w].prior
        OBVIOUS
      <4> HIDE DEF e
      <4>4. Priors(Append(revs, e)) = Append(Priors(revs), e.prior)
        BY <4>1, <4>2, PriorsOfAppend
      <4> QED
        BY <3>1, <4>3, <4>4 DEF e
    <3>4. StackOf(jobs, revs) = Append(Priors(revs), jobs[w].prior) /\ StackOf(jobs', revs') = Priors(revs')
      BY <3>1, <3>2, StackByPlace DEF Late
    <3>5. Note!UndoStack' = Note!UndoStack /\ file' \in Note!Contents
      BY <2>0, <3>3, <3>4, UndoStackIs DEF NoteTypes
    <3> QED
      BY <2>0, <3>5 DEF Note!Note!Next, Note!Note!Overwrite
  <2>27. ASSUME NEW w \in Writers, Note!RecordTopicRevision(w) PROVE Note!Note!Next
    <3>1. /\ jobs[w].at = "record" /\ jobs'[w].at = "write" /\ \A v \in Writers : v # w => jobs'[v] = jobs[v]
          /\ revs' = Append(revs, [id |-> revisions', proposal |-> jobs[w].proposal, prior |-> jobs[w].prior])
          /\ revisions' \in Nat /\ revisions' = revisions + 1
      BY <2>0, <2>27, NoteNumbers DEF Note!RecordTopicRevision, Note!Revision, Note!Move,
                                      Note!At, NoteTypes, NoteJob
    <3>2. OnlyBusy(jobs, w) /\ OnlyBusy(jobs', w)
      BY <2>a, <3>1 DEF Note!Busy, OnlyBusy
    <3>3. Priors(revs') = Append(Priors(revs), jobs[w].prior) /\ jobs[w].prior \in Note!Contents
      <4> DEFINE e == [id |-> revisions', proposal |-> jobs[w].proposal, prior |-> jobs[w].prior]
      <4>1. NoteRow(revisions) \subseteq NoteRow(revisions') /\ e \in NoteRow(revisions')
        BY <2>0, <3>1 DEF NoteRow, NoteTypes, NoteJob
      <4>2. revs \in Seq(NoteRow(revisions'))
        BY <2>b, <4>1, SeqMonotonic
      <4>3. e.prior = jobs[w].prior
        OBVIOUS
      <4> HIDE DEF e
      <4>4. Priors(Append(revs, e)) = Append(Priors(revs), e.prior) /\ e.prior \in Note!Contents
        BY <4>1, <4>2, PriorsOfAppend
      <4> QED
        BY <3>1, <4>3, <4>4 DEF e
    <3>4. Front(Priors(revs')) = Priors(revs) /\ Priors(revs') # <<>>
      BY <2>b, <3>3, FrontOfAppend
    <3>5. StackOf(jobs, revs) = Priors(revs) /\ StackOf(jobs', revs') = Priors(revs)
      BY <3>1, <3>2, <3>4, StackByPlace DEF Late
    <3>6. Note!UndoStack' = Note!UndoStack /\ file' \in Note!Contents
      BY <2>0, <3>5, UndoStackIs DEF NoteTypes
    <3> QED
      BY <2>0, <3>6 DEF Note!Note!Next, Note!Note!Overwrite
  <2>28. ASSUME NEW w \in Writers, Note!WriteDraft(w) PROVE Note!Note!Next
    <3>1. /\ jobs[w].at = "write" /\ jobs'[w].at = "unindex" /\ \A v \in Writers : v # w => jobs'[v] = jobs[v]
          /\ UNCHANGED revs
      BY <2>0, <2>28 DEF Note!WriteDraft, Note!Write, Note!At, NoteTypes, NoteJob
    <3>2. OnlyBusy(jobs, w) /\ OnlyBusy(jobs', w)
      BY <2>a, <3>1 DEF Note!Busy, OnlyBusy
    <3>3. revs # <<>> /\ Last(revs).prior = file
      BY <2>0, <3>1 DEF ReadHolds
    <3>4. Priors(revs) # <<>> /\ Last(Priors(revs)) = file
      BY <2>b, <3>3, PriorsOfFront
    <3>5. StackOf(jobs, revs) = Front(Priors(revs)) /\ StackOf(jobs', revs') = Priors(revs)
      BY <3>1, <3>2, <3>4, StackByPlace DEF Late
    <3>6. Priors(revs) = Append(Front(Priors(revs)), file)
      BY <2>b, <3>4, FrontAndLast
    <3> QED
      BY <2>0, <3>5, <3>6, UndoStackIs, WriteOfTheNote
  <2>29. ASSUME NEW w \in Writers, Note!Restore(w) PROVE Note!Note!Next
    <3>1. /\ jobs[w].at = "restore" /\ jobs'[w].at \in {"consume", "reopen"} /\ file' = jobs[w].new
          /\ UNCHANGED revs /\ \A v \in Writers : v # w => jobs'[v] = jobs[v]
      BY <2>0, <2>29 DEF Note!Restore, Note!Write, Note!At, NoteTypes, NoteJob
    <3>2. OnlyBusy(jobs, w) /\ OnlyBusy(jobs', w)
      BY <2>a, <3>1 DEF Note!Busy, OnlyBusy
    <3>3. revs # <<>> /\ Last(revs).prior = file'
      BY <2>0, <3>1 DEF ReadHolds
    <3>4. Priors(revs) # <<>> /\ Last(Priors(revs)) = file'
      BY <2>b, <3>3, PriorsOfFront
    <3>5. StackOf(jobs, revs) = Priors(revs) /\ StackOf(jobs', revs') = Front(Priors(revs))
      BY <3>1, <3>2, <3>4, StackByPlace DEF Late
    <3> QED
      BY <2>0, <3>4, <3>5, UndoStackIs, UndoOfTheNote
  <2>30. ASSUME NEW w \in Writers, Note!DeleteTopicRevision(w) PROVE Note!Note!Next
    <3>1. /\ jobs[w].at = "consume" /\ jobs'[w].at = "idle" /\ revs' = Note!WithoutRow(revs, jobs[w].row)
          /\ \A v \in Writers : v # w => jobs'[v] = jobs[v]
      BY <2>0, <2>30 DEF Note!DeleteTopicRevision, Note!End, Note!Idle, Note!At, NoteTypes
    <3>2. OnlyBusy(jobs, w) /\ OnlyBusy(jobs', w)
      BY <2>a, <3>1 DEF Note!Busy, OnlyBusy
    <3>3. revs # <<>> /\ Last(revs).id = jobs[w].row
      BY <2>0, <3>1 DEF ReadHolds
    <3>4. revs' = Front(revs)
      BY <2>0, <2>b, <3>1, <3>3, LastDeletedById DEF RowsHaveIds
    <3>5. Priors(revs') = Front(Priors(revs)) /\ Priors(revs) # <<>>
      BY <2>b, <3>3, <3>4, PriorsOfFront
    <3>6. StackOf(jobs, revs) = Front(Priors(revs)) /\ StackOf(jobs', revs') = Priors(revs')
      BY <3>1, <3>2, <3>5, StackByPlace DEF Late
    <3>7. Note!UndoStack' = Note!UndoStack /\ file' \in Note!Contents
      BY <2>0, <3>5, <3>6, UndoStackIs DEF NoteTypes
    <3> QED
      BY <2>0, <3>7 DEF Note!Note!Next, Note!Note!Overwrite
  <2>31. CASE UNCHANGED Note!vars
    <3>1. UNCHANGED revs /\ Quiet
      BY <2>31 DEF Note!vars, Quiet
    <3> QED
      BY <2>0, <3>1, QuietIsOverwrite
  <2> QED
    BY <2>1, <2>2, <2>3, <2>4, <2>5, <2>6, <2>7, <2>8, <2>9, <2>10, <2>11, <2>12, <2>13, <2>14,
           <2>15, <2>16, <2>17, <2>18, <2>19, <2>20, <2>21, <2>22, <2>23, <2>24, <2>25, <2>26,
           <2>27, <2>28, <2>29, <2>30, <2>31 DEF Note!Next, Note!Service, Note!Drafting,
           Note!Approval, Note!Undoing, Note!Forgetting
<1> QED
  BY <1>1, <1>2

\* A step while no two operations overlap on the note is a write that can be
\* undone, the undoing of the latest one, a write beside the history or, when an
\* operation stops half-way, the loss of an entry (snapshot, approve, rollback);
\* and an overlap is over with its last operation.  For any writers, texts and
\* number of revisions.
THEOREM NoteIsVersioned == MCSpec => ImplementsVersionedNote
<1>1. MCInit => NoteIInv
  BY Assumptions, NoteInit DEF MCInit
<1>2. NoteIInv /\ [MCNext]_mcVars => NoteIInv'
  BY Assumptions, NoteStep, NoteNext
<1>3. MCInit => Note!Note!Init
  <2> SUFFICES ASSUME MCInit PROVE Note!Note!Init
    OBVIOUS
  <2>1. Note!Init
    BY DEF MCInit
  <2>2. Note!UndoStack = <<>>
    <3>1. Priors(revs) = <<>> /\ \A w \in Writers : jobs[w].at = "idle"
      BY <2>1 DEF Note!Init, Note!Idle, Priors
    <3>2. StackOf(jobs, revs) = <<>>
      BY <3>1 DEF StackOf
    <3> QED
      BY <3>2, UndoStackIs
  <2>3. overlap = FALSE
    BY <2>1 DEF Note!Init
  <2> QED
    BY <2>1, <2>2, <2>3 DEF Note!Init, Note!Note!Init
<1>4. NoteIInv /\ NoteIInv' /\ [MCNext]_mcVars => [Note!Note!Next]_(Note!Note!vars)
  BY Assumptions, NoteStep, NoteRefines
<1> QED
  BY <1>1, <1>2, <1>3, <1>4, PTL DEF MCSpec, ImplementsVersionedNote,
     Note!ImplementsVersionedNote, Note!Note!Spec

-----------------------------------------------------------------------------
(***************************************************************************)
(* The Codex token file.                                                   *)
(***************************************************************************)
Pairs == Token!Pair
Saving(c) == caller[c].at \in {"holds", "writes"}

\* A pair in use was issued by the server, which has not gone back.
PairsAreIssued ==
  /\ tokens \in Pairs => tokens.nth <= server[tokens.family]
  /\ \A c \in Refreshers : caller[c].at # "idle" =>
       caller[c].pair \in Pairs /\ caller[c].pair.nth <= server[caller[c].pair.family]

\* Whoever is about to save holds the pair the server takes, alone: it is not in the
\* file, and the others of its family ask with an older one.
SaverIsAlone == \A c \in Refreshers :
  Saving(c) /\ caller[c].pair.family \notin losses =>
    /\ caller[c].pair.nth = server[caller[c].pair.family]
    /\ tokens # caller[c].pair
    /\ \A d \in Refreshers \ {c} :
         caller[d].at # "idle" /\ caller[d].pair.family = caller[c].pair.family =>
           caller[d].at = "asks" /\ caller[d].pair.nth < caller[c].pair.nth

\* Who has made the pair in the file worthless is about to save the next one.
FileOrSaver == tokens \in Pairs /\ tokens.family \notin losses =>
  \/ server[tokens.family] = tokens.nth
  \/ \E c \in Refreshers : Saving(c) /\ caller[c].pair.family = tokens.family

TokenIInv == Token!TypeOK /\ PairsAreIssued /\ SaverIsAlone /\ FileOrSaver

\* One pair is in the file, fresh at its server.
LEMMA TokenInit == Token!AuthAssumption /\ Token!Init => TokenIInv
BY SMTT(30)
DEF Token!AuthAssumption, Token!Init, TokenIInv, Token!TypeOK, PairsAreIssued, SaverIsAlone,
   FileOrSaver, Saving, Pairs, Token!Pair, Token!Missing, Token!TornPair, Token!NoPair,
   Token!Families, Token!Idle

\* The pair that follows one.
LEMMA RotatedPair ==
  ASSUME Token!AuthAssumption, NEW p \in Pairs, p.nth < MaxRefresh
  PROVE  /\ Token!Rotated(p) \in Pairs
         /\ Token!Rotated(p).family = p.family /\ Token!Rotated(p).nth = p.nth + 1
  BY DEF Token!Rotated, Pairs, Token!Pair, Token!Families, Token!AuthAssumption

\* Every login, refresh and save keeps it.
LEMMA TokenNext == Token!AuthAssumption /\ TokenIInv /\ [Token!Next]_(Token!vars) => TokenIInv'
<1> SUFFICES ASSUME Token!AuthAssumption, TokenIInv, [Token!Next]_(Token!vars) PROVE TokenIInv'
  OBVIOUS
<1> USE DEF TokenIInv, Token!TypeOK, Pairs, Token!Pair, Token!Families, Token!AuthAssumption
<1>i. Token!Idle.at = "idle" /\ Token!Idle \in [at : {"idle"}, pair : {Token!NoPair}]
  BY DEF Token!Idle
<1>1. ASSUME NEW c \in Refreshers, Token!LoadRaw(c) PROVE TokenIInv'
  <2> USE <1>1 DEF Token!LoadRaw
  <2>1. Token!TypeOK'
    OBVIOUS
  <2>2. PairsAreIssued'
    BY DEF PairsAreIssued
  <2>3. SaverIsAlone'
    BY DEF SaverIsAlone, Saving, PairsAreIssued
  <2>4. FileOrSaver'
    BY DEF FileOrSaver, Saving
  <2> QED
    BY <2>1, <2>2, <2>3, <2>4
<1>2. ASSUME NEW c \in Refreshers, Token!RefreshAccepted(c) PROVE TokenIInv'
  <2> DEFINE p == caller[c].pair
  <2> USE <1>2 DEF Token!RefreshAccepted
  <2>0. p \in Pairs /\ p.nth < MaxRefresh /\ server[p.family] = p.nth
    BY DEF PairsAreIssued
  <2>r. Token!Rotated(p) \in Pairs /\ Token!Rotated(p).nth = p.nth + 1
        /\ Token!Rotated(p).family = p.family
    BY <2>0, RotatedPair
  <2> HIDE DEF p
  <2>1. Token!TypeOK'
    BY <2>0, <2>r DEF p
  <2>2. PairsAreIssued'
    BY <2>0, <2>r DEF p, PairsAreIssued
  <2>3. SaverIsAlone'
    <3>1. /\ caller' = [caller EXCEPT ![c] = [at |-> "holds", pair |-> Token!Rotated(p)]]
          /\ caller[c].at = "asks" /\ server[p.family] = p.nth
          /\ server' = [server EXCEPT ![p.family] = p.nth + 1]
      BY DEF p
    <3>2. caller'[c].pair.nth = server'[caller'[c].pair.family]
      BY <2>0, <2>r, <3>1
    <3>3. tokens' # caller'[c].pair
      BY <2>0, <2>r, <3>1 DEF PairsAreIssued
    <3>4. ASSUME NEW d \in Refreshers \ {c}, caller[d].at # "idle", caller[d].pair.family = p.family
          PROVE  \/ p.family \in losses
                 \/ caller[d].at = "asks" /\ caller[d].pair.nth < p.nth + 1
      BY <2>0, <3>1, <3>4 DEF PairsAreIssued, SaverIsAlone, Saving, p
    <3> QED
      BY <2>0, <2>r, <3>1, <3>2, <3>3, <3>4 DEF SaverIsAlone, Saving, PairsAreIssued
  <2>4. FileOrSaver'
    BY <2>0, <2>r DEF p, FileOrSaver, Saving, SaverIsAlone, PairsAreIssued
  <2> QED
    BY <2>1, <2>2, <2>3, <2>4
<1>3. ASSUME NEW c \in Refreshers, Token!RefreshRefused(c) PROVE TokenIInv'
  <2> USE <1>3, <1>i DEF Token!RefreshRefused
  <2>1. Token!TypeOK'
    OBVIOUS
  <2>2. PairsAreIssued'
    BY DEF PairsAreIssued
  <2>3. SaverIsAlone'
    BY DEF SaverIsAlone, Saving, PairsAreIssued
  <2>4. FileOrSaver'
    BY DEF FileOrSaver, Saving
  <2> QED
    BY <2>1, <2>2, <2>3, <2>4
<1>4. ASSUME NEW c \in Refreshers, Token!Unanswered(c) PROVE TokenIInv'
  <2> DEFINE p == caller[c].pair
  <2> USE <1>i
  <2>0. p \in Pairs /\ p.family \in Token!Families /\ caller[c].at = "asks" /\ p.nth \in 0..MaxRefresh
    BY <1>4 DEF PairsAreIssued, Token!Unanswered
  <2>s. UNCHANGED <<server, losses>>
        \/ /\ server[p.family] = p.nth /\ p.nth < MaxRefresh
           /\ server' = [server EXCEPT ![p.family] = p.nth + 1]
           /\ losses' = losses \union {p.family}
    BY <1>4 DEF Token!Unanswered
  <2>c. caller' = [caller EXCEPT ![c] = Token!Idle] /\ UNCHANGED <<tokens, aged>>
    BY <1>4 DEF Token!Unanswered
  <2> HIDE DEF p
  <2>1. Token!TypeOK'
    <3>1. p.nth + 1 \in -1 .. MaxRefresh \/ UNCHANGED <<server, losses>>
      BY <2>0, <2>s
    <3> QED
      BY <2>0, <2>s, <2>c, <3>1, ZenonT(30)
  <2>2. PairsAreIssued'
    <3>1. \A f \in Token!Families : server[f] \in Int /\ server'[f] \in Int /\ server[f] <= server'[f]
      <4>1. CASE UNCHANGED server
        BY <4>1
      <4>2. CASE server[p.family] = p.nth /\ server' = [server EXCEPT ![p.family] = p.nth + 1]
        <5>1. p.nth \in Int /\ \A f \in Token!Families : server[f] \in Int
          BY <2>0
        <5>2. p.nth + 1 \in Int /\ p.nth <= p.nth + 1
          BY <5>1
        <5> QED
          BY <4>2, <5>1, <5>2
      <4> QED
        BY <2>s, <4>1, <4>2
    <3> QED
      BY <2>c, <3>1 DEF PairsAreIssued
  <2>3. SaverIsAlone'
    BY <2>0, <2>s, <2>c DEF p, SaverIsAlone, Saving, PairsAreIssued
  <2>4. FileOrSaver'
    BY <2>0, <2>s, <2>c DEF p, FileOrSaver, Saving
  <2> QED
    BY <2>1, <2>2, <2>3, <2>4
<1>5. ASSUME NEW c \in Refreshers, Token!SaveBegins(c) PROVE TokenIInv'
  <2> USE <1>5 DEF Token!SaveBegins, Token!TornPair
  <2>1. Token!TypeOK'
    OBVIOUS
  <2>2. PairsAreIssued'
    BY DEF PairsAreIssued
  <2>3. SaverIsAlone'
    BY DEF SaverIsAlone, Saving, PairsAreIssued
  <2>4. FileOrSaver'
    BY DEF FileOrSaver, Saving
  <2> QED
    BY <2>1, <2>2, <2>3, <2>4
<1>6. ASSUME NEW c \in Refreshers, Token!SaveEnds(c) PROVE TokenIInv'
  <2> USE <1>6, <1>i DEF Token!SaveEnds, Token!Saved
  <2>0. caller[c].pair \in Pairs
    BY DEF PairsAreIssued
  <2>1. Token!TypeOK'
    BY <2>0
  <2>2. PairsAreIssued'
    BY DEF PairsAreIssued
  <2>3. SaverIsAlone'
    BY DEF SaverIsAlone, Saving, PairsAreIssued
  <2>4. FileOrSaver'
    BY DEF FileOrSaver, Saving, SaverIsAlone
  <2> QED
    BY <2>1, <2>2, <2>3, <2>4
<1>7. ASSUME NEW c \in Refreshers, Token!Stopped(c) PROVE TokenIInv'
  <2> USE <1>7, <1>i DEF Token!Stopped
  <2>0. caller[c].pair \in Pairs
    BY DEF PairsAreIssued
  <2>1. Token!TypeOK'
    BY <2>0
  <2>2. PairsAreIssued'
    BY DEF PairsAreIssued
  <2>3. SaverIsAlone'
    BY DEF SaverIsAlone, Saving, PairsAreIssued
  <2>4. FileOrSaver'
    BY <2>0 DEF FileOrSaver, Saving
  <2> QED
    BY <2>1, <2>2, <2>3, <2>4
<1>8. ASSUME NEW c \in Refreshers, Token!Login(c) PROVE TokenIInv'
  <2>0. PICK f \in Token!Families : 
        /\ server[f] = -1
        /\ server' = [server EXCEPT ![f] = 0]
        /\ caller' = [caller EXCEPT ![c] = [at |-> "holds", pair |-> [family |-> f, nth |-> 0]]]
    BY <1>8 DEF Token!Login
  <2> USE <1>8 DEF Token!Login
  <2>1. Token!TypeOK'
    BY <2>0
  <2>2. PairsAreIssued'
    BY <2>0 DEF PairsAreIssued
  <2>3. SaverIsAlone'
    BY <2>0 DEF SaverIsAlone, Saving, PairsAreIssued
  <2>4. FileOrSaver'
    BY <2>0 DEF FileOrSaver, Saving, PairsAreIssued
  <2> QED
    BY <2>1, <2>2, <2>3, <2>4
<1>9. ASSUME Token!Ages PROVE TokenIInv'
  BY <1>9 DEF Token!Ages, PairsAreIssued, SaverIsAlone, Saving, FileOrSaver
<1>10. ASSUME UNCHANGED Token!vars PROVE TokenIInv'
  BY <1>10 DEF Token!vars, PairsAreIssued, SaverIsAlone, Saving, FileOrSaver
<1> QED
  BY <1>1, <1>2, <1>3, <1>4, <1>5, <1>6, <1>7, <1>8, <1>9, <1>10 DEF Token!Next

\* Whatever the run does, the token file only moves as its module says.
LEMMA TokenStep == [MCNext]_mcVars => [Token!Next]_(Token!vars)
BY DEF MCNext, mcVars, Token!vars, tokenVars

\* Nobody has to log in again because two callers refreshed at once (load_token,
\* save_token), for any number of callers, logins and refreshes.
THEOREM RefreshesDoNotCollide == MCSpec => []FileCanBeRefreshed
<1>1. MCInit => TokenIInv
  BY TokenInit, Assumptions DEF MCInit
<1>2. TokenIInv /\ [MCNext]_mcVars => TokenIInv'
  BY TokenNext, TokenStep, Assumptions
<1>3. TokenIInv => FileCanBeRefreshed
  <2> SUFFICES ASSUME TokenIInv, tokens \in Pairs, tokens.family \notin losses, server[tokens.family] # tokens.nth
               PROVE  \E c \in Refreshers : caller[c].at \in {"holds", "writes"}
                                         /\ caller[c].pair = [tokens EXCEPT !.nth = server[tokens.family]]
    BY DEF FileCanBeRefreshed, Token!FileCanBeRefreshed, Pairs
  <2>1. PICK c \in Refreshers : Saving(c) /\ caller[c].pair.family = tokens.family
    BY DEF TokenIInv, FileOrSaver
  <2>2. caller[c].pair \in Pairs /\ caller[c].pair.nth = server[tokens.family]
    BY <2>1 DEF TokenIInv, SaverIsAlone, PairsAreIssued, Saving
  <2>3. caller[c].pair = [tokens EXCEPT !.nth = server[tokens.family]]
    BY <2>1, <2>2 DEF Pairs, Token!Pair
  <2> QED
    BY <2>1, <2>3 DEF Saving
<1> QED
  BY <1>1, <1>2, <1>3, PTL DEF MCSpec

-----------------------------------------------------------------------------
(***************************************************************************)
(* The voice session.                                                      *)
(***************************************************************************)
Utterances == [during : BOOLEAN, spoken : BOOLEAN]

\* The flag is up while an answer is spoken and not longer, so that an utterance
\* that is tagged with it began in one.
TagsAreTrue ==
  /\ playing \in BOOLEAN /\ tagged \in BOOLEAN /\ spoken \in BOOLEAN
  /\ playing => Voice!Speaking
  /\ tagged => spoken
  /\ utterances \in Seq(Utterances)
  /\ Voice!OnlyOverlapsAreDropped

\* Once a block was played into the speech, the main thread sees the signal before
\* the next one.
BlockIsSeen ==
  /\ started \in BOOLEAN /\ since \in {0, 1}
  /\ started /\ since = 1 => main # "write"

VoiceIInv == TagsAreTrue /\ BlockIsSeen

\* The session begins silent.
LEMMA VoiceInit == Voice!Init => VoiceIInv
<1> SUFFICES ASSUME Voice!Init PROVE VoiceIInv
  OBVIOUS
<1>1. utterances = <<>> /\ utterances \in Seq(Utterances) /\ Len(utterances) = 0
  BY EmptySeq DEF Voice!Init
<1>2. TagsAreTrue
  <2>1. Voice!OnlyOverlapsAreDropped
    BY <1>1 DEF Voice!OnlyOverlapsAreDropped
  <2>2. playing = FALSE /\ tagged = FALSE /\ spoken = FALSE
    BY DEF Voice!Init
  <2> QED
    BY <1>1, <2>1, <2>2 DEF TagsAreTrue
<1>3. BlockIsSeen
  BY DEF Voice!Init, BlockIsSeen
<1> QED
  BY <1>2, <1>3 DEF VoiceIInv

\* One lemma per way to leave an answer: the flag goes down with it.
LEMMA AnswerEnds ==
  ASSUME VoiceIInv, NEW told, Voice!Leave(told)
  PROVE  VoiceIInv'
  BY DEF VoiceIInv, TagsAreTrue, BlockIsSeen, Voice!OnlyOverlapsAreDropped, Voice!Leave,
     Voice!Silence, Voice!capture

\* Every step of the two threads keeps it.
LEMMA VoiceNext == VoiceIInv /\ [Voice!Next]_(Voice!vars) => VoiceIInv'
<1> SUFFICES ASSUME VoiceIInv, [Voice!Next]_(Voice!vars) PROVE VoiceIInv'
  OBVIOUS
<1> USE DEF VoiceIInv, TagsAreTrue, BlockIsSeen, Voice!OnlyOverlapsAreDropped
<1>1. CASE Voice!Onset
  <2>1. UNCHANGED <<main, started, playing, utterances, since>> /\ tagged' = playing
    BY <1>1 DEF Voice!Onset
  <2>2. spoken' = Voice!Speaking /\ Voice!Speaking \in BOOLEAN
    BY <1>1 DEF Voice!Onset, Voice!Speaking
  <2>3. tagged' => spoken'
    BY <2>1, <2>2
  <2>4. tagged' \in BOOLEAN /\ spoken' \in BOOLEAN
    BY <2>1, <2>2
  <2>5. Voice!Speaking' <=> Voice!Speaking
    BY <2>1 DEF Voice!Speaking
  <2> QED
    BY <2>1, <2>3, <2>4, <2>5
<1>2. CASE Voice!SignalSpeech
  BY <1>2 DEF Voice!SignalSpeech, Voice!Speaking
<1>3. CASE Voice!EndOfSpeech
  <2> DEFINE u == [during |-> tagged, spoken |-> spoken]
  <2>1. /\ UNCHANGED <<main, started, playing, since>> /\ tagged' = FALSE /\ spoken' = FALSE
        /\ utterances' = Append(utterances, u)
    BY <1>3 DEF Voice!EndOfSpeech
  <2>2. u \in Utterances /\ (u.during => u.spoken)
    BY DEF Utterances
  <2> HIDE DEF u
  <2>3. /\ utterances' \in Seq(Utterances) /\ Len(utterances') = Len(utterances) + 1
        /\ \A i \in 1 .. Len(utterances) : utterances'[i] = utterances[i]
        /\ utterances'[Len(utterances) + 1] = u
    BY <2>1, <2>2, AppendProperties
  <2>4. Len(utterances) \in Nat
    BY LenProperties
  <2>5. \A i \in 1 .. Len(utterances') : utterances'[i].during => utterances'[i].spoken
    BY <2>2, <2>3, <2>4
  <2> QED
    BY <2>1, <2>3, <2>5 DEF Voice!Speaking
<1>4. CASE Voice!ClearSignal
  BY <1>4 DEF Voice!ClearSignal, Voice!Speaking
<1>5. CASE Voice!CaptureEnds
  BY <1>5 DEF Voice!CaptureEnds, Voice!Speaking
<1>6. CASE Voice!Take
  <2>1. /\ UNCHANGED <<tagged, spoken, started, playing, since>> /\ main = "poll"
        /\ main' \in {"poll", "transcribe"} /\ utterances # <<>> /\ utterances' = Tail(utterances)
    BY <1>6 DEF Voice!Take
  <2>2. /\ utterances' \in Seq(Utterances) /\ Len(utterances') = Len(utterances) - 1
        /\ \A i \in 1 .. Len(utterances') : utterances'[i] = utterances[i + 1]
    BY <2>1, HeadTailProperties
  <2>3. Len(utterances) \in Nat
    BY LenProperties
  <2>4. \A i \in 1 .. Len(utterances') : utterances'[i].during => utterances'[i].spoken
    BY <2>2, <2>3
  <2> QED
    BY <2>1, <2>2, <2>4 DEF Voice!Speaking
<1>7. CASE Voice!Transcribe
  BY <1>7 DEF Voice!Transcribe, Voice!capture, Voice!Speaking
<1>8. CASE Voice!Answer
  BY <1>8 DEF Voice!Answer, Voice!capture, Voice!Speaking
<1>9. CASE Voice!SpeakStep
  <2>1. CASE Voice!Speak
    BY <2>1 DEF Voice!Speak, Voice!capture, Voice!Speaking
  <2>2. CASE Voice!FirstChunk \/ Voice!Continue
    BY <2>2 DEF Voice!FirstChunk, Voice!Continue, Voice!Fetch, Voice!capture, Voice!Speaking
  <2>3. CASE Voice!NothingToSay \/ Voice!FirstTimesOut \/ Voice!OpenFails \/ Voice!BargeIn
             \/ Voice!Drain
    BY <2>3, AnswerEnds DEF Voice!NothingToSay, Voice!FirstTimesOut, Voice!OpenFails,
                            Voice!BargeIn, Voice!Drain
  <2>4. CASE Voice!OpenStream \/ Voice!LastChunk
    BY <2>4 DEF Voice!OpenStream, Voice!LastChunk, Voice!capture, Voice!Speaking
  <2>5. CASE Voice!Check \/ Voice!NextChunk
    BY <2>5 DEF Voice!Check, Voice!NextChunk, Voice!capture, Voice!Speaking
  <2>6. CASE Voice!Write
    BY <2>6 DEF Voice!Write, Voice!AfterBlock, Voice!capture, Voice!Speaking
  <2> QED
    BY <1>9, <2>1, <2>2, <2>3, <2>4, <2>5, <2>6 DEF Voice!SpeakStep
<1>10. CASE Voice!Interrupt
  BY <1>10 DEF Voice!Interrupt, Voice!Silence
<1>11. CASE Voice!SynthStep \/ Voice!StrayStep
  BY <1>11 DEF Voice!SynthStep, Voice!StrayStep, Voice!capture, Voice!Speaking
<1>12. CASE UNCHANGED Voice!vars
  BY <1>12 DEF Voice!vars, Voice!Speaking
<1> QED
  BY <1>1, <1>2, <1>3, <1>4, <1>5, <1>6, <1>7, <1>8, <1>9, <1>10, <1>11, <1>12 DEF Voice!Next

\* A step of the run is one of the session, or leaves it alone.
LEMMA VoiceStep == [MCNext]_mcVars => [Voice!Next]_(Voice!vars)
  BY DEF MCNext, mcVars, voiceVars, Voice!vars

(* Only what began while an answer was spoken is thrown away, and at most   *)
(* one more block of the answer is played after speech is signalled, for    *)
(* any length of answers and number of utterances.                          *)
THEOREM SpeechIsHeard == MCSpec => []VoiceIsHeard
<1>1. MCInit => VoiceIInv
  BY VoiceInit DEF MCInit
<1>2. VoiceIInv /\ [MCNext]_mcVars => VoiceIInv'
  BY VoiceStep, VoiceNext
<1>3. VoiceIInv => VoiceIsHeard
  BY DEF VoiceIInv, TagsAreTrue, BlockIsSeen, VoiceIsHeard, Voice!BargeInIsPrompt
<1> QED
  BY <1>1, <1>2, <1>3, PTL DEF MCSpec
=============================================================================
