-------------------------- MODULE TcpServerProofs --------------------------
(***************************************************************************)
(* One connection of radish-server: its replies answer its requests one by *)
(* one and in order, say what was committed, in the protocol version that  *)
(* was negotiated, and end where the connection does; for any number of    *)
(* connections, requests, fragments, crashes and restarts.                 *)
(*                                                                         *)
(* The invariant is about one session at a time, given by its parts: the   *)
(* Session object c, the cells w not read yet, the requests q sent, the    *)
(* replies rep written or queued, the counts com of committed events, gone *)
(* (the client hung up) and busy (where its handler stands).               *)
(***************************************************************************)
EXTENDS TcpServer, RadishLogProofs, FiniteSetTheorems

-----------------------------------------------------------------------------
(* The invariant. *)

\* A sequence, of whatever.
AnySeq(x) == \E A : x \in Seq(A)

SessionType(c) ==
    c \in [status : {"new", "open", "closed"}, reading : BOOLEAN, writing : BOOLEAN,
           m_input : Seq(Requests), m_output : {c.m_output}, m_version : {"2", "3"},
           m_closeAfterWrite : BOOLEAN]

\* The Session object and its pending operations.
LifeInv(c, q, com, rep, gone, busy) ==
    /\ c.status # "open" => /\ ~c.reading /\ ~c.writing /\ busy = "none"
                            /\ c.m_input = <<>> /\ c.m_output = <<>>
    /\ c.status = "new" => /\ ~c.m_closeAfterWrite /\ c.m_version = "2"
                           /\ q = <<>> /\ com = <<>> /\ rep = <<>>
    /\ c.reading => /\ busy = "none" /\ ~c.m_closeAfterWrite
                    /\ ParseCommand(c.m_input) = "Incomplete"
    /\ c.writing => c.m_output # <<>>
    /\ c.m_output # <<>> /\ ~gone => c.writing

\* The cells of the stream that are not consumed yet, from 1.
Cell(input, w, i) == IF i <= Len(input) THEN input[i] ELSE w[i - Len(input)]

\* They are the requests after the n-th, each in one piece: the j-th ends at
\* ends[j].
Framed(input, w, q, n) ==
    \E ends \in [n..Len(q) -> Nat] :
        /\ ends[n] = 0
        /\ ends[Len(q)] = Len(input) + Len(w)
        /\ \A j \in (n + 1)..Len(q) : ends[j] = ends[j - 1] + q[j].size
        /\ \A j, k \in n..Len(q) : j <= k => ends[j] <= ends[k]
        /\ \A j \in (n + 1)..Len(q) :
               \A i \in (ends[j - 1] + 1)..ends[j] : Cell(input, w, i) = q[j]

\* How many commands were started and how many answered.
CountInv(c, q, com, rep, busy) ==
    /\ Len(com) <= Len(q) /\ Len(rep) <= Len(q)
    /\ Len(rep) <= Len(com) + 1
    /\ busy = "execute" => Len(com) = Len(rep) + 1 /\ ~c.m_closeAfterWrite
    /\ c.status = "open" /\ busy # "execute" /\ ~c.m_closeAfterWrite => Len(rep) = Len(com)

\* Nothing comes behind the request that ends the connection.
EndInv(c, q, com, rep, busy) ==
    \A i \in 1..Len(com) :
        /\ q[i].name # "malformed"
        /\ Closes(q[i]) => /\ i = Len(com) /\ Len(rep) <= Len(com)
                           /\ c.m_closeAfterWrite \/ busy = "execute" \/ c.status = "closed"

VersionOf(q, i) ==
    LET hellos == {j \in 1..i : ValidHello(q[j])}
    IN  IF hellos = {} THEN "2"
        ELSE q[CHOOSE j \in hellos : \A m \in hellos : m <= j].args[1]

\* What a reply says about its request, of which done events were committed.
Matches(r, answer, done) ==
    /\ answer.kind = "error" => done = 0
    /\ r.name \in {"SET", "RENAME"} /\ answer.kind = "simple" => done = 1
    /\ r.name = "DEL" /\ answer.kind = "integer" => done = answer.value

RepliesInv(q, com, rep) ==
    \A i \in 1..Len(rep) :
        /\ rep[i].id = i
        /\ rep[i].kind = "limit" => q[i].size > MaxInput - ReadSize + 1
        /\ rep[i].kind \in {"null", "hello"} => rep[i].value = VersionOf(q, i)
        /\ i <= Len(com) => Matches(q[i], rep[i], com[i])

\* The command in execution: what it has still to commit, and has committed.
CurrentOK(cur, r, done) ==
    /\ cur \in [command : Requests, pending : Seq(Event), applied : Nat]
    /\ \A i \in 1..Len(cur.pending) : WellFormed(cur.pending[i])
    /\ cur.command = r
    /\ cur.applied = done
    /\ \/ Accepted(r) /\ r.name \in {"SET", "RENAME", "DEL", "FLUSHDB"}
       \/ cur.pending = <<>> /\ done = 0
    /\ r.name \in {"SET", "RENAME"} /\ Accepted(r) =>
           \/ cur.pending = <<>> /\ done \in {0, 1}
           \/ Len(cur.pending) = 1 /\ done = 0
    /\ r.name = "SET" /\ Accepted(r) =>
           IF cur.pending = <<>> THEN done = 1 ELSE cur.pending[1].type = CREATE

SessionInv(c, w, q, com, rep, gone, busy, cur) ==
    /\ SessionType(c)
    /\ w \in Seq(Requests) /\ q \in Seq(Requests) /\ com \in Seq(Nat)
    /\ LifeInv(c, q, com, rep, gone, busy)
    /\ c.status = "new" => w = <<>>
    /\ c.status = "open" => Framed(c.m_input, w, q, Len(com))
    /\ CountInv(c, q, com, rep, busy)
    /\ EndInv(c, q, com, rep, busy)
    /\ RepliesInv(q, com, rep)
    /\ c.m_version = VersionOf(q, Len(com))
    /\ busy = "execute" => CurrentOK(cur, q[Len(com)], com[Len(com)])

\* Where the handler of s stands.
Busy(s) == IF handler # s THEN "none" ELSE IF current = Absent THEN "process" ELSE "execute"

\* The replies are those written, got, and those queued.
PartsOK(c, w, q, com, got, gone, busy, cur) ==
    /\ AnySeq(got) /\ AnySeq(c.m_output)
    /\ SessionInv(c, w, q, com, got \o c.m_output, gone, busy, cur)

SessionOK(s) ==
    PartsOK(session[s], net[s], sent[s], commits[s], received[s], hungup[s], Busy(s), current)

LoopInv ==
    /\ up \in {"down", "running", "stopping"}
    /\ flushing \in BOOLEAN
    /\ m_store \in Store /\ logged \in Store
    /\ survivors \in EventsMap /\ SurvivorsOK(survivors)
    /\ handler \in Sessions \cup {NoSession}
    /\ durable \subseteq Sessions
    /\ current # Absent => handler # NoSession
    /\ up # "running" => handler = NoSession
    /\ DOMAIN session = Sessions /\ DOMAIN net = Sessions /\ DOMAIN hungup = Sessions
    /\ DOMAIN sent = Sessions /\ DOMAIN received = Sessions /\ DOMAIN commits = Sessions

ServerInv == LoopInv /\ \A s \in Sessions : SessionOK(s)
-----------------------------------------------------------------------------
(* Sequences: what happens to got \o out, the replies of a connection. *)

LEMMA AnySeqPair ==
    ASSUME NEW x, NEW y, AnySeq(x), AnySeq(y)
    PROVE  \E A : x \in Seq(A) /\ y \in Seq(A)
<1>1. PICK A, B : x \in Seq(A) /\ y \in Seq(B)
  BY DEF AnySeq
<1>2. x \in Seq(A \cup B) /\ y \in Seq(A \cup B)
  BY <1>1, SeqMonotonic
<1> QED
  BY <1>2

LEMMA AnySeqFacts ==
    ASSUME NEW x, AnySeq(x)
    PROVE  /\ Len(x) \in Nat /\ (x = <<>> <=> Len(x) = 0)
           /\ x \o <<>> = x
<1>1. PICK A : x \in Seq(A)
  BY DEF AnySeq
<1> QED
  BY <1>1, LenProperties, EmptySeq, ConcatEmptySeq

LEMMA AnySeqAppend ==
    ASSUME NEW x, AnySeq(x), NEW e
    PROVE  /\ AnySeq(Append(x, e)) /\ Append(x, e) # <<>>
           /\ Len(Append(x, e)) = Len(x) + 1
           /\ \A i \in 1..Len(x) : Append(x, e)[i] = x[i]
           /\ Append(x, e)[Len(x) + 1] = e
<1>1. PICK A : x \in Seq(A)
  BY DEF AnySeq
<1>2. x \in Seq(A \cup {e}) /\ e \in A \cup {e}
  BY <1>1, SeqMonotonic
<1> QED
  BY <1>2, AppendProperties DEF AnySeq

LEMMA RepliesFacts ==
    ASSUME NEW got, NEW out, AnySeq(got), AnySeq(out)
    PROVE  /\ AnySeq(got \o out)
           /\ Len(got) <= Len(got \o out)
           /\ \A i \in 1..Len(got) : (got \o out)[i] = got[i]
<1>1. PICK A : got \in Seq(A) /\ out \in Seq(A)
  BY AnySeqPair
<1>2. /\ got \o out \in Seq(A) /\ Len(got \o out) = Len(got) + Len(out)
      /\ \A i \in 1..(Len(got) + Len(out)) :
            (got \o out)[i] = IF i <= Len(got) THEN got[i] ELSE out[i - Len(got)]
      /\ Len(got) \in Nat /\ Len(out) \in Nat
  BY <1>1, ConcatProperties, LenProperties
<1> QED
  BY <1>2 DEF AnySeq

\* A response is queued.
LEMMA RepliesQueued ==
    ASSUME NEW got, NEW out, AnySeq(got), AnySeq(out), NEW x
    PROVE  got \o Append(out, x) = Append(got \o out, x)
<1>1. PICK A : got \in Seq(A) /\ out \in Seq(A)
  BY AnySeqPair
<1> DEFINE B == A \cup {x}
<1>2. got \in Seq(B) /\ out \in Seq(B) /\ x \in B /\ <<x>> \in Seq(B)
  BY <1>1, SeqMonotonic
<1> HIDE DEF B
<1>3. Append(out, x) = out \o <<x>> /\ got \o out \in Seq(B)
  BY <1>2, AppendIsConcat, ConcatProperties
<1>4. Append(got \o out, x) = (got \o out) \o <<x>>
  BY <1>2, <1>3, AppendIsConcat
<1> QED
  BY <1>2, <1>3, <1>4, ConcatAssociative

\* The response in front of the queue has been written.
LEMMA RepliesWritten ==
    ASSUME NEW got, NEW out, AnySeq(got), AnySeq(out), out # <<>>
    PROVE  /\ AnySeq(Append(got, Head(out))) /\ AnySeq(Tail(out))
           /\ Append(got, Head(out)) \o Tail(out) = got \o out
           /\ Len(out) > 1 <=> Tail(out) # <<>>
<1>1. PICK A : got \in Seq(A) /\ out \in Seq(A)
  BY AnySeqPair
<1>2. /\ Head(out) \in A /\ Tail(out) \in Seq(A) /\ <<Head(out)>> \in Seq(A)
      /\ Len(Tail(out)) = Len(out) - 1
      /\ Len(out) \in Nat \ {0}
  BY <1>1, HeadTailProperties, EmptySeq
<1>3. Append(got, Head(out)) = got \o <<Head(out)>> /\ Append(got, Head(out)) \in Seq(A)
  BY <1>1, <1>2, AppendIsConcat, AppendProperties
<1>4. out = <<Head(out)>> \o Tail(out)
  <2> DEFINE x == <<Head(out)>>
             y == x \o Tail(out)
  <2>1. /\ x \in Seq(A) /\ Len(x) = 1 /\ x[1] = Head(out)
    BY <1>2
  <2> HIDE DEF x
  <2>2. /\ y \in Seq(A) /\ Len(y) = Len(out)
        /\ \A i \in 1..Len(out) : y[i] = IF i <= 1 THEN x[i] ELSE Tail(out)[i - 1]
    <3>1. /\ y \in Seq(A) /\ Len(y) = Len(x) + Len(Tail(out))
          /\ \A i \in 1..(Len(x) + Len(Tail(out))) :
                y[i] = IF i <= Len(x) THEN x[i] ELSE Tail(out)[i - Len(x)]
      BY <1>2, <2>1, ConcatProperties
    <3>2. Len(x) + Len(Tail(out)) = Len(out)
      BY <1>2, <2>1
    <3> HIDE DEF y
    <3> QED
      BY <2>1, <3>1, <3>2
  <2>3. \A i \in 1..Len(out) : y[i] = out[i]
    <3> SUFFICES ASSUME NEW i \in 1..Len(out) PROVE y[i] = out[i]
      OBVIOUS
    <3>1. CASE i = 1
      BY <1>1, <2>1, <2>2, <3>1
    <3>2. CASE i # 1
      <4>1. i - 1 \in 1..Len(Tail(out))
        BY <1>2, <3>2
      <4>2. Tail(out)[i - 1] = out[i - 1 + 1]
        BY <1>1, <4>1, HeadTailProperties
      <4> QED
        BY <1>2, <2>2, <3>2, <4>2
    <3> QED
      BY <3>1, <3>2
  <2> HIDE DEF y
  <2>4. y = out
    BY <1>1, <2>2, <2>3, SeqEqual
  <2> QED
    BY <2>4 DEF x, y
<1>5. Append(got, Head(out)) \o Tail(out) = got \o out
  BY <1>1, <1>2, <1>3, <1>4, ConcatAssociative
<1>6. Len(out) > 1 <=> Tail(out) # <<>>
  <2> DEFINE t == Tail(out)
  <2>1. t = <<>> <=> Len(t) = 0
    <3>1. t \in Seq(A)
      BY <1>2
    <3> HIDE DEF t
    <3> QED
      BY <3>1, EmptySeq
  <2> QED
    BY <1>2, <2>1
<1> QED
  BY <1>2, <1>3, <1>5, <1>6 DEF AnySeq
-----------------------------------------------------------------------------
(* The stream of requests. *)

LEMMA RequestFacts ==
    ASSUME NEW r \in Requests
    PROVE  /\ r.size \in Nat \ {0}
           /\ EncodeCommand(r) \in Seq(Requests) /\ Len(EncodeCommand(r)) = r.size
           /\ \A i \in 1..r.size : EncodeCommand(r)[i] = r
<1>1. r.size \in Nat \ {0}
  BY ServerAssumption DEF Request
<1> QED
  BY <1>1 DEF EncodeCommand

\* Ends is a witness that the cells hold the requests after the n-th.
FramedBy(ends, input, w, q, n) ==
    /\ ends \in [n..Len(q) -> Nat]
    /\ ends[n] = 0
    /\ ends[Len(q)] = Len(input) + Len(w)
    /\ \A j \in (n + 1)..Len(q) : ends[j] = ends[j - 1] + q[j].size
    /\ \A j, k \in n..Len(q) : j <= k => ends[j] <= ends[k]
    /\ \A j \in (n + 1)..Len(q) :
           \A i \in (ends[j - 1] + 1)..ends[j] : Cell(input, w, i) = q[j]

LEMMA FramedWitness ==
    ASSUME NEW input, NEW w, NEW q, NEW n
    PROVE  Framed(input, w, q, n) <=> \E ends : FramedBy(ends, input, w, q, n)
BY DEF Framed, FramedBy

\* The same cells, however they are divided between input and network.
LEMMA FramedSame ==
    ASSUME NEW input, NEW w, NEW q, NEW n \in Nat, Framed(input, w, q, n), Len(q) \in Nat,
           NEW input2, NEW w2, Len(input2) + Len(w2) = Len(input) + Len(w),
           \A i \in 1..(Len(input) + Len(w)) : Cell(input2, w2, i) = Cell(input, w, i)
    PROVE  Framed(input2, w2, q, n)
<1>1. PICK ends : FramedBy(ends, input, w, q, n)
  BY FramedWitness
<1>2. ASSUME NEW j \in (n + 1)..Len(q), NEW i \in (ends[j - 1] + 1)..ends[j]
      PROVE  Cell(input2, w2, i) = q[j]
  <2>1. j \in n..Len(q) /\ j - 1 \in n..Len(q) /\ Len(q) \in n..Len(q) /\ j <= Len(q)
    OBVIOUS
  <2>2. ends[j] \in Nat /\ ends[j - 1] \in Nat /\ ends[j] <= ends[Len(q)]
    BY <1>1, <2>1 DEF FramedBy
  <2>3. i \in 1..ends[Len(q)]
    BY <2>2, <1>1, <2>1 DEF FramedBy
  <2> QED
    BY <1>1, <2>3 DEF FramedBy
<1>3. FramedBy(ends, input2, w2, q, n)
  BY <1>1, <1>2 DEF FramedBy
<1> QED
  BY <1>3, FramedWitness

LEMMA FramedRead ==
    ASSUME NEW input \in Seq(Requests), NEW w \in Seq(Requests), NEW q, NEW n \in Nat,
           Len(q) \in Nat, Framed(input, w, q, n), NEW k \in 1..Len(w)
    PROVE  /\ Framed(input \o SubSeq(w, 1, k), SubSeq(w, k + 1, Len(w)), q, n)
           /\ input \o SubSeq(w, 1, k) \in Seq(Requests)
           /\ Len(input \o SubSeq(w, 1, k)) = Len(input) + k
           /\ SubSeq(w, k + 1, Len(w)) \in Seq(Requests)
           /\ input # <<>> => Head(input \o SubSeq(w, 1, k)) = Head(input)
<1> DEFINE a == SubSeq(w, 1, k)
           b == SubSeq(w, k + 1, Len(w))
           input2 == input \o a
<1>0. Len(w) \in Nat /\ Len(input) \in Nat /\ k \in Nat /\ k >= 1 /\ k <= Len(w)
  BY LenProperties
<1>1. \A i \in 1..Len(w) : w[i] \in Requests
  BY ElementOfSeq
<1>2. /\ a \in Seq(Requests) /\ Len(a) = k
      /\ \A i \in 1..k : a[i] = w[i]
  <2>1. \A i \in 1..k : w[i] \in Requests
    BY <1>0, <1>1
  <2>2. /\ a \in Seq(Requests) /\ Len(a) = IF 1 <= k THEN k - 1 + 1 ELSE 0
        /\ \A i \in 1..(k - 1 + 1) : a[i] = w[1 + i - 1]
    <3>1. 1 \in Int /\ k \in Int
      BY <1>0
    <3> QED
      BY <2>1, <3>1, SubSeqProperties
  <2> HIDE DEF a
  <2> QED
    BY <1>0, <2>2
<1>3. /\ b \in Seq(Requests) /\ Len(b) = Len(w) - k
      /\ \A i \in 1..(Len(w) - k) : b[i] = w[k + i]
  <2>1. \A i \in (k + 1)..Len(w) : w[i] \in Requests
    BY <1>0, <1>1
  <2>2. /\ b \in Seq(Requests) /\ Len(b) = IF k + 1 <= Len(w) THEN Len(w) - (k + 1) + 1 ELSE 0
        /\ \A i \in 1..(Len(w) - (k + 1) + 1) : b[i] = w[k + 1 + i - 1]
    <3>1. k + 1 \in Int /\ Len(w) \in Int
      BY <1>0
    <3> QED
      BY <2>1, <3>1, SubSeqProperties
  <2> HIDE DEF b
  <2>3. Len(b) = Len(w) - k
    BY <1>0, <2>2
  <2>4. \A i \in 1..(Len(w) - k) : k + 1 + i - 1 = k + i /\ i \in 1..(Len(w) - (k + 1) + 1)
    BY <1>0
  <2> QED
    BY <2>2, <2>3, <2>4
<1> HIDE DEF a, b
<1>4. /\ input2 \in Seq(Requests) /\ Len(input2) = Len(input) + k
      /\ \A i \in 1..(Len(input) + k) :
            input2[i] = IF i <= Len(input) THEN input[i] ELSE a[i - Len(input)]
  BY <1>2, ConcatProperties
<1> HIDE DEF input2
<1>5. \A i \in 1..(Len(input) + Len(w)) : Cell(input2, b, i) = Cell(input, w, i)
  <2> SUFFICES ASSUME NEW i \in 1..(Len(input) + Len(w))
               PROVE  Cell(input2, b, i) = Cell(input, w, i)
    OBVIOUS
  <2>1. CASE i <= Len(input)
    BY <1>0, <1>4, <2>1 DEF Cell
  <2>2. CASE Len(input) < i /\ i <= Len(input) + k
    <3>1. i - Len(input) \in 1..k /\ i \in 1..(Len(input) + k)
      BY <1>0, <2>2
    <3> QED
      BY <1>0, <1>2, <1>4, <2>2, <3>1 DEF Cell
  <2>3. CASE Len(input) + k < i
    <3>1. i - (Len(input) + k) \in 1..(Len(w) - k) /\ k + (i - (Len(input) + k)) = i - Len(input)
      BY <1>0, <2>3
    <3>2. Cell(input2, b, i) = b[i - (Len(input) + k)]
      BY <1>0, <1>4, <2>3 DEF Cell
    <3>3. Cell(input, w, i) = w[i - Len(input)]
      BY <1>0, <2>3 DEF Cell
    <3> QED
      BY <1>3, <3>1, <3>2, <3>3
  <2> QED
    BY <1>0, <2>1, <2>2, <2>3
<1>6. Len(input2) + Len(b) = Len(input) + Len(w)
  BY <1>0, <1>3, <1>4
<1>7. Framed(input2, b, q, n)
  BY <1>5, <1>6, FramedSame
<1>8. input # <<>> => Head(input2) = Head(input)
  <2>1. input # <<>> => 1 \in 1..(Len(input) + k) /\ 1 <= Len(input)
    BY <1>0, EmptySeq
  <2>2. Head(input2) = input2[1] /\ (input # <<>> => Head(input) = input[1])
    BY <1>0, <1>4
  <2> QED
    BY <1>4, <2>1, <2>2
<1> QED
  BY <1>3, <1>4, <1>7, <1>8 DEF input2, a, b

\* What is in front of the input is the request after the last one started.
LEMMA FramedHead ==
    ASSUME NEW input \in Seq(Requests), NEW w \in Seq(Requests), NEW q \in Seq(Requests),
           NEW n \in Nat, n <= Len(q), Framed(input, w, q, n), input # <<>>
    PROVE  n < Len(q) /\ Head(input) = q[n + 1]
<1>0. Len(input) \in Nat /\ Len(input) > 0 /\ Len(w) \in Nat /\ Len(q) \in Nat
      /\ Head(input) = input[1]
  BY LenProperties, EmptySeq
<1>1. PICK ends : FramedBy(ends, input, w, q, n)
  BY FramedWitness
<1>2. n # Len(q)
  BY <1>0, <1>1 DEF FramedBy
<1>3. n + 1 \in (n + 1)..Len(q) /\ n + 1 - 1 = n
  BY <1>0, <1>2
<1>4. q[n + 1].size \in Nat \ {0}
  <2>1. q[n + 1] \in Requests
    BY <1>0, <1>3, ElementOfSeq
  <2> QED
    BY <2>1, RequestFacts
<1>5. ends[n + 1] = q[n + 1].size /\ 1 \in (ends[n] + 1)..ends[n + 1]
  BY <1>1, <1>3, <1>4 DEF FramedBy
<1>6. Cell(input, w, 1) = q[n + 1]
  BY <1>1, <1>3, <1>5 DEF FramedBy
<1> QED
  BY <1>0, <1>2, <1>6 DEF Cell
\* A complete command is erased from the input.
LEMMA FramedErase ==
    ASSUME NEW input \in Seq(Requests), NEW w \in Seq(Requests), NEW q \in Seq(Requests),
           NEW n \in Nat, n <= Len(q), Framed(input, w, q, n), input # <<>>,
           Len(input) >= Head(input).size
    PROVE  /\ Framed(SubSeq(input, Head(input).size + 1, Len(input)), w, q, n + 1)
           /\ SubSeq(input, Head(input).size + 1, Len(input)) \in Seq(Requests)
<1> DEFINE size == Head(input).size
           input2 == SubSeq(input, size + 1, Len(input))
<1>0. /\ Len(input) \in Nat /\ Len(w) \in Nat /\ Len(q) \in Nat
      /\ \A i \in 1..Len(input) : input[i] \in Requests
  BY LenProperties, ElementOfSeq
<1>1. n < Len(q) /\ size = q[n + 1].size /\ q[n + 1] \in Requests
  <2>1. n < Len(q) /\ Head(input) = q[n + 1]
    BY FramedHead
  <2>2. n + 1 \in 1..Len(q)
    BY <1>0, <2>1
  <2> QED
    BY <2>1, <2>2, ElementOfSeq
<1>2. size \in Nat \ {0} /\ size <= Len(input)
  BY <1>0, <1>1, RequestFacts
<1> HIDE DEF size
<1>3. /\ input2 \in Seq(Requests) /\ Len(input2) = Len(input) - size
      /\ \A i \in 1..(Len(input) - size) : input2[i] = input[size + i]
  <2>1. \A i \in (size + 1)..Len(input) : input[i] \in Requests
    BY <1>0, <1>2
  <2>2. /\ input2 \in Seq(Requests)
        /\ Len(input2) = IF size + 1 <= Len(input) THEN Len(input) - (size + 1) + 1 ELSE 0
        /\ \A i \in 1..(Len(input) - (size + 1) + 1) : input2[i] = input[size + 1 + i - 1]
    <3>1. size + 1 \in Int /\ Len(input) \in Int
      BY <1>0, <1>2
    <3> QED
      BY <2>1, <3>1, SubSeqProperties
  <2> HIDE DEF input2
  <2>3. Len(input2) = Len(input) - size
    BY <1>0, <1>2, <2>2
  <2>4. \A i \in 1..(Len(input) - size) :
            size + 1 + i - 1 = size + i /\ i \in 1..(Len(input) - (size + 1) + 1)
    BY <1>0, <1>2
  <2> QED
    BY <2>2, <2>3, <2>4
<1> HIDE DEF input2
<1>4. PICK ends : FramedBy(ends, input, w, q, n)
  BY FramedWitness
<1> DEFINE ends2 == [j \in (n + 1)..Len(q) |-> ends[j] - size]
<1>5. ends[n + 1] = size
  <2>1. n + 1 \in (n + 1)..Len(q) /\ n + 1 - 1 = n
    BY <1>0, <1>1
  <2>2. ends[n + 1] = ends[n] + q[n + 1].size
    <3>1. \A j \in (n + 1)..Len(q) : ends[j] = ends[j - 1] + q[j].size
      BY <1>4 DEF FramedBy
    <3> QED
      BY <2>1, <3>1
  <2> QED
    BY <1>1, <1>2, <1>4, <2>2 DEF FramedBy
<1>6. \A j \in (n + 1)..Len(q) : ends[j] \in Nat /\ ends[j] >= size /\ ends2[j] = ends[j] - size
  <2> SUFFICES ASSUME NEW j \in (n + 1)..Len(q)
               PROVE  ends[j] \in Nat /\ ends[j] >= size /\ ends2[j] = ends[j] - size
    OBVIOUS
  <2>1. j \in n..Len(q) /\ n + 1 \in n..Len(q) /\ n + 1 <= j
    BY <1>0, <1>1
  <2>2. ends[j] \in Nat /\ ends[n + 1] <= ends[j]
    BY <1>4, <2>1 DEF FramedBy
  <2> QED
    BY <1>2, <1>5, <2>2
<1>7. ends2 \in [(n + 1)..Len(q) -> Nat]
  <2>1. \A j \in (n + 1)..Len(q) : ends[j] - size \in Nat
    BY <1>2, <1>6
  <2> QED
    BY <2>1
<1> HIDE DEF ends2
<1>8. FramedBy(ends2, input2, w, q, n + 1)
  <2>1. ends2[n + 1] = 0
    <3>1. n + 1 \in (n + 1)..Len(q)
      BY <1>0, <1>1
    <3> QED
      BY <1>2, <1>5, <1>6, <3>1
  <2>2. ends2[Len(q)] = Len(input2) + Len(w)
    <3>1. Len(q) \in (n + 1)..Len(q)
      BY <1>0, <1>1
    <3>2. ends[Len(q)] = Len(input) + Len(w)
      BY <1>4 DEF FramedBy
    <3> QED
      BY <1>0, <1>2, <1>3, <1>6, <3>1, <3>2
  <2>3. ASSUME NEW j \in (n + 1 + 1)..Len(q)
        PROVE  /\ j \in (n + 1)..Len(q) /\ j - 1 \in (n + 1)..Len(q)
               /\ ends[j] = ends[j - 1] + q[j].size
               /\ ends2[j] = ends[j] - size /\ ends2[j - 1] = ends[j - 1] - size
    <3>1. j \in (n + 1)..Len(q) /\ j - 1 \in (n + 1)..Len(q)
      BY <1>0
    <3> QED
      BY <1>4, <1>6, <3>1 DEF FramedBy
  <2>4. ASSUME NEW j \in (n + 1 + 1)..Len(q)
        PROVE  ends2[j] = ends2[j - 1] + q[j].size
    <3>1. q[j].size \in Nat /\ ends[j] \in Nat /\ ends[j - 1] \in Nat
      <4>1. j \in 1..Len(q)
        BY <1>0
      <4>2. q[j] \in Requests
        BY <4>1, ElementOfSeq
      <4> QED
        BY <1>6, <2>3, <4>2, RequestFacts
    <3>2. \A a, b, d \in Nat : a = b + d => a - size = b - size + d
      BY <1>2
    <3>3. ends[j] - size = ends[j - 1] - size + q[j].size
      BY <2>3, <3>1, <3>2, Zenon
    <3> QED
      BY <2>3, <3>3, Zenon
  <2>5. \A j, k \in (n + 1)..Len(q) : j <= k => ends2[j] <= ends2[k]
    <3> SUFFICES ASSUME NEW j \in (n + 1)..Len(q), NEW k \in (n + 1)..Len(q), j <= k
                 PROVE  ends2[j] <= ends2[k]
      OBVIOUS
    <3>1. j \in n..Len(q) /\ k \in n..Len(q)
      BY <1>0
    <3>2. ends[j] <= ends[k]
      BY <1>4, <3>1 DEF FramedBy
    <3> QED
      BY <1>2, <1>6, <3>2
  <2>6. ASSUME NEW j \in (n + 1 + 1)..Len(q), NEW i \in (ends2[j - 1] + 1)..ends2[j]
        PROVE  Cell(input2, w, i) = q[j]
    <3>1. /\ ends[j - 1] \in Nat /\ ends[j - 1] >= size /\ ends[j] \in Nat
      BY <1>6, <2>3
    <3>2. i \in Nat /\ i >= 1 /\ i + size \in (ends[j - 1] + 1)..ends[j]
      <4> DEFINE a == ends[j - 1]
                 b == ends[j]
      <4>1. i \in (a - size + 1)..(b - size)
        BY <2>3
      <4>2. a \in Nat /\ a >= size /\ b \in Nat
        BY <3>1
      <4> HIDE DEF a, b
      <4>3. i \in Nat /\ i >= 1 /\ i + size \in (a + 1)..b
        BY <1>2, <4>1, <4>2
      <4> QED
        BY <4>3 DEF a, b
    <3>3. Cell(input, w, i + size) = q[j]
      BY <1>4, <2>3, <3>2 DEF FramedBy
    <3>4. Cell(input2, w, i) = Cell(input, w, i + size)
      <4>1. CASE i <= Len(input) - size
        <5>1. i \in 1..(Len(input) - size) /\ i + size <= Len(input) /\ size + i = i + size
          BY <1>0, <1>2, <3>2, <4>1
        <5> QED
          BY <1>3, <4>1, <5>1 DEF Cell
      <4>2. CASE i > Len(input) - size
        <5>1. ~(i <= Len(input) - size) /\ ~(i + size <= Len(input))
              /\ i - (Len(input) - size) = (i + size) - Len(input)
          BY <1>0, <1>2, <3>2, <4>2
        <5>2. Cell(input2, w, i) = w[i - (Len(input) - size)]
          BY <1>3, <5>1 DEF Cell
        <5>3. Cell(input, w, i + size) = w[(i + size) - Len(input)]
          BY <5>1 DEF Cell
        <5> QED
          BY <5>1, <5>2, <5>3
      <4> QED
        BY <1>0, <1>2, <3>2, <4>1, <4>2
    <3> QED
      BY <3>3, <3>4
  <2> QED
    BY <1>7, <2>1, <2>2, <2>4, <2>5, <2>6 DEF FramedBy
<1>9. Framed(input2, w, q, n + 1)
  BY <1>8, FramedWitness
<1> QED
  BY <1>3, <1>9 DEF input2, size

\* A client sends another request.
LEMMA FramedSend ==
    ASSUME NEW input \in Seq(Requests), NEW w \in Seq(Requests), NEW q \in Seq(Requests),
           NEW n \in Nat, n <= Len(q), Framed(input, w, q, n), NEW r \in Requests
    PROVE  /\ Framed(input, w \o EncodeCommand(r), Append(q, r), n)
           /\ w \o EncodeCommand(r) \in Seq(Requests)
<1> DEFINE e == EncodeCommand(r)
           w2 == w \o e
           q2 == Append(q, r)
           L == Len(q)
<1>0. Len(input) \in Nat /\ Len(w) \in Nat /\ L \in Nat
  BY LenProperties
<1>1. /\ r.size \in Nat \ {0} /\ e \in Seq(Requests) /\ Len(e) = r.size
      /\ \A i \in 1..r.size : e[i] = r
  BY RequestFacts
<1> HIDE DEF e
<1>2. /\ w2 \in Seq(Requests) /\ Len(w2) = Len(w) + r.size
      /\ \A i \in 1..(Len(w) + r.size) : w2[i] = IF i <= Len(w) THEN w[i] ELSE e[i - Len(w)]
  <2>1. /\ w2 \in Seq(Requests) /\ Len(w2) = Len(w) + Len(e)
        /\ \A i \in 1..(Len(w) + Len(e)) : w2[i] = IF i <= Len(w) THEN w[i] ELSE e[i - Len(w)]
    BY <1>1, ConcatProperties
  <2> HIDE DEF w2
  <2> QED
    BY <1>1, <2>1
<1>3. /\ q2 \in Seq(Requests) /\ Len(q2) = L + 1
      /\ \A i \in 1..L : q2[i] = q[i]
      /\ q2[L + 1] = r
  BY AppendProperties
<1> HIDE DEF w2, q2
<1>4. PICK ends : FramedBy(ends, input, w, q, n)
  BY FramedWitness
<1> DEFINE T == Len(input) + Len(w)
           ends2 == [j \in n..(L + 1) |-> IF j = L + 1 THEN T + r.size ELSE ends[j]]
<1>5. /\ ends2 \in [n..(L + 1) -> Nat]
      /\ ends2[L + 1] = T + r.size
      /\ \A j \in n..L : ends2[j] = ends[j] /\ ends[j] \in Nat /\ ends[j] <= T
  <2>1. \A j \in n..L : ends[j] \in Nat /\ ends[j] <= T
    BY <1>0, <1>4 DEF FramedBy
  <2>2. \A j \in n..(L + 1) : j = L + 1 \/ j \in n..L
    BY <1>0
  <2>3. T + r.size \in Nat
    BY <1>0, <1>1
  <2>4. L + 1 \in n..(L + 1) /\ \A j \in n..L : j \in n..(L + 1) /\ j # L + 1
    BY <1>0
  <2> QED
    BY <2>1, <2>2, <2>3, <2>4
<1>e. ends[n] = 0 /\ ends[L] = T
  BY <1>4 DEF FramedBy
<1>c. \A i \in 1..T : Cell(input, w2, i) = Cell(input, w, i)
  <2> SUFFICES ASSUME NEW i \in 1..T PROVE Cell(input, w2, i) = Cell(input, w, i)
    OBVIOUS
  <2>1. CASE i <= Len(input)
    BY <2>1 DEF Cell
  <2>2. CASE ~(i <= Len(input))
    <3> DEFINE p == i - Len(input)
    <3>1. p \in 1..(Len(w) + r.size) /\ p <= Len(w)
      BY <1>0, <1>1, <2>2
    <3>2. Cell(input, w2, i) = w2[p] /\ Cell(input, w, i) = w[p]
      BY <2>2 DEF Cell
    <3> HIDE DEF p
    <3> QED
      BY <1>2, <3>1, <3>2
  <2> QED
    BY <2>1, <2>2
<1>d. \A i \in (T + 1)..(T + r.size) : Cell(input, w2, i) = r
  <2> SUFFICES ASSUME NEW i \in (T + 1)..(T + r.size) PROVE Cell(input, w2, i) = r
    OBVIOUS
  <2> DEFINE p == i - Len(input)
  <2>1. /\ ~(i <= Len(input)) /\ p \in 1..(Len(w) + r.size) /\ ~(p <= Len(w))
        /\ p - Len(w) \in 1..r.size
    BY <1>0, <1>1
  <2>2. Cell(input, w2, i) = w2[p]
    BY <2>1 DEF Cell
  <2> HIDE DEF p
  <2> QED
    BY <1>1, <1>2, <2>1, <2>2
<1> HIDE DEF ends2, L
<1>6. FramedBy(ends2, input, w2, q2, n)
  <2>0. Len(q2) = L + 1
    BY <1>3
  <2>1. ends2 \in [n..Len(q2) -> Nat] /\ ends2[n] = 0
    <3>1. n \in n..L
      BY <1>0 DEF L
    <3> QED
      BY <1>5, <1>e, <2>0, <3>1
  <2>2. ends2[Len(q2)] = Len(input) + Len(w2)
    BY <1>0, <1>1, <1>2, <1>5, <2>0
  <2>3. ASSUME NEW j \in (n + 1)..Len(q2)
        PROVE  /\ ends2[j] = ends2[j - 1] + q2[j].size
               /\ \A i \in (ends2[j - 1] + 1)..ends2[j] : Cell(input, w2, i) = q2[j]
    <3>1. CASE j = L + 1
      <4>1. j - 1 \in n..L /\ j - 1 = L
        BY <1>0, <3>1 DEF L
      <4>2. ends2[j - 1] = T /\ ends2[j] = T + r.size /\ q2[j] = r
        BY <1>3, <1>5, <1>e, <3>1, <4>1
      <4> HIDE DEF T
      <4> QED
        BY <1>d, <4>2
    <3>2. CASE j # L + 1
      <4>1. j \in (n + 1)..L /\ j - 1 \in n..L /\ j \in n..L /\ j \in 1..L
        BY <1>0, <2>0, <3>2
      <4>2. q2[j] = q[j] /\ ends2[j - 1] = ends[j - 1] /\ ends2[j] = ends[j]
        BY <1>3, <1>5, <4>1
      <4>3. /\ ends[j] = ends[j - 1] + q[j].size
            /\ \A i \in (ends[j - 1] + 1)..ends[j] : Cell(input, w, i) = q[j]
        BY <1>4, <4>1 DEF FramedBy, L
      <4>4. \A i \in (ends[j - 1] + 1)..ends[j] : i \in 1..T
        BY <1>0, <1>5, <4>1
      <4> QED
        BY <1>c, <4>2, <4>3, <4>4
    <3> QED
      BY <3>1, <3>2
  <2>4. \A j, k \in n..Len(q2) : j <= k => ends2[j] <= ends2[k]
    <3> SUFFICES ASSUME NEW j \in n..(L + 1), NEW k \in n..(L + 1), j <= k
                 PROVE  ends2[j] <= ends2[k]
      BY <2>0
    <3>1. CASE k = L + 1
      <4>1. j = L + 1 \/ j \in n..L
        BY <1>0
      <4>2. T + r.size \in Nat /\ T <= T + r.size /\ T \in Nat
        BY <1>0, <1>1
      <4> HIDE DEF T
      <4> QED
        BY <1>5, <3>1, <4>1, <4>2
    <3>2. CASE k # L + 1
      <4>1. j \in n..L /\ k \in n..L
        BY <1>0, <3>2
      <4>2. ends[j] <= ends[k]
        BY <1>4, <4>1 DEF FramedBy, L
      <4> QED
        BY <1>5, <4>1, <4>2
    <3> QED
      BY <3>1, <3>2
  <2> QED
    BY <2>1, <2>2, <2>3, <2>4 DEF FramedBy
<1>7. Framed(input, w2, q2, n)
  BY <1>6, FramedWitness
<1> QED
  BY <1>2, <1>7 DEF w2, q2, e
-----------------------------------------------------------------------------
(* Versions and replies. *)

LEMMA VersionStart == \A q : VersionOf(q, 0) = "2"
BY DEF VersionOf

LEMMA VersionStep ==
    ASSUME NEW q, NEW n \in Nat
    PROVE  VersionOf(q, n + 1) = NextVersion(VersionOf(q, n), q[n + 1])
<1> DEFINE H(i) == {j \in 1..i : ValidHello(q[j])}
<1>1. CASE ValidHello(q[n + 1])
  <2>1. n + 1 \in H(n + 1) /\ H(n + 1) # {} /\ \A m \in H(n + 1) : m <= n + 1
    BY <1>1
  <2>2. (CHOOSE j \in H(n + 1) : \A m \in H(n + 1) : m <= j) = n + 1
    <3>1. \A j \in H(n + 1) : (\A m \in H(n + 1) : m <= j) => j = n + 1
      BY <2>1
    <3> HIDE DEF H
    <3> QED
      BY <2>1, <3>1
  <2>3. VersionOf(q, n + 1) = q[n + 1].args[1]
    BY <2>1, <2>2 DEF VersionOf
  <2> QED
    BY <1>1, <2>3 DEF NextVersion, ValidHello
<1>2. CASE ~ValidHello(q[n + 1])
  <2>1. H(n + 1) = H(n)
    BY <1>2
  <2> DEFINE V(h) == IF h = {} THEN "2"
                     ELSE q[CHOOSE j \in h : \A m \in h : m <= j].args[1]
  <2>2. VersionOf(q, n + 1) = V(H(n + 1)) /\ VersionOf(q, n) = V(H(n))
    BY DEF VersionOf
  <2>3. VersionOf(q, n + 1) = VersionOf(q, n)
    <3> HIDE DEF V, H
    <3> QED
      BY <2>1, <2>2, Zenon
  <2> QED
    BY <1>2, <2>3 DEF NextVersion, ValidHello
<1> QED
  BY <1>1, <1>2

LEMMA VersionSame ==
    ASSUME NEW q, NEW q2, NEW i \in Nat, \A j \in 1..i : q2[j] = q[j]
    PROVE  VersionOf(q2, i) = VersionOf(q, i)
<1> DEFINE H(x) == {j \in 1..i : ValidHello(x[j])}
<1>1. H(q2) = H(q)
  OBVIOUS
<1> DEFINE top == CHOOSE j \in H(q) : \A m \in H(q) : m <= j
<1>2. VersionOf(q, i) = IF H(q) = {} THEN "2" ELSE q[top].args[1]
  BY DEF VersionOf
<1>3. VersionOf(q2, i) = IF H(q) = {} THEN "2" ELSE q2[top].args[1]
  <2> DEFINE V(h) == IF h = {} THEN "2"
                     ELSE q2[CHOOSE j \in h : \A m \in h : m <= j].args[1]
  <2>1. VersionOf(q2, i) = V(H(q2))
    BY DEF VersionOf
  <2>2. V(H(q2)) = V(H(q))
    <3> HIDE DEF V, H
    <3> QED
      BY <1>1, Zenon
  <2> QED
    BY <2>1, <2>2
<1>4. H(q) # {} => top \in 1..i
  <2>1. ASSUME H(q) # {} PROVE \E j \in H(q) : \A m \in H(q) : m <= j
    <3> DEFINE N == {i - j : j \in H(q)}
    <3>1. N \subseteq Nat /\ N # {}
      BY <2>1
    <3>2. PICK x \in N : \A y \in N : y >= x
      <4> HIDE DEF N
      <4> QED
        BY <3>1, LeastElement
    <3>3. PICK j \in H(q) : x = i - j
      OBVIOUS
    <3>4. \A m \in H(q) : i - m >= i - j
      BY <3>2, <3>3
    <3>5. \A m \in H(q) : m <= j
      BY <3>4
    <3> QED
      BY <3>5
  <2>2. H(q) \subseteq 1..i
    OBVIOUS
  <2> HIDE DEF H
  <2> QED
    BY <2>1, <2>2
<1> HIDE DEF top
<1> QED
  BY <1>2, <1>3, <1>4

\* Only a command that was executed is answered otherwise than by an error,
\* and its answer says what it has committed.
LEMMA ReplyFacts ==
    ASSUME NEW r, NEW done \in Nat, NEW cur, CurrentOK(cur, r, done), cur.pending = <<>>,
           NEW store, NEW version, NEW id
    PROVE  LET answer == Reply(r, done, store, version, id)
           IN  /\ answer.id = id
               /\ answer.kind # "limit"
               /\ answer.kind \in {"null", "hello"} => answer.value = version
               /\ Matches(r, answer, done)
<1> DEFINE answer == Reply(r, done, store, version, id)
<1>0. /\ Accepted(r) /\ r.name = "SET" => done = 1
      /\ Accepted(r) /\ r.name \in {"SET", "RENAME"} => done \in {0, 1}
      /\ (Accepted(r) /\ r.name \in {"SET", "RENAME", "DEL", "FLUSHDB"}) \/ done = 0
  <2>1. Len(<<>>) # 1
    OBVIOUS
  <2> QED
    BY <2>1 DEF CurrentOK
<1>1. CASE ~Accepted(r)
  <2>1. answer = Answer(id, "error", Absent)
    BY <1>1 DEF Reply
  <2> QED
    BY <1>0, <1>1, <2>1 DEF Matches, Answer
<1>2. CASE Accepted(r)
  <2>0. r.name \in {"DBSIZE", "FLUSHDB", "QUIT", "PING", "HELLO", "GET", "KEYS", "SET", "RENAME",
                    "DEL", "EXISTS"}
    BY <1>2 DEF Accepted
  <2>1. CASE r.name = "HELLO"
    <3>1. answer = IF r.args[1] \in {"2", "3"} THEN Answer(id, "hello", version)
                   ELSE Answer(id, "error", Absent)
      BY <1>2, <2>1 DEF Reply
    <3> QED
      BY <1>0, <2>1, <3>1 DEF Matches, Answer
  <2>2. CASE r.name = "PING"
    <3>1. answer = IF r.args = <<>> THEN Answer(id, "simple", "PONG")
                   ELSE Answer(id, "bulk", r.args[1])
      BY <1>2, <2>2 DEF Reply
    <3> QED
      BY <1>0, <2>2, <3>1 DEF Matches, Answer
  <2>3. CASE r.name = "GET"
    <3>1. answer = IF StoreGet(store, r.args[1], 0) = Absent THEN Answer(id, "null", version)
                   ELSE Answer(id, "bulk", StoreGet(store, r.args[1], 0))
      BY <1>2, <2>3 DEF Reply
    <3> QED
      BY <1>0, <2>3, <3>1 DEF Matches, Answer
  <2>4. CASE r.name \in {"SET", "FLUSHDB", "QUIT"}
    <3>1. answer = Answer(id, "simple", "OK")
      BY <1>2, <2>4 DEF Reply
    <3> QED
      BY <1>0, <1>2, <2>4, <3>1 DEF Matches, Answer
  <2>5. CASE r.name = "DEL"
    <3>1. answer = Answer(id, "integer", done)
      BY <1>2, <2>5 DEF Reply
    <3> QED
      BY <2>5, <3>1 DEF Matches, Answer
  <2>6. CASE r.name = "RENAME"
    <3>1. answer = IF done = 0 THEN Answer(id, "error", Absent) ELSE Answer(id, "simple", "OK")
      BY <1>2, <2>6 DEF Reply
    <3> QED
      BY <1>0, <1>2, <2>6, <3>1 DEF Matches, Answer
  <2>7. CASE r.name = "EXISTS"
    <3>1. answer = Answer(id, "integer",
                    Cardinality({i \in 1..Len(r.args) : StoreExists(store, r.args[i], 0)}))
      BY <1>2, <2>7 DEF Reply
    <3> QED
      BY <1>0, <2>7, <3>1 DEF Matches, Answer
  <2>8. CASE r.name = "KEYS"
    <3>1. answer = IF r.args[1] = "*" THEN Answer(id, "array", StoreScan(store, 0))
                   ELSE Answer(id, "error", Absent)
      BY <1>2, <2>8 DEF Reply
    <3> QED
      BY <1>0, <2>8, <3>1 DEF Matches, Answer
  <2>9. CASE r.name = "DBSIZE"
    <3>1. answer = Answer(id, "integer", StoreSize(store, 0))
      BY <1>2, <2>9 DEF Reply
    <3> QED
      BY <1>0, <2>9, <3>1 DEF Matches, Answer
  <2> QED
    BY <2>0, <2>1, <2>2, <2>3, <2>4, <2>5, <2>6, <2>7, <2>8, <2>9
<1> QED
  BY <1>1, <1>2

\* What a command has to commit when it starts.
LEMMA EventsForFacts ==
    ASSUME NEW r \in Requests
    PROVE  CurrentOK([command |-> r, pending |-> EventsFor(r), applied |-> 0], r, 0)
<1> DEFINE es == EventsFor(r)
<1>1. \A i \in 1..Len(es) : WellFormed(es[i]) /\ es[i] \in Event
  BY CommandAssumption DEF WellFormed
<1>0. r.args \in Seq(Keys \cup Values \cup STRING) /\ Len(r.args) \in Nat
  BY ServerAssumption, LenProperties DEF Request
<1>2. \/ es = <<>>
      \/ /\ r.name \in {"SET", "RENAME", "FLUSHDB"} /\ Accepted(r)
         /\ \E e : es = <<e>> /\ (r.name = "SET" => e.type = CREATE)
      \/ /\ r.name = "DEL" /\ Accepted(r)
         /\ es = [i \in 1..Len(r.args) |-> RadishEvent(DELETE, -1, r.args[i], Absent, Absent)]
  <2>1. CASE ~Accepted(r)
    BY <2>1 DEF EventsFor
  <2>2. CASE Accepted(r) /\ r.name = "SET"
    <3> DEFINE e == RadishEvent(CREATE, NoExpiry, r.args[1], Absent, r.args[2])
    <3>1. es = <<e>>
      BY <2>2 DEF EventsFor
    <3>2. e.type = CREATE
      BY DEF RadishEvent
    <3> HIDE DEF es, e
    <3> QED
      BY <2>2, <3>1, <3>2
  <2>3. CASE Accepted(r) /\ r.name = "RENAME"
    <3> DEFINE e == RadishEvent(RENAME, -1, r.args[1], r.args[2], Absent)
    <3>1. es = <<e>>
      BY <2>3 DEF EventsFor
    <3> HIDE DEF es, e
    <3> QED
      BY <2>3, <3>1
  <2>4. CASE Accepted(r) /\ r.name = "FLUSHDB"
    <3> DEFINE e == RadishEvent(CLEAR, -1, Absent, Absent, Absent)
    <3>1. es = <<e>>
      BY <2>4 DEF EventsFor
    <3> HIDE DEF es, e
    <3> QED
      BY <2>4, <3>1
  <2>5. CASE Accepted(r) /\ r.name = "DEL"
    BY <2>5 DEF EventsFor
  <2>6. CASE r.name \notin {"SET", "RENAME", "FLUSHDB", "DEL"}
    BY <2>6 DEF EventsFor
  <2> QED
    BY <2>1, <2>2, <2>3, <2>4, <2>5, <2>6
<1>3. r.name \in {"SET", "RENAME", "FLUSHDB"} /\ Accepted(r) => es # <<>>
  BY DEF EventsFor
<1>4. es \in Seq(Event)
  <2>1. CASE es = <<>>
    BY <2>1
  <2>2. ASSUME NEW e, es = <<e>> PROVE es \in Seq(Event)
    <3>1. 1 \in 1..Len(es) /\ es[1] = e
      BY <2>2
    <3>2. e \in Event
      BY <1>1, <3>1
    <3> QED
      BY <2>2, <3>2
  <2>3. CASE es = [i \in 1..Len(r.args) |-> RadishEvent(DELETE, -1, r.args[i], Absent, Absent)]
    <3> DEFINE n == Len(r.args)
    <3>1. Len(es) = n /\ es = [i \in 1..n |-> es[i]]
      BY <1>0, <2>3
    <3>2. \A i \in 1..n : es[i] \in Event
      BY <1>1, <3>1
    <3> HIDE DEF es, n
    <3>3. [i \in 1..n |-> es[i]] \in Seq(Event)
      BY <1>0, <3>2 DEF n
    <3> QED
      BY <3>1, <3>3
  <2> QED
    BY <1>2, <2>1, <2>2, <2>3
<1> HIDE DEF es
<1> DEFINE cur == [command |-> r, pending |-> es, applied |-> 0]
<1>5. /\ cur \in [command : Requests, pending : Seq(Event), applied : Nat]
      /\ cur.pending = es /\ cur.command = r /\ cur.applied = 0
  BY <1>4
<1>6. \A i \in 1..Len(es) : WellFormed(es[i])
  BY <1>1
<1>7. r.name \in {"SET", "RENAME"} /\ Accepted(r) => Len(es) = 1 /\ (r.name = "SET" => es[1].type = CREATE)
  BY <1>2, <1>3
<1> HIDE DEF cur
<1>8. CurrentOK(cur, r, 0)
  BY <1>2, <1>3, <1>5, <1>6, <1>7 DEF CurrentOK
<1> QED
  BY <1>8 DEF cur, es
-----------------------------------------------------------------------------
(* Steps that change the pending operations of a session, or close it. *)

LEMMA OperationsOnly ==
    ASSUME NEW c, NEW w, NEW q, NEW com, NEW rep, NEW gone, NEW busy, NEW cur,
           SessionInv(c, w, q, com, rep, gone, busy, cur),
           NEW c2, NEW gone2, NEW busy2, NEW cur2,
           busy = "execute" <=> busy2 = "execute",
           busy = "execute" => cur2 = cur,
           SessionType(c2), c2.status = c.status, c2.m_input = c.m_input,
           c2.m_version = c.m_version, c2.m_closeAfterWrite = c.m_closeAfterWrite,
           LifeInv(c2, q, com, rep, gone2, busy2)
    PROVE  SessionInv(c2, w, q, com, rep, gone2, busy2, cur2)
<1>1. CountInv(c2, q, com, rep, busy2)
  BY DEF SessionInv, CountInv
<1>2. EndInv(c2, q, com, rep, busy2)
  BY DEF SessionInv, EndInv
<1> QED
  BY <1>1, <1>2 DEF SessionInv

LEMMA SessionFields ==
    ASSUME NEW c, SessionType(c)
    PROVE  /\ c.status \in {"new", "open", "closed"} /\ c.reading \in BOOLEAN
           /\ c.writing \in BOOLEAN /\ c.m_input \in Seq(Requests)
           /\ c.m_version \in {"2", "3"} /\ c.m_closeAfterWrite \in BOOLEAN
BY DEF SessionType

LEMMA ClosedFields ==
    ASSUME NEW c, SessionType(c)
    PROVE  /\ SessionType(Closed(c))
           /\ Closed(c).status = "closed" /\ ~Closed(c).reading /\ ~Closed(c).writing
           /\ Closed(c).m_input = <<>> /\ Closed(c).m_output = <<>>
           /\ Closed(c).m_version = c.m_version
           /\ Closed(c).m_closeAfterWrite = c.m_closeAfterWrite
<1>1. ASSUME NEW e \in Seq(Requests)
      PROVE  LET d == [c EXCEPT !.status = "closed", !.reading = FALSE, !.writing = FALSE,
                                !.m_input = e, !.m_output = e]
             IN  /\ SessionType(d)
                 /\ d.status = "closed" /\ ~d.reading /\ ~d.writing
                 /\ d.m_input = e /\ d.m_output = e
                 /\ d.m_version = c.m_version /\ d.m_closeAfterWrite = c.m_closeAfterWrite
  BY DEF SessionType
<1>2. <<>> \in Seq(Requests)
  OBVIOUS
<1> QED
  BY <1>1, <1>2, Zenon DEF Closed

LEMMA RepliesPrefix ==
    ASSUME NEW q, NEW com, NEW rep, NEW rep2, RepliesInv(q, com, rep),
           Len(rep) \in Nat, Len(rep2) \in Nat, Len(rep2) <= Len(rep),
           \A i \in 1..Len(rep2) : rep2[i] = rep[i]
    PROVE  RepliesInv(q, com, rep2)
<1>1. \A i \in 1..Len(rep2) : i \in 1..Len(rep)
  OBVIOUS
<1> QED
  BY <1>1 DEF RepliesInv

\* Closing drops the responses that are still queued.
LEMMA ClosedOK ==
    ASSUME NEW c, NEW w, NEW q, NEW com, NEW got, NEW gone, NEW busy, NEW cur,
           PartsOK(c, w, q, com, got, gone, busy, cur), NEW cur2
    PROVE  PartsOK(Closed(c), w, q, com, got, gone, "none", cur2)
<1> DEFINE rep == got \o c.m_output
           c2 == Closed(c)
<1>1. /\ AnySeq(got) /\ AnySeq(c.m_output)
      /\ SessionInv(c, w, q, com, rep, gone, busy, cur)
  BY DEF PartsOK
<1>2. /\ SessionType(c2) /\ c2.status = "closed" /\ ~c2.reading /\ ~c2.writing
      /\ c2.m_input = <<>> /\ c2.m_output = <<>>
      /\ c2.m_version = c.m_version /\ c2.m_closeAfterWrite = c.m_closeAfterWrite
  <2>1. SessionType(c)
    BY <1>1 DEF SessionInv
  <2> QED
    BY <2>1, ClosedFields
<1>3. /\ AnySeq(rep) /\ Len(got) <= Len(rep) /\ \A i \in 1..Len(got) : rep[i] = got[i]
      /\ Len(got) \in Nat /\ Len(rep) \in Nat /\ got \o <<>> = got
  BY <1>1, RepliesFacts, AnySeqFacts
<1>4. AnySeq(<<>>)
  <2>1. <<>> \in Seq({})
    OBVIOUS
  <2> QED
    BY <2>1 DEF AnySeq
<1> HIDE DEF rep, c2
<1>5. com \in Seq(Nat) /\ q \in Seq(Requests) /\ Len(com) \in Nat /\ Len(q) \in Nat
  BY <1>1, LenProperties DEF SessionInv
<1>6. RepliesInv(q, com, got)
  BY <1>1, <1>3, RepliesPrefix DEF SessionInv
<1>7. CountInv(c2, q, com, got, "none")
  <2>1. CountInv(c, q, com, rep, busy)
    BY <1>1 DEF SessionInv
  <2> QED
    BY <1>2, <1>3, <1>5, <2>1 DEF CountInv
<1>8. EndInv(c2, q, com, got, "none")
  <2>1. EndInv(c, q, com, rep, busy)
    BY <1>1 DEF SessionInv
  <2> QED
    BY <1>2, <1>3, <1>5, <2>1 DEF EndInv
<1>9. LifeInv(c2, q, com, got, gone, "none")
  BY <1>2 DEF LifeInv
<1>10. SessionInv(c2, w, q, com, got, gone, "none", cur2)
  BY <1>1, <1>2, <1>6, <1>7, <1>8, <1>9 DEF SessionInv
<1>11. PartsOK(c2, w, q, com, got, gone, "none", cur2)
  BY <1>1, <1>2, <1>3, <1>4, <1>10 DEF PartsOK
<1> QED
  BY <1>11 DEF c2

LEMMA ReleasedOK ==
    ASSUME NEW c, NEW w, NEW q, NEW com, NEW got, NEW gone, NEW cur,
           PartsOK(c, w, q, com, got, gone, "none", cur)
    PROVE  PartsOK(Released(c), w, q, com, got, gone, "none", cur)
BY ClosedOK DEF Released

\* A session whose handler is not running does not see current.
LEMMA IdleOK ==
    ASSUME NEW c, NEW w, NEW q, NEW com, NEW got, NEW gone, NEW busy, NEW cur,
           PartsOK(c, w, q, com, got, gone, busy, cur), busy # "execute", NEW cur2
    PROVE  PartsOK(c, w, q, com, got, gone, busy, cur2)
BY DEF PartsOK, SessionInv
-----------------------------------------------------------------------------
(* What clients do, seen by their session. *)

LEMMA FramedEmpty == Framed(<<>>, <<>>, <<>>, 0)
<1> DEFINE ends == [j \in 0..0 |-> 0]
<1>1. FramedBy(ends, <<>>, <<>>, <<>>, 0)
  BY DEF FramedBy
<1> QED
  BY <1>1, FramedWitness

LEMMA ConnectOK ==
    ASSUME NEW c, NEW w, NEW q, NEW com, NEW got, NEW gone, NEW cur,
           PartsOK(c, w, q, com, got, gone, "none", cur), c.status = "new"
    PROVE  PartsOK([c EXCEPT !.status = "open", !.reading = TRUE], w, q, com, got, gone, "none", cur)
<1> DEFINE rep == got \o c.m_output
           d == [c EXCEPT !.status = "open", !.reading = TRUE]
<1>1. SessionInv(c, w, q, com, rep, gone, "none", cur)
  BY DEF PartsOK
<1>2. SessionType(c) /\ LifeInv(c, q, com, rep, gone, "none")
  BY <1>1 DEF SessionInv
<1>3. /\ SessionType(d)
      /\ d.status = "open" /\ d.reading = TRUE /\ d.writing = c.writing /\ d.m_input = c.m_input
      /\ d.m_output = c.m_output /\ d.m_version = c.m_version
      /\ d.m_closeAfterWrite = c.m_closeAfterWrite
  BY <1>2 DEF SessionType
<1>4. /\ c.m_input = <<>> /\ c.m_output = <<>> /\ ~c.writing /\ ~c.m_closeAfterWrite
      /\ c.m_version = "2" /\ q = <<>> /\ com = <<>> /\ rep = <<>> /\ w = <<>>
  BY <1>1, <1>2 DEF LifeInv, SessionInv
<1> HIDE DEF rep, d
<1>5. LifeInv(d, q, com, rep, gone, "none")
  BY <1>3, <1>4 DEF LifeInv, ParseCommand
<1>6. CountInv(d, q, com, rep, "none")
  BY <1>4 DEF CountInv
<1>7. EndInv(d, q, com, rep, "none")
  BY <1>4 DEF EndInv
<1>8. Framed(d.m_input, w, q, Len(com))
  <2>1. Len(<<>>) = 0
    OBVIOUS
  <2> QED
    BY <1>3, <1>4, <2>1, FramedEmpty
<1>9. SessionInv(d, w, q, com, rep, gone, "none", cur)
  BY <1>1, <1>3, <1>5, <1>6, <1>7, <1>8 DEF SessionInv
<1>10. PartsOK(d, w, q, com, got, gone, "none", cur)
  BY <1>3, <1>9 DEF PartsOK, rep
<1> QED
  BY <1>10 DEF d

LEMMA SendOK ==
    ASSUME NEW c, NEW w, NEW q, NEW com, NEW got, NEW gone, NEW busy, NEW cur,
           PartsOK(c, w, q, com, got, gone, busy, cur), c.status = "open", NEW r \in Requests
    PROVE  PartsOK(c, w \o EncodeCommand(r), Append(q, r), com, got, gone, busy, cur)
<1> DEFINE rep == got \o c.m_output
           q2 == Append(q, r)
           w2 == w \o EncodeCommand(r)
<1>1. SessionInv(c, w, q, com, rep, gone, busy, cur) /\ AnySeq(got) /\ AnySeq(c.m_output)
  BY DEF PartsOK
<1>2. Len(rep) \in Nat
  BY <1>1, RepliesFacts, AnySeqFacts
<1> HIDE DEF rep
<1>3. /\ SessionType(c) /\ w \in Seq(Requests) /\ q \in Seq(Requests) /\ com \in Seq(Nat)
      /\ LifeInv(c, q, com, rep, gone, busy) /\ Framed(c.m_input, w, q, Len(com))
      /\ CountInv(c, q, com, rep, busy) /\ EndInv(c, q, com, rep, busy)
      /\ RepliesInv(q, com, rep) /\ c.m_version = VersionOf(q, Len(com))
  BY <1>1 DEF SessionInv
<1>4. Len(q) \in Nat /\ Len(com) \in Nat /\ Len(com) <= Len(q) /\ Len(rep) <= Len(q)
  BY <1>3, LenProperties DEF CountInv
<1>5. /\ q2 \in Seq(Requests) /\ Len(q2) = Len(q) + 1 /\ \A i \in 1..Len(q) : q2[i] = q[i]
  BY <1>3, AppendProperties
<1>6. Framed(c.m_input, w2, q2, Len(com)) /\ w2 \in Seq(Requests)
  BY <1>3, <1>4, SessionFields, FramedSend
<1> HIDE DEF q2, w2
<1>7. \A i \in 0..Len(q) : VersionOf(q2, i) = VersionOf(q, i)
  <2> SUFFICES ASSUME NEW i \in 0..Len(q) PROVE VersionOf(q2, i) = VersionOf(q, i)
    OBVIOUS
  <2>1. i \in Nat /\ \A j \in 1..i : q2[j] = q[j]
    BY <1>4, <1>5
  <2> QED
    BY <2>1, VersionSame
<1>8. LifeInv(c, q2, com, rep, gone, busy)
  BY <1>3 DEF LifeInv
<1>9. CountInv(c, q2, com, rep, busy)
  BY <1>3, <1>4, <1>5 DEF CountInv
<1>10. EndInv(c, q2, com, rep, busy)
  <2>1. \A i \in 1..Len(com) : q2[i] = q[i]
    BY <1>4, <1>5
  <2> QED
    BY <1>3, <2>1 DEF EndInv
<1>11. RepliesInv(q2, com, rep)
  <2>1. \A i \in 1..Len(rep) : q2[i] = q[i] /\ VersionOf(q2, i) = VersionOf(q, i)
    BY <1>2, <1>4, <1>5, <1>7
  <2> QED
    BY <1>3, <2>1 DEF RepliesInv
<1>12. c.m_version = VersionOf(q2, Len(com))
  BY <1>3, <1>4, <1>7
<1>13. busy = "execute" => CurrentOK(cur, q2[Len(com)], com[Len(com)])
  <2> SUFFICES ASSUME busy = "execute" PROVE CurrentOK(cur, q2[Len(com)], com[Len(com)])
    OBVIOUS
  <2>1. Len(com) = Len(rep) + 1
    BY <1>3 DEF CountInv
  <2>2. q2[Len(com)] = q[Len(com)]
    BY <1>2, <1>4, <1>5, <2>1
  <2> QED
    BY <1>1, <2>2 DEF SessionInv
<1>14. SessionInv(c, w2, q2, com, rep, gone, busy, cur)
  BY <1>3, <1>5, <1>6, <1>8, <1>9, <1>10, <1>11, <1>12, <1>13 DEF SessionInv
<1>15. PartsOK(c, w2, q2, com, got, gone, busy, cur)
  BY <1>1, <1>14 DEF PartsOK, rep
<1> QED
  BY <1>15 DEF q2, w2

LEMMA HangupOK ==
    ASSUME NEW c, NEW w, NEW q, NEW com, NEW got, NEW gone, NEW busy, NEW cur,
           PartsOK(c, w, q, com, got, gone, busy, cur)
    PROVE  PartsOK(c, w, q, com, got, TRUE, busy, cur)
<1> DEFINE rep == got \o c.m_output
<1>1. SessionInv(c, w, q, com, rep, gone, busy, cur) /\ AnySeq(got) /\ AnySeq(c.m_output)
  BY DEF PartsOK
<1> HIDE DEF rep
<1>2. SessionType(c) /\ LifeInv(c, q, com, rep, TRUE, busy)
  BY <1>1 DEF SessionInv, LifeInv
<1>3. SessionInv(c, w, q, com, rep, TRUE, busy, cur)
  BY <1>1, <1>2 DEF SessionInv
<1> QED
  BY <1>1, <1>3 DEF PartsOK, rep
-----------------------------------------------------------------------------
(* The handlers, seen by their session. *)

\* d is session c with response x queued behind the replies got.
Queued(d, c, got, x, close) ==
    /\ SessionType(d)
    /\ d.status = c.status /\ d.reading = c.reading
    /\ d.writing = (c.writing \/ c.m_output = <<>>)
    /\ d.m_input = c.m_input /\ d.m_version = c.m_version
    /\ d.m_closeAfterWrite = (c.m_closeAfterWrite \/ close)
    /\ AnySeq(d.m_output) /\ d.m_output # <<>>
    /\ got \o d.m_output = Append(got \o c.m_output, x)

LEMMA QueueFields ==
    ASSUME NEW c, SessionType(c), NEW got, AnySeq(got), AnySeq(c.m_output), NEW x,
           NEW close \in BOOLEAN
    PROVE  Queued(Queue(c, x, close), c, got, x, close)
<1> DEFINE out == Append(c.m_output, x)
           b1 == c.m_closeAfterWrite \/ close
           b2 == c.writing \/ c.m_output = <<>>
<1>2. b1 \in BOOLEAN /\ b2 \in BOOLEAN
  OBVIOUS
<1>3. Queue(c, x, close) = [c EXCEPT !.m_output = out, !.m_closeAfterWrite = b1, !.writing = b2]
  BY DEF Queue
<1> HIDE DEF out, b1, b2
<1> DEFINE d == [c EXCEPT !.m_output = out, !.m_closeAfterWrite = b1, !.writing = b2]
<1>4. /\ SessionType(d)
      /\ d.status = c.status /\ d.reading = c.reading /\ d.writing = b2
      /\ d.m_input = c.m_input /\ d.m_output = out
      /\ d.m_version = c.m_version /\ d.m_closeAfterWrite = b1
  BY <1>2 DEF SessionType
<1> HIDE DEF d
<1>5. Queue(c, x, close) = d
  BY <1>3 DEF d
<1>6. got \o out = Append(got \o c.m_output, x)
  BY RepliesQueued DEF out
<1>7. AnySeq(out) /\ out # <<>>
  BY AnySeqAppend DEF out
<1>8. Queued(d, c, got, x, close)
  BY <1>4, <1>6, <1>7 DEF Queued, b1, b2
<1> QED
  BY <1>5, <1>8

\* The facts about a session with an open connection that every handler uses.
LEMMA PartsFacts ==
    ASSUME NEW c, NEW w, NEW q, NEW com, NEW got, NEW gone, NEW busy, NEW cur,
           PartsOK(c, w, q, com, got, gone, busy, cur)
    PROVE  LET rep == got \o c.m_output
           IN  /\ SessionInv(c, w, q, com, rep, gone, busy, cur)
               /\ AnySeq(got) /\ AnySeq(c.m_output) /\ AnySeq(rep)
               /\ Len(rep) \in Nat /\ Len(q) \in Nat /\ Len(com) \in Nat
               /\ SessionType(c) /\ w \in Seq(Requests) /\ q \in Seq(Requests) /\ com \in Seq(Nat)
               /\ LifeInv(c, q, com, rep, gone, busy)
               /\ c.status = "open" => Framed(c.m_input, w, q, Len(com))
               /\ CountInv(c, q, com, rep, busy) /\ EndInv(c, q, com, rep, busy)
               /\ RepliesInv(q, com, rep) /\ c.m_version = VersionOf(q, Len(com))
               /\ busy # "none" \/ c.reading \/ c.writing => c.status = "open"
<1> DEFINE rep == got \o c.m_output
<1>1. SessionInv(c, w, q, com, rep, gone, busy, cur) /\ AnySeq(got) /\ AnySeq(c.m_output)
  BY DEF PartsOK
<1>2. AnySeq(rep) /\ Len(rep) \in Nat
  BY <1>1, RepliesFacts, AnySeqFacts
<1> HIDE DEF rep
<1>3. /\ SessionType(c) /\ w \in Seq(Requests) /\ q \in Seq(Requests) /\ com \in Seq(Nat)
      /\ LifeInv(c, q, com, rep, gone, busy)
      /\ c.status = "open" => Framed(c.m_input, w, q, Len(com))
      /\ CountInv(c, q, com, rep, busy) /\ EndInv(c, q, com, rep, busy)
      /\ RepliesInv(q, com, rep) /\ c.m_version = VersionOf(q, Len(com))
  BY <1>1 DEF SessionInv
<1>4. Len(q) \in Nat /\ Len(com) \in Nat
  BY <1>3, LenProperties
<1>5. busy # "none" \/ c.reading \/ c.writing => c.status = "open"
  BY <1>3 DEF LifeInv
<1> QED
  BY <1>1, <1>2, <1>3, <1>4, <1>5 DEF rep

\* The last response of a connection: the one to a protocol error, or to a
\* request that is too large.
LEMMA QueueLastOK ==
    ASSUME NEW c, NEW w, NEW q, NEW com, NEW got, NEW gone, NEW cur,
           PartsOK(c, w, q, com, got, gone, "process", cur),
           ~c.m_closeAfterWrite, Len(com) < Len(q), ~c.reading,
           NEW x, x.id = Len(com) + 1, x.kind \in {"error", "limit"},
           x.kind = "limit" => q[Len(com) + 1].size > MaxInput - ReadSize + 1,
           NEW busy2 \in {"none", "process"}
    PROVE  PartsOK(Queue(c, x, TRUE), w, q, com, got, gone, busy2, cur)
<1> DEFINE rep == got \o c.m_output
           rep2 == Append(rep, x)
           d == Queue(c, x, TRUE)
<1>1. /\ SessionInv(c, w, q, com, rep, gone, "process", cur)
      /\ AnySeq(got) /\ AnySeq(c.m_output) /\ AnySeq(rep)
      /\ Len(rep) \in Nat /\ Len(q) \in Nat /\ Len(com) \in Nat
      /\ SessionType(c) /\ w \in Seq(Requests) /\ q \in Seq(Requests) /\ com \in Seq(Nat)
      /\ LifeInv(c, q, com, rep, gone, "process")
      /\ c.status = "open" /\ Framed(c.m_input, w, q, Len(com))
      /\ CountInv(c, q, com, rep, "process") /\ EndInv(c, q, com, rep, "process")
      /\ RepliesInv(q, com, rep) /\ c.m_version = VersionOf(q, Len(com))
  BY PartsFacts
<1>2. Queued(d, c, got, x, TRUE)
  <2>1. SessionType(c) /\ AnySeq(got) /\ AnySeq(c.m_output)
    BY <1>1
  <2>2. \A close \in BOOLEAN : Queued(Queue(c, x, close), c, got, x, close)
    BY <2>1, QueueFields
  <2>3. TRUE \in BOOLEAN
    OBVIOUS
  <2> QED
    BY <2>2, <2>3, Zenon
<1>3. /\ SessionType(d) /\ d.status = c.status /\ d.reading = c.reading
      /\ d.writing = (c.writing \/ c.m_output = <<>>)
      /\ d.m_input = c.m_input /\ d.m_version = c.m_version /\ d.m_closeAfterWrite
      /\ AnySeq(d.m_output) /\ d.m_output # <<>> /\ got \o d.m_output = rep2
  <2> HIDE DEF d
  <2> QED
    BY <1>2 DEF Queued
<1>4. /\ Len(rep2) = Len(rep) + 1 /\ \A i \in 1..Len(rep) : rep2[i] = rep[i]
      /\ rep2[Len(rep) + 1] = x
  BY <1>1, AnySeqAppend
<1> HIDE DEF rep, rep2, d
<1>5. Len(rep) = Len(com)
  BY <1>1 DEF CountInv
<1>6. LifeInv(d, q, com, rep2, gone, busy2)
  BY <1>1, <1>3 DEF LifeInv
<1>7. CountInv(d, q, com, rep2, busy2)
  BY <1>1, <1>3, <1>4, <1>5 DEF CountInv
<1>8. EndInv(d, q, com, rep2, busy2)
  BY <1>1 DEF EndInv
<1>9. RepliesInv(q, com, rep2)
  <2> SUFFICES ASSUME NEW i \in 1..Len(rep2)
               PROVE  /\ rep2[i].id = i
                      /\ rep2[i].kind = "limit" => q[i].size > MaxInput - ReadSize + 1
                      /\ rep2[i].kind \in {"null", "hello"} => rep2[i].value = VersionOf(q, i)
                      /\ i <= Len(com) => Matches(q[i], rep2[i], com[i])
    BY DEF RepliesInv
  <2>1. CASE i = Len(rep) + 1
    <3>1. rep2[i] = x /\ i = Len(com) + 1 /\ ~(i <= Len(com))
      BY <1>1, <1>4, <1>5, <2>1
    <3> QED
      BY <3>1
  <2>2. CASE i # Len(rep) + 1
    <3>1. i \in 1..Len(rep) /\ rep2[i] = rep[i]
      BY <1>1, <1>4, <2>2
    <3> QED
      BY <1>1, <3>1 DEF RepliesInv
  <2> QED
    BY <2>1, <2>2
<1>10. SessionInv(d, w, q, com, rep2, gone, busy2, cur)
  BY <1>1, <1>3, <1>6, <1>7, <1>8, <1>9 DEF SessionInv
<1>11. PartsOK(d, w, q, com, got, gone, busy2, cur)
  BY <1>1, <1>3, <1>10 DEF PartsOK
<1> QED
  BY <1>11 DEF d
\* The bytes of a read are appended to the input.
LEMMA ReadOK ==
    ASSUME NEW c, NEW w, NEW q, NEW com, NEW got, NEW gone, NEW cur,
           PartsOK(c, w, q, com, got, gone, "none", cur), c.reading, NEW k \in 1..Len(w),
           NEW d, d = [c EXCEPT !.m_input = @ \o SubSeq(w, 1, k), !.reading = FALSE]
    PROVE  /\ PartsOK(d, SubSeq(w, k + 1, Len(w)), q, com, got, gone, "process", cur)
           /\ ~d.reading /\ ~d.m_closeAfterWrite
<1> DEFINE rep == got \o c.m_output
           input == c.m_input \o SubSeq(w, 1, k)
           w2 == SubSeq(w, k + 1, Len(w))
<1>1. /\ SessionInv(c, w, q, com, rep, gone, "none", cur)
      /\ AnySeq(got) /\ AnySeq(c.m_output) /\ AnySeq(rep)
      /\ Len(rep) \in Nat /\ Len(q) \in Nat /\ Len(com) \in Nat
      /\ SessionType(c) /\ w \in Seq(Requests) /\ q \in Seq(Requests) /\ com \in Seq(Nat)
      /\ LifeInv(c, q, com, rep, gone, "none")
      /\ c.status = "open" /\ Framed(c.m_input, w, q, Len(com))
      /\ CountInv(c, q, com, rep, "none") /\ EndInv(c, q, com, rep, "none")
      /\ RepliesInv(q, com, rep) /\ c.m_version = VersionOf(q, Len(com))
  BY PartsFacts
<1>2. /\ Framed(input, w2, q, Len(com)) /\ input \in Seq(Requests) /\ w2 \in Seq(Requests)
  BY <1>1, SessionFields, FramedRead
<1> HIDE DEF rep, w2
<1>3. /\ SessionType(d) /\ d.status = c.status /\ ~d.reading /\ d.writing = c.writing
      /\ d.m_input = input /\ d.m_output = c.m_output /\ d.m_version = c.m_version
      /\ d.m_closeAfterWrite = c.m_closeAfterWrite
  <2>1. d = [c EXCEPT !.m_input = input, !.reading = FALSE]
    OBVIOUS
  <2> HIDE DEF input
  <2> QED
    BY <1>1, <1>2, <2>1 DEF SessionType
<1> HIDE DEF input
<1>4. ~c.m_closeAfterWrite
  BY <1>1 DEF LifeInv
<1>5. LifeInv(d, q, com, rep, gone, "process")
  BY <1>1, <1>3 DEF LifeInv
<1>6. CountInv(d, q, com, rep, "process")
  BY <1>1, <1>3 DEF CountInv
<1>7. EndInv(d, q, com, rep, "process")
  BY <1>1, <1>3 DEF EndInv
<1>8. SessionInv(d, w2, q, com, rep, gone, "process", cur)
  BY <1>1, <1>2, <1>3, <1>5, <1>6, <1>7 DEF SessionInv
<1>9. PartsOK(d, w2, q, com, got, gone, "process", cur)
  BY <1>1, <1>3, <1>8 DEF PartsOK, rep
<1> QED
  BY <1>3, <1>4, <1>9 DEF w2

\* More input than the limit: the command in front of it is incomplete.
LEMMA LimitOK ==
    ASSUME NEW c, NEW w, NEW q, NEW com, NEW got, NEW gone, NEW cur,
           PartsOK(c, w, q, com, got, gone, "none", cur), c.reading,
           NEW k \in 1..ReadSize, k <= Len(w),
           NEW d, d = [c EXCEPT !.m_input = @ \o SubSeq(w, 1, k), !.reading = FALSE],
           OverLimit(d)
    PROVE  PartsOK(Queue(d, Answer(Len(com) + 1, "limit", Absent), TRUE),
                   SubSeq(w, k + 1, Len(w)), q, com, got, gone, "none", cur)
<1> DEFINE rep == got \o c.m_output
           input == c.m_input
           x == Answer(Len(com) + 1, "limit", Absent)
           w2 == SubSeq(w, k + 1, Len(w))
<1>1. /\ Len(q) \in Nat /\ Len(com) \in Nat
      /\ SessionType(c) /\ w \in Seq(Requests) /\ q \in Seq(Requests)
      /\ LifeInv(c, q, com, rep, gone, "none") /\ CountInv(c, q, com, rep, "none")
      /\ Framed(input, w, q, Len(com))
  BY PartsFacts
<1>2. /\ input \in Seq(Requests) /\ Len(input) \in Nat /\ Len(w) \in Nat
      /\ Len(com) <= Len(q) /\ ParseCommand(input) = "Incomplete"
  BY <1>1, SessionFields, LenProperties DEF LifeInv, CountInv
<1>3. k \in 1..Len(w)
  BY <1>2, ServerAssumption
<1>4. PartsOK(d, w2, q, com, got, gone, "process", cur) /\ ~d.reading /\ ~d.m_closeAfterWrite
  BY <1>3, ReadOK
<1>5. Len(input) + k > MaxInput
  <2>1. d.m_input = input \o SubSeq(w, 1, k)
    BY <1>1 DEF SessionType
  <2>2. Len(input \o SubSeq(w, 1, k)) = Len(input) + k
    BY <1>1, <1>2, <1>3, FramedRead
  <2> QED
    BY <2>1, <2>2 DEF OverLimit
<1>6. input # <<>> /\ Len(input) < Head(input).size
  <2>1. Len(input) > 0
    BY <1>2, <1>5, ServerAssumption
  <2>2. input # <<>>
    BY <1>2, <2>1, EmptySeq
  <2> QED
    BY <1>2, <2>2 DEF ParseCommand
<1>7. Len(com) < Len(q) /\ Head(input) = q[Len(com) + 1]
  BY <1>1, <1>2, <1>6, FramedHead
<1>8. q[Len(com) + 1].size > MaxInput - ReadSize + 1
  <2>1. q[Len(com) + 1] \in Requests
    BY <1>1, <1>7, ElementOfSeq
  <2>2. q[Len(com) + 1].size \in Nat
    BY <2>1, RequestFacts
  <2>3. \A a, b \in Nat : a + k > MaxInput /\ a < b => b > MaxInput - ReadSize + 1
    BY ServerAssumption
  <2> QED
    BY <1>2, <1>5, <1>6, <1>7, <2>2, <2>3
<1>9. x.id = Len(com) + 1 /\ x.kind = "limit"
  BY DEF Answer
<1> HIDE DEF x, w2
<1>10. PartsOK(Queue(d, x, TRUE), w2, q, com, got, gone, "none", cur)
  BY <1>4, <1>7, <1>8, <1>9, QueueLastOK
<1> QED
  BY <1>10 DEF x, w2

LEMMA ReadFailsOK ==
    ASSUME NEW c, NEW w, NEW q, NEW com, NEW got, NEW gone, NEW cur,
           PartsOK(c, w, q, com, got, gone, "none", cur), c.reading
    PROVE  PartsOK([c EXCEPT !.reading = FALSE], w, q, com, got, gone, "none", cur)
<1> DEFINE rep == got \o c.m_output
           d == [c EXCEPT !.reading = FALSE]
<1>1. /\ SessionInv(c, w, q, com, rep, gone, "none", cur)
      /\ AnySeq(got) /\ AnySeq(c.m_output)
      /\ SessionType(c) /\ LifeInv(c, q, com, rep, gone, "none")
  BY PartsFacts
<1>2. /\ SessionType(d) /\ d.status = c.status /\ ~d.reading /\ d.writing = c.writing
      /\ d.m_input = c.m_input /\ d.m_output = c.m_output /\ d.m_version = c.m_version
      /\ d.m_closeAfterWrite = c.m_closeAfterWrite
  BY <1>1 DEF SessionType
<1> HIDE DEF rep, d
<1>3. LifeInv(d, q, com, rep, gone, "none")
  BY <1>1, <1>2 DEF LifeInv
<1>4. SessionInv(d, w, q, com, rep, gone, "none", cur)
  BY <1>1, <1>2, <1>3, OperationsOnly
<1>5. PartsOK(d, w, q, com, got, gone, "none", cur)
  BY <1>1, <1>2, <1>4 DEF PartsOK, rep
<1> QED
  BY <1>5 DEF d

LEMMA WriteFailsOK ==
    ASSUME NEW c, NEW w, NEW q, NEW com, NEW got, NEW gone, NEW cur,
           PartsOK(c, w, q, com, got, gone, "none", cur), c.writing, gone
    PROVE  PartsOK([c EXCEPT !.writing = FALSE], w, q, com, got, gone, "none", cur)
<1> DEFINE rep == got \o c.m_output
           d == [c EXCEPT !.writing = FALSE]
<1>1. /\ SessionInv(c, w, q, com, rep, gone, "none", cur)
      /\ AnySeq(got) /\ AnySeq(c.m_output)
      /\ SessionType(c) /\ LifeInv(c, q, com, rep, gone, "none")
  BY PartsFacts
<1>2. /\ SessionType(d) /\ d.status = c.status /\ ~d.writing /\ d.reading = c.reading
      /\ d.m_input = c.m_input /\ d.m_output = c.m_output /\ d.m_version = c.m_version
      /\ d.m_closeAfterWrite = c.m_closeAfterWrite
  BY <1>1 DEF SessionType
<1> HIDE DEF rep, d
<1>3. LifeInv(d, q, com, rep, gone, "none")
  BY <1>1, <1>2 DEF LifeInv
<1>4. SessionInv(d, w, q, com, rep, gone, "none", cur)
  BY <1>1, <1>2, <1>3, OperationsOnly
<1>5. PartsOK(d, w, q, com, got, gone, "none", cur)
  BY <1>1, <1>2, <1>4 DEF PartsOK, rep
<1> QED
  BY <1>5 DEF d

\* Process returns: it reads again unless the connection is to be closed.
LEMMA ProcessDoneOK ==
    ASSUME NEW c, NEW w, NEW q, NEW com, NEW got, NEW gone, NEW cur,
           PartsOK(c, w, q, com, got, gone, "process", cur), LoopEnds(c)
    PROVE  PartsOK([c EXCEPT !.reading = ~c.m_closeAfterWrite], w, q, com, got, gone, "none", cur)
<1> DEFINE rep == got \o c.m_output
           b == ~c.m_closeAfterWrite
           d == [c EXCEPT !.reading = b]
<1>1. /\ SessionInv(c, w, q, com, rep, gone, "process", cur)
      /\ AnySeq(got) /\ AnySeq(c.m_output) /\ c.status = "open"
      /\ SessionType(c) /\ LifeInv(c, q, com, rep, gone, "process")
  BY PartsFacts
<1>2. b \in BOOLEAN /\ (b => ~c.m_closeAfterWrite /\ ParseCommand(c.m_input) = "Incomplete")
  BY DEF LoopEnds
<1> HIDE DEF rep, b
<1>3. /\ SessionType(d) /\ d.status = c.status /\ d.reading = b /\ d.writing = c.writing
      /\ d.m_input = c.m_input /\ d.m_output = c.m_output /\ d.m_version = c.m_version
      /\ d.m_closeAfterWrite = c.m_closeAfterWrite
  BY <1>1, <1>2 DEF SessionType
<1> HIDE DEF d
<1>4. LifeInv(d, q, com, rep, gone, "none")
  BY <1>1, <1>2, <1>3 DEF LifeInv
<1>5. SessionInv(d, w, q, com, rep, gone, "none", cur)
  BY <1>1, <1>3, <1>4, OperationsOnly
<1>6. PartsOK(d, w, q, com, got, gone, "none", cur)
  BY <1>1, <1>3, <1>5 DEF PartsOK, rep
<1> QED
  BY <1>6 DEF d, b
LEMMA ProtocolErrorOK ==
    ASSUME NEW c, NEW w, NEW q, NEW com, NEW got, NEW gone, NEW cur,
           PartsOK(c, w, q, com, got, gone, "process", cur), ~LoopEnds(c),
           ParseCommand(c.m_input) = "Error"
    PROVE  PartsOK(Queue(c, Answer(Len(com) + 1, "error", Absent), TRUE),
                   w, q, com, got, gone, "process", cur)
<1> DEFINE rep == got \o c.m_output
           x == Answer(Len(com) + 1, "error", Absent)
<1>1. /\ Len(q) \in Nat /\ Len(com) \in Nat
      /\ SessionType(c) /\ w \in Seq(Requests) /\ q \in Seq(Requests)
      /\ LifeInv(c, q, com, rep, gone, "process") /\ CountInv(c, q, com, rep, "process")
      /\ Framed(c.m_input, w, q, Len(com))
  BY PartsFacts
<1>2. c.m_input # <<>> /\ ~c.m_closeAfterWrite /\ ~c.reading
  BY <1>1 DEF ParseCommand, LoopEnds, LifeInv
<1>3. Len(com) < Len(q)
  BY <1>1, <1>2, SessionFields, FramedHead DEF CountInv
<1>4. x.id = Len(com) + 1 /\ x.kind = "error"
  BY DEF Answer
<1> HIDE DEF x
<1>5. PartsOK(Queue(c, x, TRUE), w, q, com, got, gone, "process", cur)
  BY <1>2, <1>3, <1>4, QueueLastOK
<1> QED
  BY <1>5 DEF x

\* A command is erased from the input and entered.
LEMMA StartCommandOK ==
    ASSUME NEW c, NEW w, NEW q, NEW com, NEW got, NEW gone, NEW cur,
           PartsOK(c, w, q, com, got, gone, "process", cur), ~LoopEnds(c),
           ParseCommand(c.m_input) = "Complete", NEW r, r = Head(c.m_input),
           NEW d, d = [c EXCEPT !.m_input = SubSeq(@, r.size + 1, Len(@)),
                                !.m_version = NextVersion(@, r)]
    PROVE  PartsOK(d, w, q, Append(com, 0), got, gone, "execute",
                   [command |-> r, pending |-> EventsFor(r), applied |-> 0])
<1> DEFINE rep == got \o c.m_output
           input == SubSeq(c.m_input, r.size + 1, Len(c.m_input))
           version == NextVersion(c.m_version, r)
           com2 == Append(com, 0)
           n == Len(com)
           cur2 == [command |-> r, pending |-> EventsFor(r), applied |-> 0]
<1>1. /\ SessionInv(c, w, q, com, rep, gone, "process", cur)
      /\ AnySeq(got) /\ AnySeq(c.m_output) /\ AnySeq(rep)
      /\ Len(rep) \in Nat /\ Len(q) \in Nat /\ n \in Nat
      /\ SessionType(c) /\ w \in Seq(Requests) /\ q \in Seq(Requests) /\ com \in Seq(Nat)
      /\ LifeInv(c, q, com, rep, gone, "process")
      /\ c.status = "open" /\ Framed(c.m_input, w, q, n)
      /\ CountInv(c, q, com, rep, "process") /\ EndInv(c, q, com, rep, "process")
      /\ RepliesInv(q, com, rep) /\ c.m_version = VersionOf(q, n)
  BY PartsFacts
<1> HIDE DEF rep
<1>2. /\ c.m_input # <<>> /\ Len(c.m_input) >= r.size /\ r.name # "malformed"
      /\ ~c.m_closeAfterWrite /\ n <= Len(q) /\ c.m_input \in Seq(Requests)
      /\ Len(rep) = n
  <2>1. c.m_input # <<>> /\ ~(Len(c.m_input) < r.size) /\ r.name # "malformed"
    BY DEF ParseCommand
  <2>2. r \in Requests /\ c.m_input \in Seq(Requests) /\ Len(c.m_input) \in Nat
    BY <1>1, <2>1, SessionFields, LenProperties, HeadTailProperties
  <2>3. r.size \in Nat
    BY <2>2, RequestFacts
  <2> QED
    BY <1>1, <2>1, <2>2, <2>3 DEF LoopEnds, CountInv
<1>3. n < Len(q) /\ r = q[n + 1] /\ r \in Requests
  <2>1. n < Len(q) /\ r = q[n + 1]
    BY <1>1, <1>2, FramedHead
  <2> QED
    BY <1>1, <2>1, ElementOfSeq
<1>4. Framed(input, w, q, n + 1) /\ input \in Seq(Requests)
  BY <1>1, <1>2, FramedErase
<1>5. version = VersionOf(q, n + 1) /\ version \in {"2", "3"}
  <2>1. version = VersionOf(q, n + 1)
    BY <1>1, <1>3, VersionStep
  <2> QED
    BY <1>1, <2>1, SessionFields DEF NextVersion
<1>6. /\ SessionType(d) /\ d.status = c.status /\ d.reading = c.reading /\ d.writing = c.writing
      /\ d.m_input = input /\ d.m_output = c.m_output /\ d.m_version = version
      /\ d.m_closeAfterWrite = c.m_closeAfterWrite
  <2>1. d = [c EXCEPT !.m_input = input, !.m_version = version]
    OBVIOUS
  <2> HIDE DEF input, version
  <2> QED
    BY <1>1, <1>4, <1>5, <2>1 DEF SessionType
<1>7. /\ com2 \in Seq(Nat) /\ Len(com2) = n + 1 /\ com2[n + 1] = 0
      /\ \A i \in 1..n : com2[i] = com[i]
  <2>1. 0 \in Nat
    OBVIOUS
  <2> QED
    BY <1>1, <2>1, AppendProperties
<1>8. CurrentOK(cur2, q[n + 1], com2[n + 1])
  <2>1. CurrentOK(cur2, r, 0)
    BY <1>3, EventsForFacts
  <2> HIDE DEF cur2, com2
  <2> QED
    BY <1>3, <1>7, <2>1
<1> HIDE DEF input, version, com2, cur2, n
<1>9. LifeInv(d, q, com2, rep, gone, "execute")
  BY <1>1, <1>6 DEF LifeInv
<1>10. CountInv(d, q, com2, rep, "execute")
  BY <1>1, <1>2, <1>3, <1>6, <1>7 DEF CountInv
<1>11. EndInv(d, q, com2, rep, "execute")
  <2> SUFFICES ASSUME NEW i \in 1..(n + 1)
               PROVE  q[i].name # "malformed" /\ (Closes(q[i]) => i = n + 1)
    BY <1>1, <1>2, <1>7 DEF EndInv
  <2>1. CASE i = n + 1
    BY <1>2, <1>3, <2>1
  <2>2. CASE i # n + 1
    <3>1. i \in 1..Len(com)
      BY <1>1, <2>2 DEF n
    <3> QED
      BY <1>1, <1>2, <3>1 DEF EndInv
  <2> QED
    BY <2>1, <2>2
<1>12. RepliesInv(q, com2, rep)
  <2>1. \A i \in 1..Len(rep) : i \in 1..n /\ i <= Len(com) /\ com2[i] = com[i]
    BY <1>1, <1>2, <1>7 DEF n
  <2> QED
    BY <1>1, <2>1 DEF RepliesInv
<1>13. SessionInv(d, w, q, com2, rep, gone, "execute", cur2)
  BY <1>1, <1>4, <1>5, <1>6, <1>7, <1>8, <1>9, <1>10, <1>11, <1>12 DEF SessionInv
<1>14. PartsOK(d, w, q, com2, got, gone, "execute", cur2)
  BY <1>1, <1>6, <1>13 DEF PartsOK, rep
<1> QED
  BY <1>14 DEF com2, cur2
\* The command in execution commits its next event, m = 1, or finds that it
\* does not apply, m = 0.
LEMMA CurrentStep ==
    ASSUME NEW cur, NEW r, NEW done \in Nat, CurrentOK(cur, r, done), cur.pending # <<>>,
           NEW m \in {0, 1}, Head(cur.pending).type = CREATE => m = 1
    PROVE  CurrentOK([cur EXCEPT !.pending = Tail(@), !.applied = @ + m], r, done + m)
<1> DEFINE p == cur.pending
           t == Tail(p)
           a == cur.applied + m
           cur2 == [cur EXCEPT !.pending = t, !.applied = a]
<1>1. /\ cur \in [command : Requests, pending : Seq(Event), applied : Nat]
      /\ p \in Seq(Event) /\ cur.applied = done /\ cur.command = r
      /\ \A i \in 1..Len(p) : WellFormed(p[i])
  BY DEF CurrentOK
<1>2. /\ t \in Seq(Event) /\ Len(t) = Len(p) - 1 /\ Len(p) \in Nat /\ Len(p) > 0
      /\ \A i \in 1..Len(t) : t[i] = p[i + 1]
      /\ Head(p) = p[1]
  <2>1. p \in Seq(Event) /\ p # <<>>
    BY <1>1
  <2> HIDE DEF p
  <2>2. Len(p) \in Nat /\ Len(p) # 0
    BY <2>1, LenProperties, EmptySeq
  <2> QED
    BY <2>1, <2>2, HeadTailProperties
<1>3. a = done + m /\ a \in Nat
  BY <1>1
<1>4. p # <<>>
  OBVIOUS
<1>5. \A i \in 1..Len(t) : WellFormed(t[i])
  <2> HIDE DEF p, t
  <2> QED
    BY <1>1, <1>2
<1>6. t = <<>> <=> Len(p) = 1
  <2> HIDE DEF p, t
  <2>1. t = <<>> <=> Len(t) = 0
    BY <1>2, EmptySeq
  <2> QED
    BY <1>2, <2>1
<1>7. /\ Accepted(r) /\ r.name \in {"SET", "RENAME", "DEL", "FLUSHDB"}
      /\ r.name \in {"SET", "RENAME"} => Len(p) = 1 /\ done = 0
      /\ r.name = "SET" => m = 1
  BY <1>2 DEF CurrentOK
<1>8. /\ cur2 \in [command : Requests, pending : Seq(Event), applied : Nat]
      /\ cur2.command = r /\ cur2.pending = t /\ cur2.applied = a
  <2> HIDE DEF p, t, a
  <2> QED
    BY <1>1, <1>2, <1>3
<1> HIDE DEF cur2, p, t, a
<1>9. CurrentOK(cur2, r, done + m)
  BY <1>3, <1>5, <1>6, <1>7, <1>8 DEF CurrentOK
<1> QED
  BY <1>9 DEF cur2, t, a, p

LEMMA CommitOK ==
    ASSUME NEW c, NEW w, NEW q, NEW com, NEW got, NEW gone, NEW cur,
           PartsOK(c, w, q, com, got, gone, "execute", cur), cur.pending # <<>>,
           NEW m \in {0, 1}, Head(cur.pending).type = CREATE => m = 1
    PROVE  PartsOK(c, w, q, [com EXCEPT ![Len(com)] = @ + m], got, gone, "execute",
                   [cur EXCEPT !.pending = Tail(@), !.applied = @ + m])
<1> DEFINE rep == got \o c.m_output
           n == Len(com)
           com2 == [com EXCEPT ![n] = @ + m]
           cur2 == [cur EXCEPT !.pending = Tail(@), !.applied = @ + m]
<1>1. /\ SessionInv(c, w, q, com, rep, gone, "execute", cur)
      /\ AnySeq(got) /\ AnySeq(c.m_output) /\ AnySeq(rep)
      /\ Len(rep) \in Nat /\ Len(q) \in Nat /\ n \in Nat
      /\ SessionType(c) /\ w \in Seq(Requests) /\ q \in Seq(Requests) /\ com \in Seq(Nat)
      /\ LifeInv(c, q, com, rep, gone, "execute")
      /\ c.status = "open" /\ Framed(c.m_input, w, q, n)
      /\ CountInv(c, q, com, rep, "execute") /\ EndInv(c, q, com, rep, "execute")
      /\ RepliesInv(q, com, rep) /\ c.m_version = VersionOf(q, n)
  BY PartsFacts
<1> HIDE DEF rep
<1>2. n = Len(rep) + 1 /\ n \in 1..n /\ CurrentOK(cur, q[n], com[n])
  BY <1>1 DEF CountInv, SessionInv
<1>3. com[n] \in Nat
  BY <1>1, <1>2, ElementOfSeq
<1>4. /\ com2 \in Seq(Nat) /\ Len(com2) = n /\ com2[n] = com[n] + m
      /\ \A i \in 1..n : i # n => com2[i] = com[i]
  <2> DEFINE e == com[n] + m
  <2>1. e \in Nat
    BY <1>3
  <2>2. com2 = [com EXCEPT ![n] = e]
    OBVIOUS
  <2> HIDE DEF com2, e
  <2>3. /\ [com EXCEPT ![n] = e] \in Seq(Nat) /\ Len([com EXCEPT ![n] = e]) = Len(com)
        /\ \A j \in 1..Len(com) : [com EXCEPT ![n] = e][j] = IF j = n THEN e ELSE com[j]
    BY <1>1, <1>2, <2>1, ExceptSeq
  <2> QED
    BY <1>2, <2>2, <2>3 DEF e
<1>5. CurrentOK(cur2, q[n], com2[n])
  <2>1. CurrentOK(cur2, q[n], com[n] + m)
    BY <1>2, <1>3, CurrentStep
  <2> HIDE DEF cur2, com2
  <2> QED
    BY <1>4, <2>1
<1> HIDE DEF com2, cur2, n
<1>6. LifeInv(c, q, com2, rep, gone, "execute")
  BY <1>1 DEF LifeInv
<1>7. CountInv(c, q, com2, rep, "execute")
  BY <1>1, <1>4 DEF CountInv, n
<1>8. EndInv(c, q, com2, rep, "execute")
  BY <1>1, <1>4 DEF EndInv, n
<1>9. RepliesInv(q, com2, rep)
  <2>1. \A i \in 1..Len(rep) : i \in 1..n /\ i # n /\ i <= n
    BY <1>1, <1>2
  <2>2. \A i \in 1..Len(rep) : i <= Len(com) /\ com2[i] = com[i]
    BY <1>4, <2>1 DEF n
  <2> QED
    BY <1>1, <2>2 DEF RepliesInv
<1>10. SessionInv(c, w, q, com2, rep, gone, "execute", cur2)
  BY <1>1, <1>4, <1>5, <1>6, <1>7, <1>8, <1>9 DEF SessionInv
<1>11. PartsOK(c, w, q, com2, got, gone, "execute", cur2)
  BY <1>1, <1>10 DEF PartsOK, rep
<1> QED
  BY <1>11 DEF com2, cur2, n

\* The command has returned its response.
LEMMA FinishOK ==
    ASSUME NEW c, NEW w, NEW q, NEW com, NEW got, NEW gone, NEW cur,
           PartsOK(c, w, q, com, got, gone, "execute", cur), cur.pending = <<>>,
           NEW store, NEW cur2
    PROVE  PartsOK(Queue(c, Reply(cur.command, cur.applied, store, c.m_version, Len(com)),
                         Closes(cur.command)),
                   w, q, com, got, gone, "process", cur2)
<1> DEFINE rep == got \o c.m_output
           n == Len(com)
           x == Reply(cur.command, cur.applied, store, c.m_version, n)
           close == Closes(cur.command)
           rep2 == Append(rep, x)
           d == Queue(c, x, close)
<1>1. /\ SessionInv(c, w, q, com, rep, gone, "execute", cur)
      /\ AnySeq(got) /\ AnySeq(c.m_output) /\ AnySeq(rep)
      /\ Len(rep) \in Nat /\ Len(q) \in Nat /\ n \in Nat
      /\ SessionType(c) /\ w \in Seq(Requests) /\ q \in Seq(Requests) /\ com \in Seq(Nat)
      /\ LifeInv(c, q, com, rep, gone, "execute")
      /\ c.status = "open" /\ Framed(c.m_input, w, q, n)
      /\ CountInv(c, q, com, rep, "execute") /\ EndInv(c, q, com, rep, "execute")
      /\ RepliesInv(q, com, rep) /\ c.m_version = VersionOf(q, n)
  BY PartsFacts
<1>2. /\ n = Len(rep) + 1 /\ n \in 1..n /\ CurrentOK(cur, q[n], com[n]) /\ ~c.m_closeAfterWrite
  BY <1>1 DEF CountInv, SessionInv
<1>3. com[n] \in Nat /\ cur.command = q[n] /\ cur.applied = com[n]
  BY <1>1, <1>2, ElementOfSeq DEF CurrentOK
<1>4. /\ x.id = n /\ x.kind # "limit"
      /\ x.kind \in {"null", "hello"} => x.value = VersionOf(q, n)
      /\ Matches(q[n], x, com[n])
  BY <1>1, <1>2, <1>3, ReplyFacts
<1>5. close \in BOOLEAN /\ (close <=> Closes(q[n]))
  BY <1>3 DEF Closes
<1> HIDE DEF x, close, rep, n
<1>6. Queued(d, c, got, x, close)
  BY <1>1, <1>5, QueueFields
<1> HIDE DEF d
<1>7. /\ SessionType(d) /\ d.status = c.status /\ d.reading = c.reading
      /\ d.writing = (c.writing \/ c.m_output = <<>>)
      /\ d.m_input = c.m_input /\ d.m_version = c.m_version
      /\ d.m_closeAfterWrite = close
      /\ AnySeq(d.m_output) /\ d.m_output # <<>> /\ got \o d.m_output = rep2
  BY <1>2, <1>5, <1>6 DEF Queued, rep
<1>8. /\ Len(rep2) = n /\ \A i \in 1..Len(rep) : rep2[i] = rep[i]
      /\ rep2[n] = x
  BY <1>1, <1>2, AnySeqAppend
<1> HIDE DEF rep2
<1>9. LifeInv(d, q, com, rep2, gone, "process")
  BY <1>1, <1>7 DEF LifeInv
<1>10. CountInv(d, q, com, rep2, "process")
  BY <1>1, <1>8 DEF CountInv, n
<1>11. EndInv(d, q, com, rep2, "process")
  BY <1>1, <1>5, <1>7, <1>8 DEF EndInv, n
<1>12. RepliesInv(q, com, rep2)
  <2> SUFFICES ASSUME NEW i \in 1..Len(rep2)
               PROVE  /\ rep2[i].id = i
                      /\ rep2[i].kind = "limit" => q[i].size > MaxInput - ReadSize + 1
                      /\ rep2[i].kind \in {"null", "hello"} => rep2[i].value = VersionOf(q, i)
                      /\ i <= Len(com) => Matches(q[i], rep2[i], com[i])
    BY DEF RepliesInv
  <2>1. CASE i = n
    BY <1>4, <1>8, <2>1
  <2>2. CASE i # n
    <3>1. i \in 1..Len(rep) /\ rep2[i] = rep[i]
      BY <1>1, <1>2, <1>8, <2>2
    <3> QED
      BY <1>1, <3>1 DEF RepliesInv
  <2> QED
    BY <2>1, <2>2
<1>13. SessionInv(d, w, q, com, rep2, gone, "process", cur2)
  BY <1>1, <1>7, <1>9, <1>10, <1>11, <1>12 DEF SessionInv, n
<1>14. PartsOK(d, w, q, com, got, gone, "process", cur2)
  BY <1>1, <1>7, <1>13 DEF PartsOK
<1> QED
  BY <1>14 DEF d, x, close, n

\* The response in front has been written.
LEMMA WriteOK ==
    ASSUME NEW c, NEW w, NEW q, NEW com, NEW got, NEW gone, NEW cur,
           PartsOK(c, w, q, com, got, gone, "none", cur), c.writing
    PROVE  LET got2 == Append(got, Head(c.m_output))
           IN  PartsOK(IF Len(c.m_output) > 1 THEN [c EXCEPT !.m_output = Tail(@)]
                       ELSE IF c.m_closeAfterWrite THEN Closed(c)
                       ELSE Released([c EXCEPT !.writing = FALSE, !.m_output = <<>>]),
                       w, q, com, got2, gone, "none", cur)
<1> DEFINE rep == got \o c.m_output
           out == c.m_output
           got2 == Append(got, Head(out))
<1>1. /\ SessionInv(c, w, q, com, rep, gone, "none", cur)
      /\ AnySeq(got) /\ AnySeq(out)
      /\ SessionType(c) /\ LifeInv(c, q, com, rep, gone, "none") /\ c.status = "open"
  BY PartsFacts
<1>2. out # <<>>
  BY <1>1 DEF LifeInv
<1>3. /\ AnySeq(got2) /\ AnySeq(Tail(out)) /\ got2 \o Tail(out) = rep
      /\ Len(out) > 1 <=> Tail(out) # <<>>
  BY <1>1, <1>2, RepliesWritten
<1>n. AnySeq(<<>>)
  <2>1. <<>> \in Seq({})
    OBVIOUS
  <2> QED
    BY <2>1 DEF AnySeq
<1> HIDE DEF rep, got2
\* The queue without the response, the write finished or continued.
<1>4. ASSUME NEW writing \in BOOLEAN, writing => Tail(out) # <<>>,
             ~gone /\ Tail(out) # <<>> => writing,
             NEW t, t = Tail(out)
      PROVE  PartsOK([c EXCEPT !.writing = writing, !.m_output = t],
                     w, q, com, got2, gone, "none", cur)
  <2> DEFINE d == [c EXCEPT !.writing = writing, !.m_output = t]
  <2>1. /\ SessionType(d) /\ d.status = c.status /\ d.reading = c.reading
        /\ d.writing = writing /\ d.m_input = c.m_input /\ d.m_output = t
        /\ d.m_version = c.m_version /\ d.m_closeAfterWrite = c.m_closeAfterWrite
    BY <1>1 DEF SessionType
  <2> HIDE DEF d
  <2>2. LifeInv(d, q, com, rep, gone, "none")
    BY <1>1, <1>4, <2>1 DEF LifeInv
  <2>3. SessionInv(d, w, q, com, rep, gone, "none", cur)
    BY <1>1, <2>1, <2>2, OperationsOnly
  <2>4. PartsOK(d, w, q, com, got2, gone, "none", cur)
    BY <1>1, <1>3, <1>4, <2>1, <2>3 DEF PartsOK
  <2> QED
    BY <2>4 DEF d
<1>5. CASE Len(out) > 1
  <2> DEFINE t == Tail(out)
  <2>1. [c EXCEPT !.m_output = Tail(@)] = [c EXCEPT !.writing = TRUE, !.m_output = t]
    <3>1. c.writing = TRUE
      BY <1>1 DEF SessionType
    <3> HIDE DEF t
    <3>2. [c EXCEPT !.m_output = t] = [c EXCEPT !.writing = TRUE, !.m_output = t]
      BY <1>1, <3>1 DEF SessionType
    <3> QED
      BY <3>2 DEF t
  <2>2. PartsOK([c EXCEPT !.writing = TRUE, !.m_output = t], w, q, com, got2, gone, "none", cur)
    BY <1>3, <1>4, <1>5
  <2> QED
    BY <1>5, <2>1, <2>2 DEF got2
<1>6. CASE ~(Len(out) > 1)
  <2>1. Tail(out) = <<>>
    BY <1>3, <1>6
  <2>2. PartsOK([c EXCEPT !.writing = FALSE, !.m_output = <<>>], w, q, com, got2, gone, "none", cur)
    BY <1>4, <2>1
  <2>3. PartsOK(Released([c EXCEPT !.writing = FALSE, !.m_output = <<>>]),
                w, q, com, got2, gone, "none", cur)
    BY <2>2, ReleasedOK
  <2>4. Closed(c) = Closed([c EXCEPT !.writing = FALSE, !.m_output = <<>>])
    BY <1>1 DEF Closed, SessionType
  <2>5. PartsOK(Closed(c), w, q, com, got2, gone, "none", cur)
    BY <2>2, <2>4, ClosedOK
  <2> QED
    BY <1>6, <2>3, <2>5 DEF got2
<1> QED
  BY <1>5, <1>6
-----------------------------------------------------------------------------
(* Steps of the server. *)

SameSession(u) ==
    /\ session'[u] = session[u] /\ net'[u] = net[u] /\ hungup'[u] = hungup[u]
    /\ sent'[u] = sent[u] /\ received'[u] = received[u] /\ commits'[u] = commits[u]

LEMMA OtherSessionOK ==
    ASSUME NEW u \in Sessions, SessionOK(u), SameSession(u), Busy(u)' = Busy(u),
           Busy(u) # "execute" \/ current' = current
    PROVE  SessionOK(u)'
<1>1. PartsOK(session[u], net[u], sent[u], commits[u], received[u], hungup[u], Busy(u), current')
  <2>1. PartsOK(session[u], net[u], sent[u], commits[u], received[u], hungup[u], Busy(u), current)
    BY DEF SessionOK
  <2> QED
    BY <2>1, IdleOK
<1> QED
  BY <1>1 DEF SessionOK, SameSession

\* A step of one session, and of the loop on its behalf.
LEMMA StepOfSession ==
    ASSUME ServerInv, NEW s \in Sessions, LoopInv', SessionOK(s)',
           \A u \in Sessions : u # s => SameSession(u),
           \/ handler \in {s, NoSession} /\ handler' \in {s, NoSession}
           \/ handler' = handler /\ current' = current
    PROVE  ServerInv'
<1>1. ASSUME NEW u \in Sessions, u # s PROVE SessionOK(u)'
  <2>1. SessionOK(u) /\ SameSession(u) /\ u # NoSession
    BY <1>1, ServerAssumption DEF ServerInv
  <2>2. Busy(u)' = Busy(u) /\ (Busy(u) # "execute" \/ current' = current)
    BY <1>1, <2>1 DEF Busy
  <2> QED
    BY <2>1, <2>2, OtherSessionOK
<1> QED
  BY <1>1 DEF ServerInv

\* Only the loop moves.
LEMMA StepOfLoop ==
    ASSUME ServerInv, LoopInv', handler' = handler, current' = current,
           \A u \in Sessions : SameSession(u)
    PROVE  ServerInv'
<1>1. ASSUME NEW u \in Sessions PROVE SessionOK(u)'
  <2>1. SessionOK(u) /\ SameSession(u)
    BY DEF ServerInv
  <2>2. Busy(u)' = Busy(u)
    BY DEF Busy
  <2> QED
    BY <2>1, <2>2, OtherSessionOK
<1> QED
  BY <1>1 DEF ServerInv

LEMMA InitStep == Init => ServerInv
<1> SUFFICES ASSUME Init PROVE ServerInv
  OBVIOUS
<1>1. LoopInv
  <2>1. EmptyStore(NoExpiry) \in Store
    BY EmptyStoreType DEF NoExpiry
  <2> QED
    BY <2>1, EmptyEventsMapType DEF Init, LoopInv
<1>2. ASSUME NEW s \in Sessions PROVE SessionOK(s)
  <2> DEFINE c == session[s]
  <2>1. /\ c = [status |-> "new", reading |-> FALSE, writing |-> FALSE, m_input |-> <<>>,
                m_output |-> <<>>, m_version |-> "2", m_closeAfterWrite |-> FALSE]
        /\ net[s] = <<>> /\ sent[s] = <<>> /\ commits[s] = <<>> /\ received[s] = <<>>
        /\ handler # s
    BY ServerAssumption DEF Init
  <2>2. /\ c.status = "new" /\ ~c.reading /\ ~c.writing /\ c.m_input = <<>>
        /\ c.m_output = <<>> /\ c.m_version = "2" /\ ~c.m_closeAfterWrite
    BY <2>1
  <2>3. SessionType(c)
    <3>1. <<>> \in Seq(Requests)
      OBVIOUS
    <3> QED
      BY <2>1, <3>1 DEF SessionType
  <2> HIDE DEF c
  <2>4. AnySeq(<<>>) /\ <<>> \o <<>> = <<>>
    <3>1. <<>> \in Seq({})
      OBVIOUS
    <3> QED
      BY <3>1 DEF AnySeq
  <2>5. Busy(s) = "none"
    BY <2>1 DEF Busy
  <2>6. LifeInv(c, <<>>, <<>>, <<>>, hungup[s], "none")
    BY <2>2 DEF LifeInv
  <2>7. CountInv(c, <<>>, <<>>, <<>>, "none") /\ EndInv(c, <<>>, <<>>, <<>>, "none")
    BY <2>2 DEF CountInv, EndInv
  <2>8. RepliesInv(<<>>, <<>>, <<>>)
    BY DEF RepliesInv
  <2>9. c.m_version = VersionOf(<<>>, Len(<<>>))
    <3>1. Len(<<>>) = 0
      OBVIOUS
    <3> QED
      BY <2>2, <3>1, VersionStart
  <2>10. <<>> \in Seq(Requests) /\ <<>> \in Seq(Nat)
    OBVIOUS
  <2>11. SessionInv(c, <<>>, <<>>, <<>>, <<>>, hungup[s], "none", current)
    BY <2>2, <2>3, <2>6, <2>7, <2>8, <2>9, <2>10 DEF SessionInv
  <2>12. PartsOK(c, <<>>, <<>>, <<>>, <<>>, hungup[s], "none", current)
    BY <2>2, <2>4, <2>11 DEF PartsOK
  <2> QED
    BY <2>1, <2>5, <2>12 DEF SessionOK, c
<1> QED
  BY <1>1, <1>2 DEF ServerInv

\* The store that a compacted log gives.
LEMMA RewrittenStoreType ==
    ASSUME NEW m \in EventsMap, SurvivorsOK(m)
    PROVE  /\ RewrittenStore(m) \in Store
           /\ RewrittenStore(m).m_ttl = NoExpiry
           /\ RewrittenStore(m).m_ttlData = [k \in Keys |-> Absent]
           /\ RewrittenStore(m).m_data =
                  [k \in Keys |-> IF m[k] = Absent THEN Absent ELSE m[k].payload]
<1>1. EmptyStore(NoExpiry) \in Store
  BY EmptyStoreType DEF NoExpiry
<1>2. \A k \in Keys : m[k] # Absent => m[k].payload \in Values
  BY DEF SurvivorsOK, WellFormed, Event
<1>3. [k \in Keys |-> IF m[k] = Absent THEN Absent ELSE m[k].payload] \in DataMap
  BY <1>2 DEF DataMap
<1> QED
  BY <1>1, <1>3 DEF RewrittenStore, Store, EmptyStore

\* The process ends: what it knew of its connections is gone.
LEMMA GoneStep ==
    ASSUME ServerInv, NEW lost, ProcessGone(lost),
           logged' \in Store, survivors' = survivors
    PROVE  ServerInv'
<1>1. LoopInv'
  <2>1. EmptyStore(NoExpiry) \in Store
    BY EmptyStoreType DEF NoExpiry
  <2> QED
    BY <2>1 DEF ServerInv, LoopInv, ProcessGone, historyVars
<1>2. ASSUME NEW u \in Sessions PROVE SessionOK(u)'
  <2>1. /\ net'[u] = net[u] /\ hungup'[u] = hungup[u] /\ sent'[u] = sent[u]
        /\ received'[u] = received[u] /\ commits'[u] = commits[u]
        /\ handler' # u
        /\ session'[u] = IF session[u].status = "open" \/ u \in lost
                         THEN Closed(session[u]) ELSE session[u]
    BY ServerAssumption DEF ProcessGone, historyVars
  <2>2. Busy(u)' = "none"
    BY <2>1 DEF Busy
  <2>3. PartsOK(session[u], net[u], sent[u], commits[u], received[u], hungup[u], Busy(u), current)
    BY DEF ServerInv, SessionOK
  <2>4. PartsOK(session'[u], net[u], sent[u], commits[u], received[u], hungup[u], "none", current')
    <3>1. CASE session[u].status = "open" \/ u \in lost
      BY <2>1, <2>3, <3>1, ClosedOK
    <3>2. CASE ~(session[u].status = "open" \/ u \in lost)
      <4>1. Busy(u) = "none"
        BY <2>3, <3>2, PartsFacts
      <4> QED
        BY <2>1, <2>3, <3>2, <4>1, IdleOK
    <3> QED
      BY <3>1, <3>2
  <2> QED
    BY <2>1, <2>2, <2>4 DEF SessionOK
<1> QED
  BY <1>1, <1>2 DEF ServerInv
LEMMA ProcessStep ==
    ASSUME ServerInv
    PROVE  /\ Start => ServerInv'
           /\ Signal => ServerInv'
           /\ Exit \/ Crash => ServerInv'
           /\ UNCHANGED vars => ServerInv'
<1>1. ASSUME Start PROVE ServerInv'
  <2>1. LoopInv'
    <3>1. EmptyStore(NoExpiry) \in Store /\ logged \in Store
      BY EmptyStoreType DEF NoExpiry, ServerInv, LoopInv
    <3>2. flushing' \in BOOLEAN
      BY <1>1 DEF Start, ParseOptions
    <3> QED
      BY <1>1, <3>1, <3>2 DEF Start, ServerInv, LoopInv, historyVars, logVars
  <2>2. handler' = handler /\ current' = current /\ \A u \in Sessions : SameSession(u)
    BY <1>1 DEF Start, historyVars, SameSession
  <2> QED
    BY <2>1, <2>2, StepOfLoop
<1>2. ASSUME Signal PROVE ServerInv'
  <2>1. LoopInv'
    BY <1>2 DEF Signal, LoopIdle, ServerInv, LoopInv, historyVars, dbVars, logVars
  <2>2. handler' = handler /\ current' = current /\ \A u \in Sessions : SameSession(u)
    BY <1>2 DEF Signal, historyVars, SameSession
  <2> QED
    BY <2>1, <2>2, StepOfLoop
<1>3. ASSUME Exit \/ Crash PROVE ServerInv'
  <2>1. ProcessGone({}) /\ survivors' = survivors
    BY <1>3 DEF Exit, Crash, logVars
  <2>2. logged' = logged \/ logged' = RewrittenStore(survivors)
    BY <1>3 DEF Exit, Crash, logVars
  <2>3. logged' \in Store
    BY <2>2, RewrittenStoreType DEF ServerInv, LoopInv
  <2> QED
    BY <2>1, <2>3, GoneStep
<1>4. ASSUME UNCHANGED vars PROVE ServerInv'
  <2>1. LoopInv'
    BY <1>4 DEF ServerInv, LoopInv, vars, historyVars, dbVars, logVars
  <2>2. handler' = handler /\ current' = current /\ \A u \in Sessions : SameSession(u)
    BY <1>4 DEF vars, historyVars, SameSession
  <2> QED
    BY <2>1, <2>2, StepOfLoop
<1> QED
  BY <1>1, <1>2, <1>3, <1>4

LEMMA ClientStep ==
    ASSUME ServerInv, NEW s \in Sessions
    PROVE  /\ Connect(s) => ServerInv'
           /\ StartThrows(s) => ServerInv'
           /\ \A r \in Requests : Send(s, r) => ServerInv'
           /\ Hangup(s) => ServerInv'
<1>0. /\ LoopInv /\ s # NoSession
      /\ PartsOK(session[s], net[s], sent[s], commits[s], received[s], hungup[s], Busy(s), current)
  BY ServerAssumption DEF ServerInv, SessionOK
<1>d. /\ DOMAIN session = Sessions /\ DOMAIN net = Sessions /\ DOMAIN hungup = Sessions
      /\ DOMAIN sent = Sessions /\ DOMAIN received = Sessions /\ DOMAIN commits = Sessions
  BY <1>0 DEF LoopInv
<1>1. ASSUME Connect(s) PROVE ServerInv'
  <2>1. LoopInv'
    BY <1>0, <1>1 DEF Connect, LoopIdle, LoopInv, dbVars, logVars
  <2>2. /\ Busy(s) = "none" /\ Busy(s)' = "none" /\ current' = current
        /\ handler = NoSession /\ handler' = NoSession
    BY <1>0, <1>1 DEF Connect, LoopIdle, Busy
  <2>3. /\ net'[s] = net[s] /\ hungup'[s] = hungup[s] /\ sent'[s] = sent[s]
        /\ received'[s] = received[s] /\ commits'[s] = commits[s]
        /\ session[s].status = "new"
        /\ session'[s] = [session[s] EXCEPT !.status = "open", !.reading = TRUE]
    BY <1>1, <1>d DEF Connect
  <2>4. SessionOK(s)'
    <3>1. PartsOK([session[s] EXCEPT !.status = "open", !.reading = TRUE], net[s], sent[s],
                  commits[s], received[s], hungup[s], "none", current)
      BY <1>0, <2>2, <2>3, ConnectOK
    <3> QED
      BY <2>2, <2>3, <3>1 DEF SessionOK
  <2>5. \A u \in Sessions : u # s => SameSession(u)
    BY <1>1, <1>d DEF Connect, SameSession
  <2> QED
    BY <2>1, <2>2, <2>4, <2>5, StepOfSession
<1>2. ASSUME StartThrows(s) PROVE ServerInv'
  BY <1>0, <1>2, GoneStep DEF StartThrows, logVars, LoopInv
<1>3. ASSUME NEW r \in Requests, Send(s, r) PROVE ServerInv'
  <2>1. LoopInv'
    BY <1>0, <1>3 DEF Send, LoopInv, dbVars, logVars
  <2>2. Busy(s)' = Busy(s) /\ current' = current /\ handler' = handler
    BY <1>3 DEF Send, Busy
  <2>3. /\ session'[s] = session[s] /\ hungup'[s] = hungup[s]
        /\ received'[s] = received[s] /\ commits'[s] = commits[s]
        /\ session[s].status = "open"
        /\ net'[s] = net[s] \o EncodeCommand(r) /\ sent'[s] = Append(sent[s], r)
    BY <1>3, <1>d DEF Send
  <2>4. SessionOK(s)'
    <3>1. PartsOK(session[s], net[s] \o EncodeCommand(r), Append(sent[s], r), commits[s],
                  received[s], hungup[s], Busy(s), current)
      BY <1>0, <2>3, SendOK
    <3> QED
      BY <2>2, <2>3, <3>1 DEF SessionOK
  <2>5. \A u \in Sessions : u # s => SameSession(u)
    BY <1>3, <1>d DEF Send, SameSession
  <2> QED
    BY <2>1, <2>2, <2>4, <2>5, StepOfSession
<1>4. ASSUME Hangup(s) PROVE ServerInv'
  <2>1. LoopInv'
    BY <1>0, <1>4 DEF Hangup, LoopInv, dbVars, logVars, historyVars
  <2>2. Busy(s)' = Busy(s) /\ current' = current /\ handler' = handler
    BY <1>4 DEF Hangup, Busy
  <2>3. /\ session'[s] = session[s] /\ net'[s] = net[s] /\ sent'[s] = sent[s]
        /\ received'[s] = received[s] /\ commits'[s] = commits[s] /\ hungup'[s] = TRUE
    BY <1>4, <1>d DEF Hangup, historyVars
  <2>4. SessionOK(s)'
    <3>1. PartsOK(session[s], net[s], sent[s], commits[s], received[s], TRUE, Busy(s), current)
      BY <1>0, HangupOK
    <3> QED
      BY <2>2, <2>3, <3>1 DEF SessionOK
  <2>5. \A u \in Sessions : u # s => SameSession(u)
    BY <1>4, <1>d DEF Hangup, SameSession, historyVars
  <2> QED
    BY <2>1, <2>2, <2>4, <2>5, StepOfSession
<1> QED
  BY <1>1, <1>2, <1>3, <1>4

\* The handlers of completed reads and writes.
LEMMA CompletionStep ==
    ASSUME ServerInv, NEW s \in Sessions
    PROVE  /\ ReadDone(s) => ServerInv'
           /\ ReadFails(s) => ServerInv'
           /\ WriteDone(s) => ServerInv'
           /\ WriteFails(s) => ServerInv'
<1>0. /\ LoopInv /\ s # NoSession
      /\ PartsOK(session[s], net[s], sent[s], commits[s], received[s], hungup[s], Busy(s), current)
  BY ServerAssumption DEF ServerInv, SessionOK
<1>d. /\ DOMAIN session = Sessions /\ DOMAIN net = Sessions /\ DOMAIN hungup = Sessions
      /\ DOMAIN sent = Sessions /\ DOMAIN received = Sessions /\ DOMAIN commits = Sessions
  BY <1>0 DEF LoopInv
<1>i. LoopIdle => /\ up = "running" /\ handler = NoSession /\ current = Absent
                  /\ Busy(s) = "none"
  BY <1>0 DEF LoopIdle, Busy, LoopInv
<1>1. ASSUME ReadDone(s) PROVE ServerInv'
  <2> DEFINE d(n) == [session[s] EXCEPT !.m_input = @ \o SubSeq(net[s], 1, n), !.reading = FALSE]
             x == Answer(Len(commits[s]) + 1, "limit", Absent)
  <2>1. PICK n \in 1..ReadSize :
            /\ n <= Len(net[s])
            /\ net' = [net EXCEPT ![s] = SubSeq(@, n + 1, Len(@))]
            /\ IF OverLimit(d(n))
               THEN /\ session' = [session EXCEPT ![s] = Released(Queue(d(n), x, TRUE))]
                    /\ handler' = handler
               ELSE session' = [session EXCEPT ![s] = d(n)] /\ handler' = s
    BY <1>1 DEF ReadDone
  <2>2. /\ LoopIdle /\ session[s].reading /\ up' = up /\ flushing' = flushing
        /\ m_store' = m_store /\ logged' = logged /\ survivors' = survivors
        /\ current' = current /\ hungup' = hungup
        /\ sent' = sent /\ received' = received /\ commits' = commits /\ durable' = durable
    BY <1>1 DEF ReadDone, dbVars, logVars, historyVars
  <2> DEFINE c == d(n)
             w == SubSeq(net[s], n + 1, Len(net[s]))
  <2>3. net'[s] = w
    BY <2>1, <1>d
  <2>4. c = [session[s] EXCEPT !.m_input = @ \o SubSeq(net[s], 1, n), !.reading = FALSE]
    OBVIOUS
  <2>5. PartsOK(session[s], net[s], sent[s], commits[s], received[s], hungup[s], "none", current)
    BY <1>0, <1>i, <2>2
  <2>6. \A u \in Sessions : u # s => SameSession(u)
    <3>1. \E y : session' = [session EXCEPT ![s] = y]
      BY <2>1
    <3> HIDE DEF d, x
    <3> QED
      BY <1>d, <2>1, <2>2, <3>1 DEF SameSession
  <2>7. LoopInv'
    BY <1>0, <1>i, <2>1, <2>2 DEF LoopInv
  <2>8. n \in 1..Len(net[s])
    <3>1. net[s] \in Seq(Requests)
      BY <2>5, PartsFacts
    <3>2. Len(net[s]) \in Nat
      BY <3>1, LenProperties
    <3> QED
      BY <2>1, <3>2, ServerAssumption
  <2> HIDE DEF d, c, w, x
  <2>9. CASE OverLimit(c)
    <3>1. session'[s] = Released(Queue(c, x, TRUE)) /\ handler' = handler
      BY <1>d, <2>1, <2>9 DEF c
    <3>2. PartsOK(Queue(c, x, TRUE), w, sent[s], commits[s], received[s], hungup[s], "none", current)
      BY <2>1, <2>2, <2>4, <2>5, <2>9, LimitOK DEF x, w
    <3>3. PartsOK(Released(Queue(c, x, TRUE)), w, sent[s], commits[s], received[s], hungup[s],
                  "none", current)
      BY <3>2, ReleasedOK
    <3>4. Busy(s)' = "none"
      BY <1>0, <1>i, <2>2, <3>1 DEF Busy
    <3>5. SessionOK(s)'
      BY <2>2, <2>3, <3>1, <3>3, <3>4 DEF SessionOK
    <3> QED
      BY <1>i, <2>2, <2>6, <2>7, <3>1, <3>5, StepOfSession
  <2>10. CASE ~OverLimit(c)
    <3>1. session'[s] = c /\ handler' = s
      BY <1>d, <2>1, <2>10 DEF c
    <3>2. PartsOK(c, w, sent[s], commits[s], received[s], hungup[s], "process", current)
      BY <2>2, <2>4, <2>5, <2>8, ReadOK DEF w
    <3>3. Busy(s)' = "process"
      BY <1>i, <2>2, <3>1 DEF Busy
    <3>4. SessionOK(s)'
      BY <2>2, <2>3, <3>1, <3>2, <3>3 DEF SessionOK
    <3> QED
      BY <1>i, <2>2, <2>6, <2>7, <3>1, <3>4, StepOfSession
  <2> QED
    BY <2>9, <2>10
<1>2. ASSUME ReadFails(s) PROVE ServerInv'
  <2> DEFINE c == [session[s] EXCEPT !.reading = FALSE]
  <2>1. LoopIdle /\ session[s].reading
    BY <1>2 DEF ReadFails
  <2>2. LoopInv'
    BY <1>0, <1>2 DEF ReadFails, LoopInv, dbVars, logVars, historyVars
  <2>3. /\ Busy(s)' = "none" /\ handler' = handler /\ current' = current
    BY <1>2, <1>i, <2>1, <1>0 DEF ReadFails, Busy
  <2>4. /\ net'[s] = net[s] /\ hungup'[s] = hungup[s] /\ sent'[s] = sent[s]
        /\ received'[s] = received[s] /\ commits'[s] = commits[s]
        /\ session'[s] = Released(c)
    BY <1>2, <1>d DEF ReadFails, historyVars
  <2>5. PartsOK(c, net[s], sent[s], commits[s], received[s], hungup[s], "none", current)
    BY <1>0, <1>i, <2>1, ReadFailsOK
  <2> HIDE DEF c
  <2>6. PartsOK(Released(c), net[s], sent[s], commits[s], received[s], hungup[s], "none", current)
    BY <2>5, ReleasedOK
  <2>7. SessionOK(s)'
    BY <2>3, <2>4, <2>6 DEF SessionOK
  <2>8. \A u \in Sessions : u # s => SameSession(u)
    BY <1>2, <1>d DEF ReadFails, SameSession, historyVars
  <2> QED
    BY <2>2, <2>3, <2>7, <2>8, StepOfSession
<1>3. ASSUME WriteDone(s) PROVE ServerInv'
  <2> DEFINE c == session[s]
             d == IF Len(c.m_output) > 1 THEN [c EXCEPT !.m_output = Tail(@)]
                  ELSE IF c.m_closeAfterWrite THEN Closed(c)
                  ELSE Released([c EXCEPT !.writing = FALSE, !.m_output = <<>>])
             got == Append(received[s], Head(c.m_output))
  <2>1. LoopIdle /\ session[s].writing
    BY <1>3 DEF WriteDone
  <2>2. LoopInv'
    BY <1>0, <1>3 DEF WriteDone, LoopInv, dbVars, logVars
  <2>3. /\ Busy(s)' = "none" /\ handler' = handler /\ current' = current
    BY <1>3, <1>i, <2>1, <1>0 DEF WriteDone, Busy
  <2>4. /\ net'[s] = net[s] /\ hungup'[s] = hungup[s] /\ sent'[s] = sent[s]
        /\ received'[s] = got /\ commits'[s] = commits[s] /\ session'[s] = d
    BY <1>3, <1>d DEF WriteDone
  <2>5. PartsOK(d, net[s], sent[s], commits[s], got, hungup[s], "none", current)
    BY <1>0, <1>i, <2>1, WriteOK
  <2> HIDE DEF d, got
  <2>7. SessionOK(s)'
    BY <2>3, <2>4, <2>5 DEF SessionOK
  <2>8. \A u \in Sessions : u # s => SameSession(u)
    BY <1>3, <1>d DEF WriteDone, SameSession
  <2> QED
    BY <2>2, <2>3, <2>7, <2>8, StepOfSession
<1>4. ASSUME WriteFails(s) PROVE ServerInv'
  <2> DEFINE c == [session[s] EXCEPT !.writing = FALSE]
  <2>1. LoopIdle /\ session[s].writing /\ hungup[s]
    BY <1>4 DEF WriteFails
  <2>2. LoopInv'
    BY <1>0, <1>4 DEF WriteFails, LoopInv, dbVars, logVars, historyVars
  <2>3. /\ Busy(s)' = "none" /\ handler' = handler /\ current' = current
    BY <1>4, <1>i, <2>1, <1>0 DEF WriteFails, Busy
  <2>4. /\ net'[s] = net[s] /\ hungup'[s] = hungup[s] /\ sent'[s] = sent[s]
        /\ received'[s] = received[s] /\ commits'[s] = commits[s]
        /\ session'[s] = Released(c)
    BY <1>4, <1>d DEF WriteFails, historyVars
  <2>5. PartsOK(c, net[s], sent[s], commits[s], received[s], hungup[s], "none", current)
    BY <1>0, <1>i, <2>1, WriteFailsOK
  <2> HIDE DEF c
  <2>6. PartsOK(Released(c), net[s], sent[s], commits[s], received[s], hungup[s], "none", current)
    BY <2>5, ReleasedOK
  <2>7. SessionOK(s)'
    BY <2>3, <2>4, <2>6 DEF SessionOK
  <2>8. \A u \in Sessions : u # s => SameSession(u)
    BY <1>4, <1>d DEF WriteFails, SameSession, historyVars
  <2> QED
    BY <2>2, <2>3, <2>7, <2>8, StepOfSession
<1> QED
  BY <1>1, <1>2, <1>3, <1>4
\* The steps of Process.
LEMMA HandlerInvStep ==
    ASSUME ServerInv, NEW s \in Sessions, HandlerStep(s)
    PROVE  ServerInv'
<1>0. /\ LoopInv /\ s # NoSession
      /\ PartsOK(session[s], net[s], sent[s], commits[s], received[s], hungup[s], Busy(s), current)
  BY ServerAssumption DEF ServerInv, SessionOK
<1>d. /\ DOMAIN session = Sessions /\ DOMAIN net = Sessions /\ DOMAIN hungup = Sessions
      /\ DOMAIN sent = Sessions /\ DOMAIN received = Sessions /\ DOMAIN commits = Sessions
  BY <1>0 DEF LoopInv
<1>p. InProcess(s) => up = "running" /\ handler = s /\ current = Absent /\ Busy(s) = "process"
  BY DEF InProcess, Busy
<1>x. Executing(s) => up = "running" /\ handler = s /\ current # Absent /\ Busy(s) = "execute"
  BY DEF Executing, Busy
<1>1. CASE ProcessDone(s)
  <2> DEFINE c == [session[s] EXCEPT !.reading = ~session[s].m_closeAfterWrite]
  <2>1. InProcess(s) /\ LoopEnds(session[s])
    BY <1>1 DEF ProcessDone
  <2>2. LoopInv'
    BY <1>0, <1>1, <1>p, <2>1 DEF ProcessDone, LoopInv, dbVars, logVars, historyVars
  <2>3. Busy(s)' = "none" /\ handler' = NoSession /\ current' = current
    BY <1>0, <1>1 DEF ProcessDone, Busy
  <2>4. /\ net'[s] = net[s] /\ hungup'[s] = hungup[s] /\ sent'[s] = sent[s]
        /\ received'[s] = received[s] /\ commits'[s] = commits[s]
        /\ session'[s] = Released(c)
    BY <1>1, <1>d DEF ProcessDone, historyVars
  <2>5. PartsOK(c, net[s], sent[s], commits[s], received[s], hungup[s], "none", current)
    BY <1>0, <1>p, <2>1, ProcessDoneOK
  <2> HIDE DEF c
  <2>6. PartsOK(Released(c), net[s], sent[s], commits[s], received[s], hungup[s], "none", current)
    BY <2>5, ReleasedOK
  <2>7. SessionOK(s)'
    BY <2>3, <2>4, <2>6 DEF SessionOK
  <2>8. \A u \in Sessions : u # s => SameSession(u)
    BY <1>1, <1>d DEF ProcessDone, SameSession, historyVars
  <2> QED
    BY <1>p, <2>1, <2>2, <2>3, <2>7, <2>8, StepOfSession
<1>2. CASE ProtocolError(s)
  <2> DEFINE d == Queue(session[s], Answer(Len(commits[s]) + 1, "error", Absent), TRUE)
  <2>1. InProcess(s) /\ ~LoopEnds(session[s]) /\ ParseCommand(session[s].m_input) = "Error"
    BY <1>2 DEF ProtocolError
  <2>2. LoopInv'
    BY <1>0, <1>2 DEF ProtocolError, LoopInv, dbVars, logVars, historyVars
  <2>3. Busy(s)' = "process" /\ handler' = handler /\ current' = current
    BY <1>p, <1>2, <2>1 DEF ProtocolError, Busy
  <2>4. /\ net'[s] = net[s] /\ hungup'[s] = hungup[s] /\ sent'[s] = sent[s]
        /\ received'[s] = received[s] /\ commits'[s] = commits[s] /\ session'[s] = d
    BY <1>2, <1>d DEF ProtocolError, historyVars
  <2>5. PartsOK(d, net[s], sent[s], commits[s], received[s], hungup[s], "process", current)
    BY <1>0, <1>p, <2>1, ProtocolErrorOK
  <2> HIDE DEF d
  <2>7. SessionOK(s)'
    BY <2>3, <2>4, <2>5 DEF SessionOK
  <2>8. \A u \in Sessions : u # s => SameSession(u)
    BY <1>2, <1>d DEF ProtocolError, SameSession, historyVars
  <2> QED
    BY <2>2, <2>3, <2>7, <2>8, StepOfSession
<1>3. CASE StartCommand(s)
  <2> DEFINE r == Head(session[s].m_input)
             d == [session[s] EXCEPT !.m_input = SubSeq(@, r.size + 1, Len(@)),
                                     !.m_version = NextVersion(@, r)]
             cur == [command |-> r, pending |-> EventsFor(r), applied |-> 0]
  <2>1. InProcess(s) /\ ~LoopEnds(session[s]) /\ ParseCommand(session[s].m_input) = "Complete"
    BY <1>3 DEF StartCommand
  <2>2. /\ up' = up /\ flushing' = flushing /\ m_store' = m_store
        /\ logged' = logged /\ survivors' = survivors
        /\ handler' = handler /\ net' = net /\ hungup' = hungup /\ sent' = sent
        /\ received' = received /\ durable' = durable /\ current' = cur
        /\ commits' = [commits EXCEPT ![s] = Append(@, 0)]
        /\ session' = [session EXCEPT ![s].m_input = SubSeq(@, r.size + 1, Len(@)),
                                      ![s].m_version = NextVersion(@, r)]
    BY <1>3 DEF StartCommand, dbVars, logVars
  <2>3. /\ commits'[s] = Append(commits[s], 0) /\ session'[s] = d
        /\ DOMAIN session' = Sessions /\ DOMAIN commits' = Sessions
        /\ \A u \in Sessions : u # s => session'[u] = session[u] /\ commits'[u] = commits[u]
    BY <1>d, <2>2
  <2>4. PartsOK(d, net[s], sent[s], Append(commits[s], 0), received[s], hungup[s], "execute", cur)
    BY <1>0, <1>p, <2>1, StartCommandOK
  <2>5. cur # Absent
    <3>1. cur \in [command : Requests, pending : Seq(Event), applied : Nat]
      <4> HIDE DEF cur, d
      <4> QED
        BY <2>4 DEF PartsOK, SessionInv, CurrentOK
    <3> QED
      BY <3>1, CommandAssumption
  <2> HIDE DEF r, d, cur
  <2>6. LoopInv'
    BY <1>0, <1>p, <2>1, <2>2, <2>3 DEF LoopInv
  <2>7. Busy(s)' = "execute"
    BY <1>p, <2>1, <2>2, <2>5 DEF Busy
  <2>8. SessionOK(s)'
    BY <2>2, <2>3, <2>4, <2>7 DEF SessionOK
  <2>9. \A u \in Sessions : u # s => SameSession(u)
    BY <2>2, <2>3 DEF SameSession
  <2> QED
    BY <1>p, <2>1, <2>2, <2>6, <2>8, <2>9, StepOfSession
<1>4. CASE CommitStep(s)
  <2> DEFINE e == Head(current.pending)
             m == IF Applies(m_store, e, 0) THEN 1 ELSE 0
             n == Len(commits[s])
             cur == [current EXCEPT !.pending = Tail(@), !.applied = @ + m]
             com == [commits[s] EXCEPT ![n] = @ + m]
  <2>1. Executing(s) /\ current.pending # <<>>
    BY <1>4 DEF CommitStep
  <2>2. /\ up' = up /\ flushing' = flushing /\ handler' = handler /\ session' = session
        /\ net' = net /\ hungup' = hungup /\ sent' = sent /\ received' = received
        /\ durable' = durable /\ current' = cur
        /\ m_store' = IF m = 1 THEN ApplyEvent(m_store, e, 0) ELSE m_store
        /\ logged' = IF flushing /\ m = 1 THEN ApplyEvent(logged, e, 0) ELSE logged
        /\ survivors' = IF flushing /\ m = 1 THEN CompactEvent(survivors, e, 0) ELSE survivors
        /\ commits' = [commits EXCEPT ![s][n] = @ + m]
    BY <1>4 DEF CommitStep, Logs, logVars
  <2>3. PartsOK(session[s], net[s], sent[s], commits[s], received[s], hungup[s], "execute", current)
    BY <1>0, <1>x, <2>1
  <2>4. WellFormed(e)
    <3>1. current.pending \in Seq(Event) /\ \A i \in 1..Len(current.pending) : WellFormed(current.pending[i])
      BY <2>3 DEF PartsOK, SessionInv, CurrentOK
    <3>2. e = current.pending[1] /\ 1 \in 1..Len(current.pending)
      BY <2>1, <3>1, LenProperties, EmptySeq
    <3> QED
      BY <3>1, <3>2
  <2>5. m \in {0, 1} /\ (e.type = CREATE => m = 1)
    <3>1. e.type = CREATE => Applies(m_store, e, 0)
      <4> HIDE DEF e
      <4> QED
        BY DEF Applies, CREATE, RENAME, DELETE, CLEAR
    <3> QED
      BY <3>1
  <2>6. /\ m_store' \in Store /\ logged' \in Store
        /\ survivors' \in EventsMap /\ SurvivorsOK(survivors')
    <3>1. /\ m_store \in Store /\ logged \in Store /\ 0 \in Int
          /\ survivors \in EventsMap /\ SurvivorsOK(survivors)
      BY <1>0 DEF LoopInv
    <3>2. ApplyEvent(m_store, e, 0) \in Store /\ ApplyEvent(logged, e, 0) \in Store
      BY <2>4, <3>1, ApplyEventType
    <3>3. /\ CompactEvent(survivors, e, 0) \in EventsMap
          /\ SurvivorsOK(CompactEvent(survivors, e, 0))
      BY <2>4, <3>1, CompactEventType
    <3> HIDE DEF m, e
    <3> QED
      BY <2>2, <3>1, <3>2, <3>3
  <2> HIDE DEF m, e
  <2>7. PartsOK(session[s], net[s], sent[s], com, received[s], hungup[s], "execute", cur)
    BY <2>1, <2>3, <2>5, CommitOK DEF e
  <2>8. /\ commits'[s] = com /\ DOMAIN commits' = Sessions
        /\ \A u \in Sessions : u # s => commits'[u] = commits[u]
    BY <1>d, <2>2
  <2>9. cur # Absent
    <3>1. cur \in [command : Requests, pending : Seq(Event), applied : Nat]
      <4> HIDE DEF cur, com
      <4> QED
        BY <2>7 DEF PartsOK, SessionInv, CurrentOK
    <3> QED
      BY <3>1, CommandAssumption
  <2> HIDE DEF cur, com, n
  <2>10. LoopInv'
    BY <1>0, <1>x, <2>1, <2>2, <2>6, <2>8 DEF LoopInv
  <2>11. Busy(s)' = "execute"
    BY <1>x, <2>1, <2>2, <2>9 DEF Busy
  <2>12. SessionOK(s)'
    BY <2>2, <2>7, <2>8, <2>11 DEF SessionOK
  <2>13. \A u \in Sessions : u # s => SameSession(u)
    BY <2>2, <2>8 DEF SameSession
  <2> QED
    BY <1>x, <2>1, <2>2, <2>10, <2>12, <2>13, StepOfSession
<1>5. CASE AppendThrows(s)
  BY <1>0, <1>5, GoneStep DEF AppendThrows, logVars, LoopInv
<1>6. CASE FinishCommand(s)
  <2> DEFINE c == session[s]
             d == Queue(c, Reply(current.command, current.applied, m_store, c.m_version,
                                 Len(commits[s])), Closes(current.command))
  <2>1. Executing(s) /\ current.pending = <<>>
    BY <1>6 DEF FinishCommand
  <2>2. /\ LoopInv'
    BY <1>0, <1>6 DEF FinishCommand, LoopInv, dbVars, logVars, historyVars
  <2>3. Busy(s)' = "process" /\ handler' = handler /\ current' = Absent
    BY <1>x, <1>6, <2>1 DEF FinishCommand, Busy
  <2>4. /\ net'[s] = net[s] /\ hungup'[s] = hungup[s] /\ sent'[s] = sent[s]
        /\ received'[s] = received[s] /\ commits'[s] = commits[s] /\ session'[s] = d
    BY <1>6, <1>d DEF FinishCommand, historyVars
  <2>5. PartsOK(d, net[s], sent[s], commits[s], received[s], hungup[s], "process", current')
    BY <1>0, <1>x, <2>1, FinishOK
  <2> HIDE DEF d
  <2>6. SessionOK(s)'
    BY <2>3, <2>4, <2>5 DEF SessionOK
  <2>7. \A u \in Sessions : u # s => SameSession(u)
    BY <1>6, <1>d DEF FinishCommand, SameSession, historyVars
  <2> QED
    BY <1>x, <2>1, <2>2, <2>3, <2>6, <2>7, StepOfSession
<1> QED
  BY <1>1, <1>2, <1>3, <1>4, <1>5, <1>6 DEF HandlerStep

LEMMA ServerStep == ServerInv /\ [Next]_vars => ServerInv'
<1> SUFFICES ASSUME ServerInv, [Next]_vars PROVE ServerInv'
  OBVIOUS
<1>1. CASE Start \/ Signal \/ Exit \/ Crash
  BY <1>1, ProcessStep
<1>2. CASE StartFails \/ AcceptFails \/ UNCHANGED vars
  BY <1>2, ProcessStep DEF StartFails, AcceptFails
<1>3. ASSUME NEW s \in Sessions,
             Connect(s) \/ StartThrows(s) \/ (\E r \in Requests : Send(s, r)) \/ Hangup(s)
      PROVE  ServerInv'
  BY <1>3, ClientStep
<1>4. ASSUME NEW s \in Sessions, ReadDone(s) \/ ReadFails(s) \/ WriteDone(s) \/ WriteFails(s)
      PROVE  ServerInv'
  BY <1>4, CompletionStep
<1>5. ASSUME NEW s \in Sessions, HandlerStep(s) PROVE ServerInv'
  BY <1>5, HandlerInvStep
<1> QED
  BY <1>1, <1>2, <1>3, <1>4, <1>5 DEF Next

LEMMA ServerInvariant == Spec => []ServerInv
BY InitStep, ServerStep, PTL DEF Spec
-----------------------------------------------------------------------------
(* What the invariant says of the replies of a connection. *)

LEMMA RepliesOfSession ==
    ASSUME ServerInv, NEW s \in Sessions
    PROVE  LET rep == Replies(s)
           IN  /\ Len(rep) \in Nat /\ Len(commits[s]) \in Nat /\ Len(sent[s]) \in Nat
               /\ SessionType(session[s])
               /\ net[s] \in Seq(Requests) /\ sent[s] \in Seq(Requests) /\ commits[s] \in Seq(Nat)
               /\ LifeInv(session[s], sent[s], commits[s], rep, hungup[s], Busy(s))
               /\ CountInv(session[s], sent[s], commits[s], rep, Busy(s))
               /\ EndInv(session[s], sent[s], commits[s], rep, Busy(s))
               /\ RepliesInv(sent[s], commits[s], rep)
<1>1. PartsOK(session[s], net[s], sent[s], commits[s], received[s], hungup[s], Busy(s), current)
  BY DEF ServerInv, SessionOK
<1> QED
  BY <1>1, PartsFacts DEF Replies

\* Every variable of the server has its type, and a Session object that is
\* new or closed has no operation pending.
THEOREM ServerTypes == Spec => []TypeOK
<1>1. ServerInv => TypeOK
  <2> SUFFICES ASSUME ServerInv PROVE TypeOK
    OBVIOUS
  <2>1. ASSUME NEW s \in Sessions
        PROVE  /\ session[s].status \in {"new", "open", "closed"}
               /\ session[s].reading \in BOOLEAN
               /\ session[s].writing \in BOOLEAN
               /\ session[s].m_input \in Seq(Requests)
               /\ session[s].m_version \in {"2", "3"}
               /\ session[s].m_closeAfterWrite \in BOOLEAN
               /\ net[s] \in Seq(Requests)
               /\ sent[s] \in Seq(Requests)
               /\ commits[s] \in Seq(Nat)
               /\ session[s].status # "open" => ~session[s].reading /\ ~session[s].writing
    <3>1. /\ SessionType(session[s])
          /\ net[s] \in Seq(Requests) /\ sent[s] \in Seq(Requests) /\ commits[s] \in Seq(Nat)
          /\ LifeInv(session[s], sent[s], commits[s], Replies(s), hungup[s], Busy(s))
      BY RepliesOfSession
    <3> QED
      BY <3>1, SessionFields DEF LifeInv
  <2> QED
    BY <2>1 DEF TypeOK, ServerInv, LoopInv
<1> QED
  BY <1>1, ServerInvariant, PTL

\* The replies of a connection answer its requests one by one, in the order
\* they were sent, for every fragmentation of the input and every moment at
\* which a write completes (Process, Queue, Write).
THEOREM RepliesAreInOrder == Spec => []RepliesInOrder
<1>1. ServerInv => RepliesInOrder
  <2> SUFFICES ASSUME ServerInv, NEW s \in Sessions, NEW i \in 1..Len(Replies(s))
               PROVE  Replies(s)[i].id = i
    BY DEF RepliesInOrder
  <2>1. RepliesInv(sent[s], commits[s], Replies(s))
    BY RepliesOfSession
  <2> QED
    BY <2>1 DEF RepliesInv
<1> QED
  BY <1>1, ServerInvariant, PTL

\* Nothing is executed or answered behind a QUIT or a protocol error, however
\* much of it was pipelined (the condition of the loop of Process).
THEOREM NothingFollowsClose == Spec => []NothingAfterClose
<1>1. ServerInv => NothingAfterClose
  <2> SUFFICES ASSUME ServerInv, NEW s \in Sessions, NEW i \in 1..Len(sent[s]), Ends(sent[s][i])
               PROVE  Len(commits[s]) <= i /\ Len(Replies(s)) <= i
    BY DEF NothingAfterClose
  <2> DEFINE rep == Replies(s)
             n == Len(commits[s])
  <2>1. /\ Len(rep) \in Nat /\ n \in Nat /\ Len(sent[s]) \in Nat
        /\ CountInv(session[s], sent[s], commits[s], rep, Busy(s))
        /\ EndInv(session[s], sent[s], commits[s], rep, Busy(s))
    BY RepliesOfSession
  <2> HIDE DEF rep
  <2>2. Len(rep) <= n + 1
    BY <2>1 DEF CountInv
  <2>3. CASE i <= n
    <3>1. i \in 1..Len(commits[s])
      BY <2>1, <2>3
    <3>2. Closes(sent[s][i])
      BY <2>1, <3>1 DEF EndInv, Ends
    <3> QED
      BY <2>1, <3>1, <3>2 DEF EndInv, rep
  <2>4. CASE ~(i <= n)
    BY <2>1, <2>2, <2>4 DEF rep
  <2> QED
    BY <2>3, <2>4
<1> QED
  BY <1>1, ServerInvariant, PTL

\* A session that waits for input has no complete command in its buffer, so a
\* pipeline is always executed to its end (the loop of Process).
THEOREM NoCommandStranded == Spec => []NoStrandedCommand
<1>1. ServerInv => NoStrandedCommand
  <2> SUFFICES ASSUME ServerInv, NEW s \in Sessions, session[s].reading
               PROVE  ParseCommand(session[s].m_input) = "Incomplete"
    BY DEF NoStrandedCommand
  <2>1. LifeInv(session[s], sent[s], commits[s], Replies(s), hungup[s], Busy(s))
    BY RepliesOfSession
  <2> QED
    BY <2>1 DEF LifeInv
<1> QED
  BY <1>1, ServerInvariant, PTL

\* A queued response always has a write in flight while the client is there,
\* although Queue starts one only for an empty queue (Queue, Write).
THEOREM NoWakeupLost == Spec => []NoLostWakeup
<1>1. ServerInv => NoLostWakeup
  <2> SUFFICES ASSUME ServerInv, NEW s \in Sessions, session[s].m_output # <<>>, ~hungup[s]
               PROVE  session[s].writing
    BY DEF NoLostWakeup
  <2>1. LifeInv(session[s], sent[s], commits[s], Replies(s), hungup[s], Busy(s))
    BY RepliesOfSession
  <2> QED
    BY <2>1 DEF LifeInv
<1> QED
  BY <1>1, ServerInvariant, PTL

\* Only a request larger than MaxInput - ReadSize + 1 is ever refused for the
\* limit on buffered input, whatever is pipelined around it, for every read
\* size and every limit (the lambda of Read).
THEOREM LimitIsFair == Spec => []LimitSparesSmallRequests
<1>1. ServerInv => LimitSparesSmallRequests
  <2> SUFFICES ASSUME ServerInv, NEW s \in Sessions, NEW i \in 1..Len(Replies(s)),
                      Replies(s)[i].kind = "limit"
               PROVE  sent[s][i].size > MaxInput - ReadSize + 1
    BY DEF LimitSparesSmallRequests
  <2>1. RepliesInv(sent[s], commits[s], Replies(s))
    BY RepliesOfSession
  <2> QED
    BY <2>1 DEF RepliesInv
<1> QED
  BY <1>1, ServerInvariant, PTL

\* A reply tells how many of its request's events were committed, whichever
\* requests of other connections ran in between and whenever the process died
\* (HandleSet, HandleDelete, HandleRename).
THEOREM RepliesTellCommits == Spec => []RepliesMatchCommits
<1>1. ServerInv => RepliesMatchCommits
  <2> SUFFICES ASSUME ServerInv, NEW s \in Sessions, NEW i \in 1..Len(Replies(s)),
                      i <= Len(commits[s])
               PROVE  Matches(sent[s][i], Replies(s)[i], commits[s][i])
    BY DEF RepliesMatchCommits, Matches
  <2>1. RepliesInv(sent[s], commits[s], Replies(s))
    BY RepliesOfSession
  <2> QED
    BY <2>1 DEF RepliesInv
<1> QED
  BY <1>1, ServerInvariant, PTL

\* A reply that depends on the protocol version is encoded in the version the
\* requests before it negotiated, although the session may have moved on by
\* the time it is written (HandleHello, BulkString).
THEOREM VersionIsInForce == Spec => []VersionInForce
<1>1. ServerInv => VersionInForce
  <2> SUFFICES ASSUME ServerInv, NEW s \in Sessions, NEW i \in 1..Len(Replies(s)),
                      Replies(s)[i].kind \in {"null", "hello"}
               PROVE  Replies(s)[i].value = VersionAt(s, i)
    BY DEF VersionInForce
  <2>1. RepliesInv(sent[s], commits[s], Replies(s))
    BY RepliesOfSession
  <2>2. Replies(s)[i].value = VersionOf(sent[s], i)
    BY <2>1 DEF RepliesInv
  <2> QED
    BY <2>2 DEF VersionAt, VersionOf
<1> QED
  BY <1>1, ServerInvariant, PTL
=============================================================================
