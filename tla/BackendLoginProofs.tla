-------------------------- MODULE BackendLoginProofs ---------------------------
(***************************************************************************)
(* Proofs about BackendLogin: for any thresholds a backend may ask for and *)
(* packets of any size, both sides of a session that forwards understand   *)
(* one another, and a login garbles nothing unless the threshold is zero.  *)
(***************************************************************************)
EXTENDS BackendLogin, SequenceTheorems, TLAPS

USE LoginAssumption

-----------------------------------------------------------------------------
(* Sequences *)

\* The entries of a sequence after its first has gone.
LEMMA TailAt ==
  ASSUME NEW S, NEW q \in Seq(S), q # <<>>
  PROVE  /\ Head(q) \in S
         /\ Head(q) = q[1]
         /\ 1 \in 1..Len(q)
         /\ Tail(q) \in Seq(S)
         /\ \A i \in 1..Len(Tail(q)) : i + 1 \in 1..Len(q) /\ Tail(q)[i] = q[i + 1]
  OBVIOUS

\* The entries of a sequence with one more.
LEMMA AppendAt ==
  ASSUME NEW S, NEW q \in Seq(S), NEW x \in S
  PROVE  /\ Append(q, x) \in Seq(S)
         /\ \A i \in 1..Len(Append(q, x)) :
              \/ i \in 1..Len(q) /\ Append(q, x)[i] = q[i]
              \/ i = Len(q) + 1 /\ Append(q, x)[i] = x
         /\ Append(q, x) # <<>>
         /\ q # <<>> => Append(q, x)[1] = q[1]
<1>1. /\ Append(q, x) \in Seq(S) /\ Len(q) \in Nat /\ Len(Append(q, x)) = Len(q) + 1
      /\ \A i \in 1..Len(q) : Append(q, x)[i] = q[i]
      /\ Append(q, x)[Len(q) + 1] = x
  BY AppendProperties, LenProperties
<1>2. \A i \in 1..(Len(q) + 1) : i \in 1..Len(q) \/ i = Len(q) + 1
  BY <1>1
<1>3. Append(q, x) # <<>>
  OBVIOUS
<1>4. q # <<>> => 1 \in 1..Len(q)
  BY EmptySeq, LenProperties
<1>5. \A i \in 1..Len(Append(q, x)) :
        \/ i \in 1..Len(q) /\ Append(q, x)[i] = q[i]
        \/ i = Len(q) + 1 /\ Append(q, x)[i] = x
  BY <1>1, <1>2
<1>6. q # <<>> => Append(q, x)[1] = q[1]
  BY <1>1, <1>4
<1> QED
  BY <1>1, <1>3, <1>5, <1>6

-----------------------------------------------------------------------------
(* Frames *)

\* The threshold that the proxy should use when the backend frames with t.
Agreed(t) == IF t > 0 THEN t ELSE 0

\* What one side frames with t, the other reads with the agreed threshold, unless t is
\* zero.
LEMMA FromBackend ==
  ASSUME NEW t \in Int, t # 0, NEW f \in Frame, f.form = Form(t >= 0, t, f.value)
  PROVE  Readable(Agreed(t) > 0, Agreed(t), f)
  BY DEF Form, Readable, Agreed, Frame

\* A frame of the proxy, framed with any threshold but zero, is readable for the backend.
LEMMA FromProxy ==
  ASSUME NEW t \in Int, t # 0, NEW f \in Frame,
         f.form = Form(Agreed(t) > 0, Agreed(t), f.value)
  PROVE  Readable(t >= 0, t, f)
  BY DEF Form, Readable, Agreed, Frame

\* A frame that the backend compresses with a threshold of zero is not readable for a
\* proxy that uses no compression.
LEMMA ZeroUnread ==
  ASSUME NEW f \in Frame, f.form = Form(0 >= 0, 0, f.value), f.value >= 0
  PROVE  ~Readable(Agreed(0) > 0, Agreed(0), f)
  BY DEF Form, Readable, Agreed, Frame

\* What the two sides send are frames.
LEMMA Framed ==
  ASSUME NEW kind \in Kinds, NEW size \in Nat, TypeOK
  PROVE  /\ ProxyFrame(kind, size) \in Frame
         /\ BackendFrame(kind, size) \in Frame
         /\ ProxyFrame(kind, size).kind = kind
         /\ ProxyFrame(kind, size).value = size
         /\ ProxyFrame(kind, size).form = Form(threshold > 0, threshold, size)
         /\ BackendFrame(kind, size).kind = kind
         /\ BackendFrame(kind, size).value = size
         /\ BackendFrame(kind, size).form = Form(framing >= 0, framing, size)
  BY DEF ProxyFrame, BackendFrame, Frame, Form, TypeOK

-----------------------------------------------------------------------------
(* The inductive invariant *)

\* The request for compression: the first frame under way, not yet acted upon.
IsRequest(f, request, limit, where) ==
  /\ f.kind = "compression"
  /\ f.form = "bare"
  /\ request = <<f.value>>
  /\ limit = 0
  /\ where \in {"reads", "failed"}

\* Any other frame of the backend is framed as it said it would.
IsFramed(f, limit, who) ==
  /\ f.kind # "compression"
  /\ f.form = Form(limit >= 0, limit, f.value)
  /\ f.value >= 0
  /\ f.kind = "finished" => who \notin {"listens", "login"}

DownOK ==
  \A i \in 1..Len(down) :
    \/ i = 1 /\ IsRequest(down[i], asked, threshold, stage)
    \/ IsFramed(down[i], framing, backend)

\* The hello comes before any compression, all else after the login.
UpOK ==
  \A i \in 1..Len(up) :
    \/ up[i].kind = "hello" /\ up[i].form = "bare" /\ backend = "listens" /\ stage = "reads"
    \/ /\ up[i].kind # "hello"
       /\ up[i].form = Form(threshold > 0, threshold, up[i].value)
       /\ stage = "forwards"

\* The proxy's threshold is the agreed one, or the request is the next thing it reads.
ThresholdOK ==
  /\ decoder = threshold
  /\ \/ threshold = Agreed(framing)
     \/ down # <<>> /\ down[1].kind = "compression"
     \/ stage = "failed"

AskedOK == (asked = <<>> /\ framing = -1) \/ asked = <<framing>>

StageOK ==
  /\ stage = "connect" => up = <<>> /\ backend = "listens"
  /\ backend = "listens" => asked = <<>> /\ Len(up) <= 1
  /\ backend = "listens" => stage \in {"connect", "reads", "failed"}
  /\ backend = "login" => stage = "reads"
  /\ backend \in {"listens", "login"} /\ asked = <<>> => down = <<>>
  /\ stage \in {"acks", "forwards"} => framing # 0
  /\ backend = "gone" => up = <<>>

LoginInv ==
  TypeOK /\ DownOK /\ UpOK /\ ThresholdOK /\ AskedOK /\ StageOK /\ OnlyZeroGarbles

-----------------------------------------------------------------------------
(* What a step does to the frames under way. *)

\* Once the first frame has gone none asks for compression.
LEMMA DownTail ==
  ASSUME TypeOK, DownOK, down # <<>>, down' = Tail(down), framing' = framing,
         backend' \in {backend, "gone"}
  PROVE  /\ DownOK'
         /\ down' \in Seq(Frame)
         /\ down' # <<>> => down'[1].kind # "compression"
<1>1. /\ down' \in Seq(Frame)
      /\ \A i \in 1..Len(down') : i + 1 \in 1..Len(down) /\ down'[i] = down[i + 1] /\ i + 1 # 1
  BY TailAt DEF TypeOK
<1>2. ASSUME NEW i \in 1..Len(down')
      PROVE  IsFramed(down'[i], framing', backend')
  BY <1>1, <1>2 DEF DownOK, IsFramed
<1>3. down' # <<>> => 1 \in 1..Len(down')
  BY <1>1, EmptySeq, LenProperties
<1> QED
  BY <1>1, <1>2, <1>3 DEF DownOK, IsFramed

\* The backend adds a frame to those that are under way.
LEMMA DownAppend ==
  ASSUME TypeOK, DownOK, NEW f \in Frame, Tell(f), IsFramed(f, framing', backend'),
         UNCHANGED <<framing, asked, threshold, stage>>,
         backend' = backend \/ backend' \notin {"listens", "login"}
  PROVE  /\ DownOK'
         /\ down' \in Seq(Frame)
         /\ down # <<>> => down' # <<>> /\ down'[1] = down[1]
<1>1. /\ down' \in Seq(Frame)
      /\ \A i \in 1..Len(down') : (i \in 1..Len(down) /\ down'[i] = down[i]) \/ down'[i] = f
      /\ down' # <<>>
      /\ down # <<>> => down'[1] = down[1]
  BY AppendAt DEF TypeOK, Tell
<1>2. ASSUME NEW i \in 1..Len(down')
      PROVE  \/ i = 1 /\ IsRequest(down'[i], asked', threshold', stage')
             \/ IsFramed(down'[i], framing', backend')
  <2>1. CASE down'[i] = f
    BY <2>1
  <2>2. CASE i \in 1..Len(down) /\ down'[i] = down[i]
    BY <2>2 DEF DownOK, IsFramed, IsRequest
  <2> QED
    BY <1>1, <2>1, <2>2
<1> QED
  BY <1>1, <1>2 DEF DownOK

\* The frames to the proxy are left alone.
LEMMA DownSame ==
  ASSUME DownOK, UNCHANGED <<down, framing, asked, threshold>>,
         stage' = stage \/ stage' = "failed" \/ stage = "connect" \/ stage = "acks",
         backend' = backend \/ backend' \notin {"listens", "login"}
           \/ \A i \in 1..Len(down) : down[i].kind # "finished"
  PROVE  DownOK'
<1>1. ASSUME NEW i \in 1..Len(down)
      PROVE  \/ i = 1 /\ IsRequest(down[i], asked', threshold', stage')
             \/ IsFramed(down[i], framing', backend')
  BY DEF DownOK, IsFramed, IsRequest
<1> QED
  BY <1>1 DEF DownOK

\* The proxy adds a frame after the login.
LEMMA UpAppend ==
  ASSUME TypeOK, UpOK, NEW kind \in Kinds \ {"hello"}, NEW size \in Nat,
         up' = Append(up, ProxyFrame(kind, size)),
         UNCHANGED threshold, stage' = "forwards", backend # "listens"
  PROVE  UpOK' /\ up' \in Seq(Frame)
<1>1. /\ ProxyFrame(kind, size) \in Frame
      /\ ProxyFrame(kind, size).kind = kind
      /\ ProxyFrame(kind, size).value = size
      /\ ProxyFrame(kind, size).form = Form(threshold > 0, threshold, size)
  BY Framed
<1>2. /\ up' \in Seq(Frame)
      /\ \A i \in 1..Len(up') :
            (i \in 1..Len(up) /\ up'[i] = up[i]) \/ up'[i] = ProxyFrame(kind, size)
  BY <1>1, AppendAt DEF TypeOK
<1>3. ASSUME NEW i \in 1..Len(up')
      PROVE  \/ /\ up'[i].kind = "hello" /\ up'[i].form = "bare"
                /\ backend' = "listens" /\ stage' = "reads"
             \/ /\ up'[i].kind # "hello"
                /\ up'[i].form = Form(threshold' > 0, threshold', up'[i].value)
                /\ stage' = "forwards"
  <2>1. CASE up'[i] = ProxyFrame(kind, size)
    BY <1>1, <2>1
  <2>2. CASE i \in 1..Len(up) /\ up'[i] = up[i]
    BY <2>2 DEF UpOK
  <2> QED
    BY <1>2, <2>1, <2>2
<1> QED
  BY <1>2, <1>3 DEF UpOK

\* Nothing is under way to a backend that has gone.
LEMMA UpNone ==
  ASSUME up' = <<>>
  PROVE  UpOK' /\ up' \in Seq(Frame)
  BY EmptySeq DEF UpOK

\* The frames to the backend are left alone.
LEMMA UpSame ==
  ASSUME UpOK, UNCHANGED <<up, threshold>>, backend' = backend \/ backend # "listens",
         stage' = stage \/ (backend # "listens" /\ stage # "forwards")
  PROVE  UpOK'
<1>1. ASSUME NEW i \in 1..Len(up)
      PROVE  \/ /\ up[i].kind = "hello" /\ up[i].form = "bare"
                /\ backend' = "listens" /\ stage' = "reads"
             \/ /\ up[i].kind # "hello"
                /\ up[i].form = Form(threshold' > 0, threshold', up[i].value)
                /\ stage' = "forwards"
  BY DEF UpOK
<1> QED
  BY <1>1 DEF UpOK

\* The backend has read a frame.
LEMMA UpTail ==
  ASSUME TypeOK, UpOK, up # <<>>, up' = Tail(up), UNCHANGED <<threshold, stage>>,
         backend' = backend \/ up' = <<>> \/ backend # "listens"
  PROVE  UpOK' /\ up' \in Seq(Frame)
<1>1. /\ up' \in Seq(Frame)
      /\ \A i \in 1..Len(up') : i + 1 \in 1..Len(up) /\ up'[i] = up[i + 1]
  BY TailAt DEF TypeOK
<1>2. ASSUME NEW i \in 1..Len(up'), up' # <<>>
      PROVE  \/ /\ up'[i].kind = "hello" /\ up'[i].form = "bare"
                /\ backend' = "listens" /\ stage' = "reads"
             \/ /\ up'[i].kind # "hello"
                /\ up'[i].form = Form(threshold' > 0, threshold', up'[i].value)
                /\ stage' = "forwards"
  BY <1>1, <1>2 DEF UpOK
<1>3. CASE up' = <<>>
  BY <1>3, UpNone
<1>4. CASE up' # <<>>
  BY <1>1, <1>2, <1>4 DEF UpOK
<1> QED
  BY <1>3, <1>4

-----------------------------------------------------------------------------
(* Types *)

\* The types hold before the login.
LEMMA InitTyped == Init => TypeOK
  BY EmptySeq DEF Init, TypeOK, Stages

\* Every step keeps the types.
LEMMA StepTyped ==
  ASSUME TypeOK, [Next]_vars
  PROVE  TypeOK'
<1>1. ASSUME NEW t \in Requests, Compress(t)
      PROVE  TypeOK'
  <2>1. [BackendFrame("compression", 0) EXCEPT !.value = t] \in Frame
    BY Framed DEF Kinds, Frame
  <2>2. down' \in Seq(Frame)
    BY <1>1, <2>1, AppendAt DEF Compress, Tell, TypeOK
  <2>3. asked' \in Seq(Requests) /\ framing' \in Int
    BY <1>1 DEF Compress
  <2> QED
    BY <1>1, <2>2, <2>3 DEF Compress, TypeOK
<1>2. ASSUME NEW kind \in {"finished", "other"}, Decide(kind)
      PROVE  TypeOK'
  <2>1. PICK size \in Sizes : Tell(BackendFrame(kind, size))
    BY <1>2 DEF Decide
  <2>2. BackendFrame(kind, size) \in Frame
    BY <1>2, Framed DEF Kinds
  <2>3. down' \in Seq(Frame)
    BY <2>1, <2>2, AppendAt DEF Tell, TypeOK
  <2> QED
    BY <1>2, <2>3 DEF Decide, TypeOK
<1>3. CASE BackendSends
  <2>1. PICK size \in Sizes : Tell(BackendFrame("data", size))
    BY <1>3 DEF BackendSends
  <2>2. BackendFrame("data", size) \in Frame
    BY Framed DEF Kinds
  <2>3. down' \in Seq(Frame)
    BY <2>1, <2>2, AppendAt DEF Tell, TypeOK
  <2> QED
    BY <1>3, <2>3 DEF BackendSends, TypeOK
<1>4. ASSUME Quit
      PROVE  /\ backend' = "gone" /\ up' = <<>>
             /\ up' \in Seq(Frame) /\ down' \in Seq(Frame)
  <2>1. BackendFrame("eof", 0) \in Frame
    BY Framed DEF Kinds
  <2>2. down' \in Seq(Frame)
    BY <1>4, <2>1, AppendAt DEF Quit, Tell, TypeOK
  <2> QED
    BY <1>4, <2>2, EmptySeq DEF Quit
<1>5. CASE BackendLeaves
  BY <1>4, <1>5 DEF BackendLeaves, TypeOK
<1>6. CASE BackendReads
  <2>1. up # <<>> /\ Tail(up) \in Seq(Frame)
    BY <1>6, TailAt DEF BackendReads, TypeOK
  <2>2. CASE Readable(framing >= 0, framing, Head(up))
    BY <1>6, <2>1, <2>2 DEF BackendReads, TypeOK
  <2>3. CASE ~Readable(framing >= 0, framing, Head(up))
    BY <1>4, <1>6, <2>3 DEF BackendReads, TypeOK
  <2> QED
    BY <2>2, <2>3
<1>7. CASE Connect
  <2>1. ProxyFrame("hello", 0) \in Frame
    BY Framed DEF Kinds
  <2>2. Append(up, ProxyFrame("hello", 0)) \in Seq(Frame)
    BY <2>1, AppendAt DEF TypeOK
  <2> QED
    BY <1>7, <2>2 DEF Connect, TypeOK, Stages
<1>8. CASE Ack
  <2>1. ProxyFrame("ack", 0) \in Frame
    BY Framed DEF Kinds
  <2>2. Append(up, ProxyFrame("ack", 0)) \in Seq(Frame)
    BY <2>1, AppendAt DEF TypeOK
  <2> QED
    BY <1>8, <2>2 DEF Ack, TypeOK, Stages
<1>9. CASE ForwardToBackend
  <2>1. PICK size \in Sizes : up' = Append(up, ProxyFrame("data", size))
    BY <1>9 DEF ForwardToBackend
  <2>2. ProxyFrame("data", size) \in Frame
    BY Framed DEF Kinds
  <2>3. up' \in Seq(Frame)
    BY <2>1, <2>2, AppendAt DEF TypeOK
  <2> QED
    BY <1>9, <2>3 DEF ForwardToBackend, TypeOK
<1>10. ASSUME Reads
       PROVE  down # <<>> /\ down' = Tail(down) /\ down' \in Seq(Frame) /\ Head(down) \in Frame
  <2>1. down # <<>> /\ down' = Tail(down)
    BY <1>10 DEF Reads, ReadCompression, ReadFinished, ReadOther, ReadEof, ReadGarbled,
      ReadBackend, Take
  <2> QED
    BY <2>1, TailAt DEF TypeOK
<1>11. CASE ReadCompression
  <2>1. Head(down).value \in Int
    BY <1>10, <1>11 DEF Reads, Frame
  <2>2. threshold' \in Nat /\ decoder' \in Nat
    BY <1>11, <2>1 DEF ReadCompression, TypeOK
  <2> QED
    BY <1>10, <1>11, <2>2 DEF Reads, ReadCompression, TypeOK
<1>12. CASE ReadFinished
  BY <1>10, <1>12 DEF Reads, ReadFinished, TypeOK, Stages
<1>13. CASE ReadOther
  BY <1>10, <1>13, EmptySeq DEF Reads, ReadOther, Fail, TypeOK, Stages
<1>14. CASE ReadEof
  BY <1>10, <1>14, EmptySeq DEF Reads, ReadEof, Fail, TypeOK, Stages
<1>15. CASE ReadGarbled
  BY <1>10, <1>15, EmptySeq DEF Reads, ReadGarbled, Fail, TypeOK, Stages
<1>16. CASE ReadBackend
  BY <1>10, <1>16 DEF Reads, ReadBackend, TypeOK
<1>17. CASE UNCHANGED vars
  BY <1>17 DEF vars, TypeOK
<1> QED
  BY <1>1, <1>2, <1>3, <1>5, <1>6, <1>7, <1>8, <1>9, <1>11, <1>12, <1>13, <1>14, <1>15,
     <1>16, <1>17 DEF Next, Reads

\* Every variable keeps its type.
THEOREM TypeCorrect == Spec => []TypeOK
  BY InitTyped, StepTyped, PTL DEF Spec

-----------------------------------------------------------------------------
(* The steps of the backend *)

\* What the invariant says beside the types.
Agree == DownOK /\ UpOK /\ ThresholdOK /\ AskedOK /\ StageOK /\ OnlyZeroGarbles

\* The request for compression is the first frame on its way to the proxy.
LEMMA CompressKeeps ==
  ASSUME LoginInv, NEW t \in Requests, Compress(t)
  PROVE  Agree'
<1> DEFINE f == [BackendFrame("compression", 0) EXCEPT !.value = t]
<1>1. /\ asked = <<>> /\ framing = -1 /\ down = <<>> /\ stage = "reads" /\ backend = "login"
      /\ threshold = 0 /\ garbled = {} /\ up = <<>>
  <2>1. asked = <<>> /\ backend = "login" /\ down = <<>> /\ stage = "reads"
    BY DEF LoginInv, Compress, StageOK
  <2>2. framing = -1 /\ garbled = {}
    BY <2>1 DEF LoginInv, AskedOK, OnlyZeroGarbles
  <2>3. threshold = 0
    BY <2>1, <2>2 DEF LoginInv, ThresholdOK, Agreed
  <2>4. \A i \in 1..Len(up) : FALSE
    BY <2>1 DEF LoginInv, UpOK
  <2>5. up = <<>>
    BY <2>4, EmptySeq, LenProperties DEF LoginInv, TypeOK
  <2> QED
    BY <2>1, <2>2, <2>3, <2>5
<1>2. f.kind = "compression" /\ f.form = "bare" /\ f.value = t
  BY <1>1 DEF BackendFrame, Form
<1>3. down' = <<f>>
  BY <1>1 DEF Compress, Tell
<1>4. /\ framing' = t /\ asked' = <<t>>
      /\ UNCHANGED <<stage, threshold, decoder, up, backend, garbled>>
  BY DEF Compress
<1>5. Len(down') = 1 /\ down'[1] = f /\ down' # <<>>
  BY <1>3
<1>6. DownOK'
  <2>1. IsRequest(f, asked', threshold', stage')
    BY <1>1, <1>2, <1>4 DEF IsRequest
  <2>2. \A i \in 1..Len(down') : i = 1
    BY <1>5
  <2> QED
    BY <1>5, <2>1, <2>2 DEF DownOK
<1>7. ThresholdOK'
  BY <1>2, <1>4, <1>5 DEF LoginInv, ThresholdOK
<1>8. AskedOK' /\ StageOK'
  BY <1>1, <1>4 DEF LoginInv, AskedOK, StageOK
<1>9. UpOK' /\ OnlyZeroGarbles'
  BY <1>1, <1>4, EmptySeq DEF UpOK, OnlyZeroGarbles
<1> QED
  BY <1>6, <1>7, <1>8, <1>9 DEF Agree

\* A frame of the backend in its own framing.
LEMMA TellKeeps ==
  ASSUME LoginInv, NEW kind \in Kinds \ {"compression"}, NEW size \in Nat,
         Tell(BackendFrame(kind, size)),
         kind = "finished" => backend' \notin {"listens", "login"},
         UNCHANGED <<stage, threshold, decoder, framing, asked>>,
         backend' = backend \/ backend' \in {"waits", "refused", "gone"},
         stage # "connect",
         backend # "login" \/ backend' # "login",
         backend # "listens" \/ backend' # "listens"
  PROVE  DownOK' /\ ThresholdOK' /\ AskedOK'
<1> DEFINE f == BackendFrame(kind, size)
<1>1. /\ f \in Frame /\ f.kind = kind /\ f.value = size
      /\ f.form = Form(framing >= 0, framing, size)
  BY Framed DEF LoginInv
<1>2. IsFramed(f, framing', backend')
  BY <1>1 DEF IsFramed
<1>3. /\ DownOK'
      /\ down # <<>> => down' # <<>> /\ down'[1] = down[1]
  BY <1>1, <1>2, DownAppend DEF LoginInv
<1>4. ThresholdOK'
  BY <1>3 DEF LoginInv, ThresholdOK
<1> QED
  BY <1>3, <1>4 DEF LoginInv, AskedOK

\* The backend accepts or refuses the login.
LEMMA DecideKeeps ==
  ASSUME LoginInv, NEW kind \in {"finished", "other"}, Decide(kind)
  PROVE  Agree'
<1>1. PICK size \in Sizes : Tell(BackendFrame(kind, size))
  BY DEF Decide
<1>2. /\ backend = "login" /\ backend' \in {"waits", "refused"} /\ stage = "reads"
      /\ UNCHANGED <<stage, threshold, decoder, up, framing, asked, garbled>>
  BY DEF Decide, LoginInv, StageOK
<1>3. DownOK' /\ ThresholdOK' /\ AskedOK'
  BY <1>1, <1>2, TellKeeps DEF Kinds
<1>4. UpOK'
  BY <1>2, UpSame DEF LoginInv
<1>5. StageOK' /\ OnlyZeroGarbles'
  BY <1>2 DEF LoginInv, StageOK, OnlyZeroGarbles
<1> QED
  BY <1>3, <1>4, <1>5 DEF Agree

\* What the backend sends is framed as it has asked for.
LEMMA BackendSendsKeeps ==
  ASSUME LoginInv, BackendSends
  PROVE  Agree'
<1>1. PICK size \in Sizes : Tell(BackendFrame("data", size))
  BY DEF BackendSends
<1>2. /\ backend = "config"
      /\ UNCHANGED <<stage, threshold, decoder, up, backend, framing, asked, garbled>>
      /\ stage # "connect"
  BY DEF BackendSends, LoginInv, StageOK
<1>3. DownOK' /\ ThresholdOK' /\ AskedOK'
  BY <1>1, <1>2, TellKeeps DEF Kinds
<1>4. UpOK'
  BY <1>2, UpSame DEF LoginInv
<1>5. StageOK' /\ OnlyZeroGarbles'
  BY <1>2 DEF LoginInv, StageOK, OnlyZeroGarbles
<1> QED
  BY <1>3, <1>4, <1>5 DEF Agree

\* A backend that goes.
LEMMA QuitKeeps ==
  ASSUME LoginInv, Quit, stage # "connect",
         UNCHANGED <<stage, threshold, decoder, framing, asked>>
  PROVE  DownOK' /\ UpOK' /\ ThresholdOK' /\ AskedOK' /\ StageOK'
<1>1. backend' = "gone" /\ up' = <<>> /\ Tell(BackendFrame("eof", 0))
  BY DEF Quit
<1>2. DownOK' /\ ThresholdOK' /\ AskedOK'
  BY <1>1, TellKeeps DEF Kinds
<1>3. UpOK'
  BY <1>1, UpNone
<1>4. StageOK'
  BY <1>1 DEF LoginInv, StageOK
<1> QED
  BY <1>2, <1>3, <1>4

\* A backend that leaves ends its stream.
LEMMA BackendLeavesKeeps ==
  ASSUME LoginInv, BackendLeaves
  PROVE  Agree'
<1>1. /\ Quit /\ stage # "connect"
      /\ UNCHANGED <<stage, threshold, decoder, framing, asked, garbled>>
  BY DEF BackendLeaves
<1>2. DownOK' /\ UpOK' /\ ThresholdOK' /\ AskedOK' /\ StageOK'
  BY <1>1, QuitKeeps
<1> QED
  BY <1>1, <1>2 DEF Agree, LoginInv, OnlyZeroGarbles

\* The backend can read all that is under way to it.
LEMMA UpReadable ==
  ASSUME LoginInv, NEW i \in 1..Len(up)
  PROVE  Readable(framing >= 0, framing, up[i])
<1>1. up[i] \in Frame
  BY DEF LoginInv, TypeOK
<1>2. CASE up[i].kind = "hello"
  <2>1. up[i].form = "bare" /\ asked = <<>> /\ framing = -1
    BY <1>2 DEF LoginInv, UpOK, StageOK, AskedOK
  <2> QED
    BY <2>1 DEF Readable
<1>3. CASE up[i].kind # "hello"
  <2>1. stage = "forwards" /\ up[i].form = Form(threshold > 0, threshold, up[i].value)
    BY <1>3 DEF LoginInv, UpOK
  <2>2. framing # 0 /\ framing \in Int
    BY <2>1 DEF LoginInv, StageOK, TypeOK
  <2>3. ~(down # <<>> /\ down[1].kind = "compression")
    <3>1. down # <<>> => 1 \in 1..Len(down)
      BY EmptySeq, LenProperties DEF LoginInv, TypeOK
    <3> QED
      BY <2>1, <3>1 DEF LoginInv, DownOK, IsRequest, IsFramed
  <2>4. threshold = Agreed(framing)
    BY <2>1, <2>3 DEF LoginInv, ThresholdOK
  <2> QED
    BY <1>1, <2>1, <2>2, <2>4, FromProxy
<1> QED
  BY <1>2, <1>3

\* The backend reads what the proxy has framed.
LEMMA BackendReadsKeeps ==
  ASSUME LoginInv, BackendReads
  PROVE  Agree'
<1>1. /\ up # <<>> /\ backend # "gone"
      /\ UNCHANGED <<stage, threshold, decoder, framing, asked>>
  BY DEF BackendReads
<1>2. Head(up) = up[1] /\ 1 \in 1..Len(up)
  BY <1>1, TailAt DEF LoginInv, TypeOK
<1>3. Readable(framing >= 0, framing, Head(up))
  BY <1>2, UpReadable
<1>4. /\ up' = Tail(up) /\ UNCHANGED <<down, garbled>>
      /\ backend' = CASE up[1].kind = "hello" -> "login" [] up[1].kind = "ack" -> "config"
                      [] OTHER -> backend
  BY <1>2, <1>3 DEF BackendReads
<1>5. CASE up[1].kind = "hello"
  <2>1. /\ backend = "listens" /\ backend' = "login" /\ stage = "reads"
        /\ asked = <<>> /\ down = <<>> /\ Len(up) <= 1
    BY <1>1, <1>2, <1>4, <1>5 DEF LoginInv, UpOK, StageOK
  <2>2. up' = <<>>
    <3>1. Tail(up) \in Seq(Frame) /\ Len(Tail(up)) = Len(up) - 1 /\ Len(up) \in Nat
      BY <1>1, LenProperties DEF LoginInv, TypeOK
    <3> QED
      BY <1>2, <1>4, <2>1, <3>1, EmptySeq
  <2>3. UpOK'
    BY <2>2, UpNone
  <2>4. DownOK'
    BY <1>4, <2>1, EmptySeq DEF DownOK
  <2>5. StageOK'
    BY <1>1, <1>4, <2>1, <2>2 DEF StageOK
  <2> QED
    BY <1>1, <1>4, <2>3, <2>4, <2>5 DEF Agree, LoginInv, ThresholdOK, AskedOK, OnlyZeroGarbles
<1>6. CASE up[1].kind # "hello"
  <2>1. stage = "forwards" /\ backend \notin {"listens", "login"}
    BY <1>2, <1>6 DEF LoginInv, UpOK, StageOK
  <2>2. backend' \notin {"listens", "login", "gone"}
    BY <1>1, <1>4, <1>6, <2>1
  <2>3. UpOK'
    BY <1>1, <1>4, <2>1, UpTail DEF LoginInv
  <2>4. DownOK'
    BY <1>1, <1>4, <2>2, DownSame DEF LoginInv
  <2>5. StageOK'
    BY <1>1, <1>4, <2>1, <2>2 DEF LoginInv, StageOK
  <2> QED
    BY <1>1, <1>4, <2>3, <2>4, <2>5 DEF Agree, LoginInv, ThresholdOK, AskedOK, OnlyZeroGarbles
<1> QED
  BY <1>5, <1>6

-----------------------------------------------------------------------------
(* The steps of the proxy *)

\* The proxy connects and sends its handshake uncompressed.
LEMMA ConnectKeeps ==
  ASSUME LoginInv, Connect
  PROVE  Agree'
<1>1. /\ stage = "connect" /\ up = <<>> /\ backend = "listens" /\ asked = <<>>
      /\ framing = -1 /\ threshold = 0 /\ down = <<>>
      /\ UNCHANGED <<threshold, decoder, down, backend, framing, asked, garbled>>
  <2>1. /\ stage = "connect" /\ up = <<>> /\ backend = "listens" /\ asked = <<>>
        /\ framing = -1 /\ down = <<>>
    BY DEF Connect, LoginInv, StageOK, AskedOK
  <2> QED
    BY <2>1 DEF Connect, LoginInv, ThresholdOK, Agreed
<1>2. DownOK' /\ ThresholdOK' /\ AskedOK' /\ OnlyZeroGarbles'
  <2>1. DownOK'
    BY <1>1, EmptySeq DEF DownOK
  <2> QED
    BY <1>1, <2>1 DEF LoginInv, ThresholdOK, AskedOK, OnlyZeroGarbles, Agreed
<1>3. CASE stage' = "failed" /\ UNCHANGED up
  <2>1. UpOK'
    BY <1>1, <1>3, UpNone
  <2> QED
    BY <1>1, <1>2, <1>3, <2>1, EmptySeq DEF Agree, StageOK
<1>4. CASE stage' = "reads" /\ up' = Append(up, ProxyFrame("hello", 0))
  <2> DEFINE f == ProxyFrame("hello", 0)
  <2>1. f.kind = "hello" /\ f.form = "bare"
    BY <1>1 DEF ProxyFrame, Form
  <2>2. up' = <<f>>
    BY <1>1, <1>4
  <2>3. Len(up') = 1 /\ up'[1] = f
    BY <2>2
  <2>4. \A i \in 1..Len(up') : i = 1
    BY <2>3
  <2>5. UpOK'
    BY <1>1, <1>4, <2>1, <2>3, <2>4 DEF UpOK
  <2>6. StageOK'
    BY <1>1, <1>4, <2>3 DEF StageOK
  <2> QED
    BY <1>2, <2>5, <2>6 DEF Agree
<1> QED
  BY <1>3, <1>4 DEF Connect

\* The acknowledgement is framed with the threshold both sides have by now.
LEMMA AckKeeps ==
  ASSUME LoginInv, Ack
  PROVE  Agree'
<1>1. /\ stage = "acks" /\ stage' \in {"forwards", "failed"} /\ backend # "listens"
      /\ UNCHANGED <<threshold, decoder, down, backend, framing, asked, garbled>>
  BY DEF Ack, LoginInv, StageOK
<1>2. DownOK'
  BY <1>1, DownSame DEF LoginInv
<1>3. ThresholdOK' /\ AskedOK' /\ OnlyZeroGarbles'
  BY <1>1 DEF LoginInv, ThresholdOK, AskedOK, OnlyZeroGarbles
<1>4. backend = "gone" => up = <<>> /\ up' = <<>>
  BY DEF Ack, LoginInv, StageOK
<1>5. UpOK'
  <2>1. CASE backend = "gone"
    BY <1>4, <2>1, UpNone
  <2>2. CASE backend # "gone"
    <3>1. up' = Append(up, ProxyFrame("ack", 0)) /\ stage' = "forwards"
      BY <2>2 DEF Ack
    <3> QED
      BY <1>1, <3>1, UpAppend DEF LoginInv, Kinds
  <2> QED
    BY <2>1, <2>2
<1>6. StageOK'
  BY <1>1, <1>4 DEF LoginInv, StageOK
<1> QED
  BY <1>2, <1>3, <1>5, <1>6 DEF Agree

\* A packet of the session is framed like the acknowledgement.
LEMMA ForwardKeeps ==
  ASSUME LoginInv, ForwardToBackend
  PROVE  Agree'
<1>1. PICK size \in Sizes : up' = Append(up, ProxyFrame("data", size))
  BY DEF ForwardToBackend
<1>2. /\ stage = "forwards" /\ backend \notin {"gone", "listens", "login"}
      /\ UNCHANGED <<stage, threshold, decoder, down, backend, framing, asked, garbled>>
  BY DEF ForwardToBackend, LoginInv, StageOK
<1>3. DownOK' /\ ThresholdOK' /\ AskedOK' /\ OnlyZeroGarbles'
  BY <1>2, DownSame DEF LoginInv, ThresholdOK, AskedOK, OnlyZeroGarbles
<1>4. UpOK'
  BY <1>1, <1>2, UpAppend DEF LoginInv, Kinds
<1>5. StageOK'
  BY <1>2 DEF LoginInv, StageOK
<1> QED
  BY <1>3, <1>4, <1>5 DEF Agree

\* What the first frame to the proxy is.
LEMMA FirstFrame ==
  ASSUME LoginInv, down # <<>>
  PROVE  /\ Head(down) = down[1]
         /\ Head(down) \in Frame
         /\ \/ IsRequest(Head(down), asked, threshold, stage)
            \/ IsFramed(Head(down), framing, backend)
<1>1. Head(down) = down[1] /\ 1 \in 1..Len(down) /\ Head(down) \in Frame
  BY TailAt DEF LoginInv, TypeOK
<1> QED
  BY <1>1 DEF LoginInv, DownOK

\* The proxy can read the first frame, unless the backend compresses from zero on.
LEMMA FirstReadable ==
  ASSUME LoginInv, down # <<>>, stage # "failed", framing # 0
  PROVE  Readable(decoder > 0, decoder, Head(down))
<1>1. CASE IsRequest(Head(down), asked, threshold, stage)
  BY <1>1 DEF IsRequest, LoginInv, ThresholdOK, Readable
<1>2. CASE IsFramed(Head(down), framing, backend)
  <2>1. decoder = Agreed(framing)
    BY <1>2, FirstFrame DEF LoginInv, ThresholdOK, IsFramed
  <2> QED
    BY <1>2, <2>1, FirstFrame, FromBackend DEF IsFramed, LoginInv, TypeOK
<1> QED
  BY <1>1, <1>2, FirstFrame

\* The proxy takes over the threshold asked for, unless it is zero or below.
LEMMA ReadCompressionKeeps ==
  ASSUME LoginInv, ReadCompression
  PROVE  Agree'
<1>1. /\ stage = "reads" /\ down # <<>> /\ down' = Tail(down)
      /\ Head(down).kind = "compression"
      /\ UNCHANGED <<stage, up, backend, framing, asked, garbled>>
  BY DEF ReadCompression, Take
<1>2. IsRequest(Head(down), asked, threshold, stage) /\ Head(down).value \in Int
  BY <1>1, FirstFrame DEF IsFramed, Frame
<1>3. asked = <<Head(down).value>> /\ framing = Head(down).value /\ threshold = 0
  BY <1>2, EmptySeq DEF IsRequest, LoginInv, AskedOK
<1>4. threshold' = Agreed(framing) /\ decoder' = threshold'
  BY <1>3 DEF ReadCompression, Agreed, LoginInv, ThresholdOK
<1>5. backend # "listens" /\ \A i \in 1..Len(up) : FALSE
  BY <1>1, <1>3 DEF LoginInv, StageOK, UpOK
<1>6. UpOK'
  BY <1>1, <1>5 DEF UpOK
<1>7. DownOK'
  BY <1>1, DownTail DEF LoginInv
<1>8. ThresholdOK'
  BY <1>1, <1>4 DEF ThresholdOK
<1>9. AskedOK' /\ StageOK' /\ OnlyZeroGarbles'
  BY <1>1, <1>3 DEF LoginInv, AskedOK, StageOK, OnlyZeroGarbles
<1> QED
  BY <1>6, <1>7, <1>8, <1>9 DEF Agree

\* The proxy reads that the login is accepted.
LEMMA ReadFinishedKeeps ==
  ASSUME LoginInv, ReadFinished
  PROVE  Agree'
<1>1. /\ stage = "reads" /\ stage' = "acks" /\ down # <<>> /\ down' = Tail(down)
      /\ Head(down).kind = "finished"
      /\ Readable(decoder > 0, decoder, Head(down))
      /\ UNCHANGED <<threshold, decoder, up, backend, framing, asked, garbled>>
  BY DEF ReadFinished, Take
<1>2. IsFramed(Head(down), framing, backend) /\ Head(down) \in Frame
  BY <1>1, FirstFrame DEF IsRequest
<1>3. backend \notin {"listens", "login"}
  BY <1>1, <1>2 DEF IsFramed
<1>4. threshold = Agreed(framing) /\ decoder = threshold
  BY <1>1, FirstFrame DEF LoginInv, ThresholdOK
<1>5. framing # 0
  BY <1>1, <1>2, <1>4, ZeroUnread DEF IsFramed
<1>6. DownOK'
  BY <1>1, DownTail DEF LoginInv
<1>7. UpOK'
  BY <1>1, <1>3, UpSame DEF LoginInv
<1>8. ThresholdOK' /\ AskedOK' /\ OnlyZeroGarbles'
  BY <1>1, <1>4 DEF LoginInv, ThresholdOK, AskedOK, OnlyZeroGarbles
<1>9. StageOK'
  BY <1>1, <1>3, <1>5 DEF LoginInv, StageOK
<1> QED
  BY <1>6, <1>7, <1>8, <1>9 DEF Agree

\* A login that fails keeps what holds of the rest.
LEMMA FailKeeps ==
  ASSUME LoginInv, Fail, down # <<>>, down' = Tail(down)
  PROVE  DownOK' /\ UpOK' /\ ThresholdOK' /\ AskedOK' /\ StageOK'
<1>1. /\ stage' = "failed" /\ backend' = "gone" /\ up' = <<>>
      /\ UNCHANGED <<threshold, decoder, framing, asked>>
  BY DEF Fail
<1>2. DownOK'
  BY <1>1, DownTail DEF LoginInv
<1>3. UpOK'
  BY <1>1, UpNone
<1> QED
  BY <1>1, <1>2, <1>3 DEF LoginInv, ThresholdOK, AskedOK, StageOK

\* A login that fails agrees on nothing more.
LEMMA ReadFailureKeeps ==
  ASSUME LoginInv, ReadOther \/ ReadEof \/ ReadGarbled
  PROVE  Agree'
<1>1. Fail /\ down # <<>> /\ down' = Tail(down)
  BY DEF ReadOther, ReadEof, ReadGarbled, Take
<1>2. DownOK' /\ UpOK' /\ ThresholdOK' /\ AskedOK' /\ StageOK'
  BY <1>1, FailKeeps
<1>3. CASE UNCHANGED garbled
  BY <1>1, <1>2, <1>3 DEF Agree, LoginInv, OnlyZeroGarbles, Fail
<1>4. CASE ReadGarbled
  <2>1. framing = 0
    BY <1>1, <1>4, FirstReadable DEF ReadGarbled
  <2>2. asked = <<0>>
    BY <2>1 DEF LoginInv, AskedOK
  <2> QED
    BY <1>1, <1>2, <2>2 DEF Agree, OnlyZeroGarbles, Fail
<1> QED
  BY <1>3, <1>4 DEF ReadOther, ReadEof

\* The session reads what the backend has framed.
LEMMA ReadBackendKeeps ==
  ASSUME LoginInv, ReadBackend
  PROVE  Agree'
<1>1. /\ stage = "forwards" /\ down # <<>> /\ down' = Tail(down)
      /\ UNCHANGED <<stage, threshold, decoder, up, backend, framing, asked, garbled>>
  BY DEF ReadBackend, Take
<1>2. DownOK'
  BY <1>1, DownTail DEF LoginInv
<1>3. UpOK'
  BY <1>1, UpSame DEF LoginInv
<1>4. ThresholdOK'
  <2>1. Head(down).kind # "compression" /\ Head(down) = down[1]
    BY <1>1, FirstFrame DEF IsRequest, IsFramed
  <2> QED
    BY <1>1, <2>1 DEF LoginInv, ThresholdOK
<1>5. StageOK'
  BY <1>1 DEF LoginInv, StageOK
<1> QED
  BY <1>1, <1>2, <1>3, <1>4, <1>5 DEF Agree, LoginInv, AskedOK, OnlyZeroGarbles

-----------------------------------------------------------------------------
(* Theorems *)

\* The invariant holds before the login.
LEMMA InitAgrees == Init => LoginInv
<1> SUFFICES ASSUME Init
             PROVE  LoginInv
  OBVIOUS
<1>1. TypeOK
  BY InitTyped
<1>2. Len(up) = 0 /\ Len(down) = 0
  BY EmptySeq DEF Init
<1>3. DownOK /\ UpOK
  BY <1>2 DEF DownOK, UpOK
<1> QED
  BY <1>1, <1>2, <1>3
  DEF Init, LoginInv, ThresholdOK, Agreed, AskedOK, StageOK, OnlyZeroGarbles

\* Every step keeps the invariant.
LEMMA StepAgrees == LoginInv /\ [Next]_vars => LoginInv'
<1> SUFFICES ASSUME LoginInv, [Next]_vars
             PROVE  LoginInv'
  OBVIOUS
<1>1. TypeOK'
  BY StepTyped DEF LoginInv
<1>2. CASE UNCHANGED vars
  BY <1>2 DEF vars, LoginInv, TypeOK, DownOK, UpOK, ThresholdOK, AskedOK, StageOK,
    OnlyZeroGarbles, IsRequest, IsFramed
<1>3. CASE Next
  <2>1. Agree'
    BY <1>3, CompressKeeps, DecideKeeps, BackendSendsKeeps, BackendLeavesKeeps,
      BackendReadsKeeps, ConnectKeeps, AckKeeps, ForwardKeeps, ReadCompressionKeeps,
      ReadFinishedKeeps, ReadFailureKeeps, ReadBackendKeeps DEF Next, Reads
  <2> QED
    BY <1>1, <2>1 DEF LoginInv, Agree
<1> QED
  BY <1>2, <1>3

\* The invariant holds in every reachable state.
LEMMA LoginInvariance == Spec => []LoginInv
  BY InitAgrees, StepAgrees, PTL DEF Spec

\* OnlyZeroGarbles, for any thresholds and sizes.
THEOREM GarblesOnlyZero == Spec => []OnlyZeroGarbles
<1>1. LoginInv => OnlyZeroGarbles
  BY DEF LoginInv
<1> QED
  BY <1>1, LoginInvariance, PTL

\* In a session that forwards the invariant makes every frame readable.
LEMMA ForwardsAgree == LoginInv => FramesAgree
<1> SUFFICES ASSUME LoginInv, stage = "forwards"
             PROVE  /\ \A i \in 1..Len(down) :
                         down[i].kind # "eof" => Readable(decoder > 0, decoder, down[i])
                    /\ \A i \in 1..Len(up) : Readable(framing >= 0, framing, up[i])
  BY DEF FramesAgree
<1>1. ASSUME NEW i \in 1..Len(down)
      PROVE  Readable(decoder > 0, decoder, down[i])
  <2>1. down[i] \in Frame /\ down # <<>>
    BY EmptySeq DEF LoginInv, TypeOK
  <2>2. IsFramed(down[i], framing, backend) /\ framing # 0 /\ framing \in Int
    BY DEF LoginInv, DownOK, IsRequest, StageOK, TypeOK
  <2>3. down[1].kind # "compression"
    BY <2>1, FirstFrame DEF IsRequest, IsFramed
  <2>4. decoder = Agreed(framing)
    BY <2>3 DEF LoginInv, ThresholdOK
  <2> QED
    BY <2>1, <2>2, <2>4, FromBackend DEF IsFramed
<1> QED
  BY <1>1, UpReadable

\* FramesAgree, for any thresholds and sizes.
THEOREM SidesAgree == Spec => []FramesAgree
  BY ForwardsAgree, LoginInvariance, PTL

=============================================================================
