---------------------------- MODULE FramingProofs ----------------------------
(****************************************************************************)
(* Theorems about Framing: writev resumed by _get_next_send_iovec puts the   *)
(* bytes of a message on the wire once and in order, NeverGarbled, that      *)
(* Framing implements Exchange, NoStandoff, and that exchanges only shrink,  *)
(* for any lengths of headers, bodies and buffers.                           *)
(****************************************************************************)
EXTENDS Framing, SequenceTheorems, TLAPS

-----------------------------------------------------------------------------
(* Messages and bytes. *)

LEMMA Totals == Total \subseteq Nat /\ \A t \in Total : t >= HdrLen /\ t > 0
<1>1. HdrLen \in Nat \ {0} /\ \A f \in Conn : BodyLen[f] \subseteq Nat
    BY FramingAssumption
<1>2. \A t \in Total : t = HdrLen \/ \E f \in Conn : \E b \in BodyLen[f] : t = HdrLen + b
    BY DEF Total
<1>3. QED BY <1>1, <1>2

LEMMA Messages ==
    /\ \A m \in Message : m = [n |-> m.n, total |-> m.total] /\ m.n \in Nat \ {0} /\ m.total \in Total
    /\ Nothing \notin Message
    /\ Garbage \notin Message
    /\ Nothing # Garbage
<1>1. ASSUME NEW m \in Message
      PROVE  m = [n |-> m.n, total |-> m.total] /\ m.n \in Nat \ {0} /\ m.total \in Total
    <2>1. PICK f \in Conn : m \in [n : 1 .. MaxRequests[f], total : Total]
        BY DEF Message
    <2>2. MaxRequests[f] \in Nat
        BY FramingAssumption
    <2>3. QED BY <2>1, <2>2
<1>2. QED BY <1>1, FramingAssumption DEF Nothing, Garbage

-----------------------------------------------------------------------------
(* Writing. *)

(* What is left of message m when q of its bytes are written.                 *)
Rest(m, q) ==
    IF q < HdrLen
    THEN <<[at |-> q, len |-> HdrLen - q], [at |-> HdrLen, len |-> m.total - HdrLen]>>
    ELSE IF q < m.total THEN <<[at |-> q, len |-> m.total - q]>>
    ELSE <<>>

(* Bytes q + 1 to q + j of m. *)
Piece(m, q, j) == [k \in 1 .. j |-> [msg |-> m, pos |-> q + k]]

LEMMA RestProperties ==
    ASSUME NEW m, m.total \in Nat, m.total >= HdrLen, NEW q \in 0 .. m.total
    PROVE  /\ LenOf(Rest(m, q)) = m.total - q
           /\ Rest(m, q) = <<>> <=> q = m.total
           /\ Rest(m, q) \in Seq(Part)
<1>1. CASE q < HdrLen
    BY <1>1, FramingAssumption DEF Rest, LenOf, Part
<1>2. CASE q >= HdrLen /\ q < m.total
    <2> DEFINE p == [at |-> q, len |-> m.total - q]
    <2>1. Rest(m, q) = <<p>> /\ p \in Part
        BY <1>2, FramingAssumption DEF Rest, Part
    <2> HIDE DEF p
    <2>2. LenOf(<<p>>) = p.len /\ <<p>> # <<>> /\ <<p>> \in Seq(Part)
        BY <2>1 DEF LenOf
    <2>3. p.len = m.total - q
        BY DEF p
    <2>4. QED BY <1>2, <2>1, <2>2, <2>3
<1>3. CASE q = m.total
    BY <1>3, FramingAssumption DEF Rest, LenOf, Part
<1>4. QED BY <1>1, <1>2, <1>3, FramingAssumption

(* A writev that takes j bytes of what is left of a message takes the next j  *)
(* of the message, and _get_next_send_iovec leaves what is left then: also    *)
(* when it stops inside the header, inside the body or between the two, and   *)
(* when there is no body.                                                     *)
THEOREM IovecResumes ==
    ASSUME NEW m, m.total \in Nat, m.total >= HdrLen,
           NEW q \in 0 .. m.total, NEW j \in 1 .. m.total - q
    PROVE  /\ Gathered(m, Rest(m, q), j) = Piece(m, q, j)
           /\ NextIovec(Rest(m, q), j) = Rest(m, q + j)
<1> HdrLen \in Nat \ {0}
    BY FramingAssumption
<1>1. CASE q < HdrLen
    <2> DEFINE iov == Rest(m, q)
    <2>1. /\ Len(iov) = 2
          /\ iov[1] = [at |-> q, len |-> HdrLen - q]
          /\ iov[2] = [at |-> HdrLen, len |-> m.total - HdrLen]
        BY <1>1 DEF Rest
    <2> HIDE DEF iov
    <2>2. Gathered(m, iov, j) = Piece(m, q, j)
        BY <2>1, <1>1 DEF Gathered, Piece
    <2>3. ASSUME q + j < HdrLen PROVE NextIovec(iov, j) = Rest(m, q + j)
        <3>1. IovecCopy(iov, 0, j) = [k \in 1 .. 2 |->
                    IF k = 1 THEN [at |-> q + j, len |-> HdrLen - (q + j)] ELSE iov[2]]
            BY <2>1, <2>3 DEF IovecCopy
        <3>2. NextIovec(iov, j) = IovecCopy(iov, 0, j)
            BY <2>1, <2>3 DEF NextIovec
        <3>3. QED BY <2>1, <2>3, <3>1, <3>2 DEF Rest
    <2>4. ASSUME q + j >= HdrLen /\ q + j < m.total PROVE NextIovec(iov, j) = Rest(m, q + j)
        <3>1. IovecCopy(iov, 1, j - iov[1].len) = [k \in 1 .. 1 |->
                    [at |-> HdrLen + (j - (HdrLen - q)),
                     len |-> m.total - HdrLen - (j - (HdrLen - q))]]
            BY <2>1, <2>4 DEF IovecCopy
        <3>2. NextIovec(iov, j) = IovecCopy(iov, 1, j - iov[1].len)
            BY <2>1, <2>4 DEF NextIovec
        <3>3. /\ HdrLen + (j - (HdrLen - q)) = q + j
              /\ m.total - HdrLen - (j - (HdrLen - q)) = m.total - (q + j)
            OBVIOUS
        <3>4. NextIovec(iov, j) = [k \in 1 .. 1 |-> [at |-> q + j, len |-> m.total - (q + j)]]
            BY <3>1, <3>2, <3>3
        <3>5. Rest(m, q + j) = <<[at |-> q + j, len |-> m.total - (q + j)]>>
            BY <2>4 DEF Rest
        <3>6. QED BY <3>4, <3>5
    <2>5. ASSUME q + j = m.total /\ q + j >= HdrLen PROVE NextIovec(iov, j) = Rest(m, q + j)
        BY <2>1, <2>5 DEF NextIovec, Rest
    <2>6. QED BY <2>2, <2>3, <2>4, <2>5 DEF iov
<1>2. CASE q >= HdrLen
    <2> DEFINE iov == Rest(m, q)
    <2>1. Len(iov) = 1 /\ iov[1] = [at |-> q, len |-> m.total - q]
        BY <1>2 DEF Rest
    <2> HIDE DEF iov
    <2>2. Gathered(m, iov, j) = Piece(m, q, j)
        BY <2>1, <1>2 DEF Gathered, Piece
    <2>3. ASSUME q + j < m.total PROVE NextIovec(iov, j) = Rest(m, q + j)
        <3>1. IovecCopy(iov, 0, j) =
                [k \in 1 .. 1 |-> [at |-> q + j, len |-> m.total - (q + j)]]
            BY <2>1, <2>3 DEF IovecCopy
        <3>2. NextIovec(iov, j) = IovecCopy(iov, 0, j)
            BY <2>1, <2>3 DEF NextIovec
        <3>3. QED BY <1>2, <2>3, <3>1, <3>2 DEF Rest
    <2>4. ASSUME q + j = m.total PROVE NextIovec(iov, j) = Rest(m, q + j)
        BY <1>2, <2>1, <2>4 DEF NextIovec, Rest
    <2>5. QED BY <2>2, <2>3, <2>4 DEF iov
<1>3. QED BY <1>1, <1>2

-----------------------------------------------------------------------------
(* Streams: the bytes a reader has and those on their way to it. *)

(* The bytes of s end with the last byte of a message.                        *)
Whole(s) == Len(s) > 0 => s[Len(s)].pos = s[Len(s)].msg.total

(* The next byte after s is byte q + 1 of m.                                  *)
Follows(s, m, q) ==
    IF q = 0 THEN Whole(s) ELSE Len(s) > 0 /\ s[Len(s)] = [msg |-> m, pos |-> q]

(* s starts with the first byte of a message, each byte decides those up to   *)
(* the end of its message, and there the next message starts.                 *)
Flows(s) ==
    /\ Len(s) > 0 => s[1].pos = 1
    /\ \A k \in 1 .. Len(s) : s[k].msg \in Message /\ s[k].pos \in 1 .. s[k].msg.total
    /\ \A i, k \in 1 .. Len(s) :
          i <= k /\ k - i <= s[i].msg.total - s[i].pos
          => s[k] = [msg |-> s[i].msg, pos |-> s[i].pos + (k - i)]
    /\ \A k \in 1 .. Len(s) - 1 : s[k].pos = s[k].msg.total => s[k + 1].pos = 1

Stream(f) == got[Up(f)] \o wire[Up(f)]

(* The writer goes on where the stream stops.                                 *)
WriterOK(f) ==
    IF out[Up(f)] = <<>>
    THEN Whole(Stream(f))
    ELSE /\ msg[Up(f)] \in Message
         /\ \E q \in 0 .. msg[Up(f)].total - 1 :
               out[Up(f)] = Rest(msg[Up(f)], q) /\ Follows(Stream(f), msg[Up(f)], q)

(* The reader has less than a header, or less than the message it has the     *)
(* header of.                                                                 *)
ReaderOK(f) ==
    LET bytes == got[Up(f)]
    IN  IF total[Up(f)] = 0
        THEN Len(bytes) < HdrLen
        ELSE /\ Len(bytes) \in 1 .. total[Up(f)] - 1
             /\ total[Up(f)] = bytes[1].msg.total

StreamOK(f) ==
    /\ Flows(Stream(f))
    /\ WriterOK(f)
    /\ ReaderOK(f)
    /\ given[f] # Garbage

Writing == \A l \in Link : out[l] # <<>> => msg[l] # Nothing

Drained == \A f \in Conn : out[Up(f)] # <<>> => guest[f] \in {"sending", "gone"}

Streams == \A f \in Conn \ cut : StreamOK(f)

Requests == \A f \in Conn : msg[Up(f)] # Garbage

TypeInv == TypeOK /\ Writing /\ Requests

IInv == TypeInv /\ Drained /\ Streams

-----------------------------------------------------------------------------
(* Lemmas about streams. *)

(* What a writer adds to a stream that stops where it goes on. *)
LEMMA StreamGrows ==
    ASSUME NEW s \in Seq(Byte), Flows(s),
           NEW m \in Message, NEW q \in 0 .. m.total - 1, Follows(s, m, q),
           NEW j \in 1 .. m.total - q
    PROVE  LET t == s \o Piece(m, q, j)
           IN  t \in Seq(Byte) /\ Flows(t) /\ Len(t) > 0 /\ t[Len(t)] = [msg |-> m, pos |-> q + j]
<1> DEFINE a == Piece(m, q, j)
           t == s \o a
           L == Len(s)
<1>1. m.total \in Nat
    BY Messages, Totals
<1> m.total \in Nat /\ q \in Nat /\ j \in Nat \ {0} /\ q + j <= m.total
    BY <1>1
<1>2. /\ a \in Seq(Byte) /\ Len(a) = j
      /\ \A d \in 1 .. j : a[d] = [msg |-> m, pos |-> q + d]
    BY <1>1 DEF Piece, Byte
<1>3. /\ t \in Seq(Byte) /\ Len(t) = L + j /\ L \in Nat
      /\ \A k \in 1 .. L : t[k] = s[k]
      /\ \A d \in 1 .. j : t[L + d] = [msg |-> m, pos |-> q + d]
    <2> HIDE DEF a
    <2>1. /\ t \in Seq(Byte) /\ Len(t) = L + Len(a) /\ L \in Nat
          /\ \A k \in 1 .. L + Len(a) : t[k] = IF k <= L THEN s[k] ELSE a[k - L]
        <3>1. a \in Seq(Byte) /\ s \in Seq(Byte)
            BY <1>2
        <3>2. /\ s \o a \in Seq(Byte) /\ Len(s \o a) = Len(s) + Len(a)
              /\ \A i \in 1 .. Len(s) + Len(a) :
                    (s \o a)[i] = IF i <= Len(s) THEN s[i] ELSE a[i - Len(s)]
            BY <3>1, ConcatProperties
        <3>3. QED BY <3>1, <3>2, LenProperties
    <2>2. ASSUME NEW d \in 1 .. j PROVE t[L + d] = [msg |-> m, pos |-> q + d]
        BY <1>2, <2>1
    <2>3. QED BY <1>2, <2>1, <2>2
<1> HIDE DEF a, t, L
<1> L \in Nat
    BY <1>3
<1>4. \A k \in 1 .. L + j : k \in 1 .. L \/ \E d \in 1 .. j : k = L + d
    <2>1. ASSUME NEW k \in 1 .. L + j, k > L PROVE k - L \in 1 .. j /\ k = L + (k - L)
        BY <1>3, <2>1
    <2>2. QED BY <1>3, <2>1
<1>5. /\ L > 0 => s[1].pos = 1
      /\ \A k \in 1 .. L : s[k].msg \in Message /\ s[k].pos \in 1 .. s[k].msg.total
      /\ \A i, k \in 1 .. L :
            i <= k /\ k - i <= s[i].msg.total - s[i].pos
            => s[k] = [msg |-> s[i].msg, pos |-> s[i].pos + (k - i)]
      /\ \A k \in 1 .. L - 1 : s[k].pos = s[k].msg.total => s[k + 1].pos = 1
    BY DEF Flows, L
<1>6. /\ q = 0 /\ L > 0 => s[L].pos = s[L].msg.total
      /\ q # 0 => L > 0 /\ s[L] = [msg |-> m, pos |-> q]
    BY DEF Follows, Whole, L
<1>7. Len(t) > 0 => t[1].pos = 1
    <2>1. CASE L > 0
        BY <1>3, <1>5, <2>1
    <2>2. CASE L = 0
        <3>1. q = 0 /\ 1 \in 1 .. j /\ L + 1 = 1
            BY <1>6, <2>2
        <3>2. t[1] = [msg |-> m, pos |-> 0 + 1]
            BY <1>3, <3>1
        <3>3. QED BY <3>2
    <2>3. QED BY <1>3, <2>1, <2>2
<1>8. \A k \in 1 .. Len(t) : t[k].msg \in Message /\ t[k].pos \in 1 .. t[k].msg.total
    <2> SUFFICES ASSUME NEW k \in 1 .. L + j
                 PROVE  t[k].msg \in Message /\ t[k].pos \in 1 .. t[k].msg.total
        BY <1>3
    <2>1. CASE k \in 1 .. L
        BY <1>3, <1>5, <2>1
    <2>2. ASSUME NEW d \in 1 .. j, k = L + d
          PROVE  t[k].msg \in Message /\ t[k].pos \in 1 .. t[k].msg.total
        <3>1. t[k] = [msg |-> m, pos |-> q + d]
            BY <1>3, <2>2
        <3>2. q + d \in 1 .. m.total
            BY <2>2
        <3>3. QED BY <3>1, <3>2
    <2>3. QED BY <1>4, <2>1, <2>2
<1>9. \A i, k \in 1 .. Len(t) :
          i <= k /\ k - i <= t[i].msg.total - t[i].pos
          => t[k] = [msg |-> t[i].msg, pos |-> t[i].pos + (k - i)]
    <2> SUFFICES ASSUME NEW i \in 1 .. L + j, NEW k \in 1 .. L + j,
                        i <= k, k - i <= t[i].msg.total - t[i].pos
                 PROVE  t[k] = [msg |-> t[i].msg, pos |-> t[i].pos + (k - i)]
        BY <1>3
    <2>1. CASE i \in 1 .. L /\ k \in 1 .. L
        BY <1>3, <1>5, <2>1
    <2>2. ASSUME i \in 1 .. L, NEW d \in 1 .. j, k = L + d
          PROVE  t[k] = [msg |-> t[i].msg, pos |-> t[i].pos + (k - i)]
        <3> DEFINE p == s[i].pos
                   T == s[i].msg.total
        <3>1. s[i].msg \in Message /\ p \in Nat /\ p >= 1 /\ T \in Nat
            <4>1. s[i].msg \in Message /\ s[i].pos \in 1 .. s[i].msg.total
                BY <1>5, <2>2
            <4>2. s[i].msg.total \in Nat
                BY <4>1, Messages, Totals
            <4>3. QED BY <4>1, <4>2
        <3>2. t[i] = s[i] /\ k - i <= T - p
            BY <1>3, <2>2
        <3>3. t[k] = [msg |-> m, pos |-> q + d]
            BY <1>3, <2>2
        <3>4. L \in 1 .. L
            <4>1. i \in 1 .. L
                BY <2>2
            <4>2. QED BY <4>1
        <3> HIDE DEF p, T
        <3>5. i \in Nat /\ d \in Nat /\ d >= 1 /\ i <= L /\ k = L + d
            BY <2>2
        <3>6. L + d - i <= T - p
            BY <3>2, <3>5
        <3>7. L - i <= T - p /\ p + (L - i) # T
            BY <3>1, <3>5, <3>6
        <3>8. s[L] = [msg |-> s[i].msg, pos |-> p + (L - i)]
            BY <1>5, <2>2, <3>4, <3>5, <3>7 DEF p, T
        <3>9. q # 0
            <4>1. s[L].pos # s[L].msg.total
                BY <3>7, <3>8 DEF T
            <4>2. L > 0
                BY <3>4
            <4>3. QED BY <1>6, <4>1, <4>2
        <3>10. s[i].msg = m /\ p + (L - i) = q
            <4>1. s[L] = [msg |-> m, pos |-> q]
                BY <1>6, <3>9
            <4>2. QED BY <3>8, <4>1
        <3>11. p + (k - i) = q + d
            <4>1. p + (L + d - i) = p + (L - i) + d
                BY <3>1, <3>5
            <4>2. QED BY <3>5, <3>10, <4>1
        <3>12. QED BY <3>2, <3>3, <3>10, <3>11 DEF p
    <2>3. ASSUME NEW c \in 1 .. j, i = L + c, NEW d \in 1 .. j, k = L + d
          PROVE  t[k] = [msg |-> t[i].msg, pos |-> t[i].pos + (k - i)]
        <3>1. t[i] = [msg |-> m, pos |-> q + c] /\ t[k] = [msg |-> m, pos |-> q + d]
            BY <1>3, <2>3
        <3>2. q + c + (L + d - (L + c)) = q + d
            OBVIOUS
        <3>3. QED BY <2>3, <3>1, <3>2
    <2>4. ASSUME NEW c \in 1 .. j, i = L + c, k \in 1 .. L
          PROVE  FALSE
        BY <1>3, <2>4
    <2>5. QED BY <1>4, <2>1, <2>2, <2>3, <2>4
<1>10. \A k \in 1 .. Len(t) - 1 : t[k].pos = t[k].msg.total => t[k + 1].pos = 1
    <2> SUFFICES ASSUME NEW k \in 1 .. L + j - 1, t[k].pos = t[k].msg.total
                 PROVE  t[k + 1].pos = 1
        BY <1>3
    <2>1. CASE k \in 1 .. L - 1
        BY <1>3, <1>5, <2>1
    <2>2. CASE k = L
        <3>1. t[k] = s[L] /\ L > 0 /\ 1 \in 1 .. j
            BY <1>3, <2>2
        <3>2. q = 0
            BY <1>1, <1>6, <2>2, <3>1
        <3>3. t[L + 1] = [msg |-> m, pos |-> 0 + 1]
            BY <1>3, <3>1, <3>2
        <3>4. QED BY <2>2, <3>3
    <2>3. CASE k > L
        <3>1. PICK d \in 1 .. j - 1 : k = L + d
            <4>1. k - L \in 1 .. j - 1 /\ k = L + (k - L)
                BY <1>3, <2>3
            <4>2. QED BY <4>1
        <3>2. t[k] = [msg |-> m, pos |-> q + d]
            BY <1>3, <3>1
        <3>3. QED BY <3>1, <3>2
    <2>4. QED BY <1>3, <2>1, <2>2, <2>3
<1>11. Len(t) > 0 /\ t[Len(t)] = [msg |-> m, pos |-> q + j]
    <2>1. j \in 1 .. j /\ L + j > 0
        BY <1>3
    <2>2. QED BY <1>3, <2>1
<1>12. QED BY <1>3, <1>7, <1>8, <1>9, <1>10, <1>11 DEF Flows, t, a

(* What a reader that is between two messages leaves of a stream. *)
LEMMA StreamShrinks ==
    ASSUME NEW s \in Seq(Byte), Flows(s), NEW n \in 0 .. Len(s),
           n < Len(s) => s[n + 1].pos = 1
    PROVE  LET t == SubSeq(s, n + 1, Len(s))
           IN  /\ t \in Seq(Byte) /\ Flows(t) /\ Len(t) = Len(s) - n
               /\ Len(t) > 0 => t[Len(t)] = s[Len(s)]
<1> DEFINE t == SubSeq(s, n + 1, Len(s))
           L == Len(s)
<1>1. L \in Nat /\ n \in 0 .. L /\ \A k \in 1 .. L : s[k] \in Byte
    BY ElementOfSeq, LenProperties
<1>2. /\ t \in Seq(Byte) /\ Len(t) = L - n
      /\ \A k \in 1 .. L - n : t[k] = s[n + k]
    <2>1. \A k \in n + 1 .. L : s[k] \in Byte
        BY <1>1
    <2>2. /\ t \in Seq(Byte)
          /\ Len(t) = IF n + 1 <= L THEN L - (n + 1) + 1 ELSE 0
          /\ \A k \in 1 .. L - (n + 1) + 1 : t[k] = s[n + 1 + k - 1]
        BY <1>1, <2>1, SubSeqProperties
    <2>3. L - (n + 1) + 1 = L - n /\ \A k \in 1 .. L - n : n + 1 + k - 1 = n + k
        BY <1>1
    <2>4. QED BY <1>1, <2>2, <2>3
<1>3. /\ \A k \in 1 .. L : s[k].msg \in Message /\ s[k].pos \in 1 .. s[k].msg.total
      /\ \A i, k \in 1 .. L :
            i <= k /\ k - i <= s[i].msg.total - s[i].pos
            => s[k] = [msg |-> s[i].msg, pos |-> s[i].pos + (k - i)]
      /\ \A k \in 1 .. L - 1 : s[k].pos = s[k].msg.total => s[k + 1].pos = 1
    BY DEF Flows, L
<1>4. n < L => s[n + 1].pos = 1
    OBVIOUS
<1> HIDE DEF t, L
<1> L \in Nat /\ n \in 0 .. L
    BY <1>1
<1>5. Len(t) > 0 => t[1].pos = 1
    BY <1>2, <1>4
<1>6. \A k \in 1 .. Len(t) : t[k].msg \in Message /\ t[k].pos \in 1 .. t[k].msg.total
    <2>1. ASSUME NEW k \in 1 .. L - n
          PROVE  t[k].msg \in Message /\ t[k].pos \in 1 .. t[k].msg.total
        <3>1. n + k \in 1 .. L /\ t[k] = s[n + k]
            BY <1>2, <2>1
        <3>2. QED BY <1>3, <3>1
    <2>2. QED BY <1>2, <2>1
<1>7. \A i, k \in 1 .. Len(t) :
          i <= k /\ k - i <= t[i].msg.total - t[i].pos
          => t[k] = [msg |-> t[i].msg, pos |-> t[i].pos + (k - i)]
    <2> SUFFICES ASSUME NEW i \in 1 .. L - n, NEW k \in 1 .. L - n,
                        i <= k, k - i <= t[i].msg.total - t[i].pos
                 PROVE  t[k] = [msg |-> t[i].msg, pos |-> t[i].pos + (k - i)]
        BY <1>2
    <2>1. /\ n + i \in 1 .. L /\ n + k \in 1 .. L /\ n + i <= n + k
          /\ n + k - (n + i) = k - i
        OBVIOUS
    <2>2. t[i] = s[n + i] /\ t[k] = s[n + k]
        BY <1>2
    <2>3. s[n + k] = [msg |-> s[n + i].msg, pos |-> s[n + i].pos + (n + k - (n + i))]
        BY <1>3, <2>1, <2>2
    <2>4. QED BY <2>1, <2>2, <2>3
<1>8. \A k \in 1 .. Len(t) - 1 : t[k].pos = t[k].msg.total => t[k + 1].pos = 1
    <2> SUFFICES ASSUME NEW k \in 1 .. L - n - 1, t[k].pos = t[k].msg.total
                 PROVE  t[k + 1].pos = 1
        BY <1>2
    <2>1. t[k] = s[n + k] /\ t[k + 1] = s[n + k + 1]
        BY <1>2
    <2>2. n + k \in 1 .. L - 1
        OBVIOUS
    <2>3. QED BY <1>3, <2>1, <2>2
<1>9. Len(t) > 0 => t[Len(t)] = s[L]
    <2>1. n + (L - n) = L
        OBVIOUS
    <2>2. QED BY <1>2, <2>1
<1>10. QED BY <1>2, <1>5, <1>6, <1>7, <1>8, <1>9 DEF Flows, t, L

(* The bytes up to the end of the first message are that message's. *)
LEMMA FirstMessage ==
    ASSUME NEW s \in Seq(Byte), Flows(s), NEW k \in 1 .. Len(s), k <= s[1].msg.total
    PROVE  s[1].msg \in Message /\ s[k] = [msg |-> s[1].msg, pos |-> k]
<1>1. Len(s) \in Nat /\ 1 \in 1 .. Len(s) /\ Len(s) > 0 /\ k \in 1 .. Len(s)
    BY LenProperties
<1>2. s[1].pos = 1 /\ s[1].msg \in Message
    BY <1>1 DEF Flows
<1>3. s[1].msg.total \in Nat
    BY <1>2, Messages, Totals
<1>4. k - 1 <= s[1].msg.total - s[1].pos /\ 1 <= k
    BY <1>1, <1>2, <1>3
<1>5. s[k] = [msg |-> s[1].msg, pos |-> s[1].pos + (k - 1)]
    BY <1>1, <1>4 DEF Flows
<1>6. s[1].pos + (k - 1) = k
    BY <1>1, <1>2
<1>7. QED BY <1>2, <1>5, <1>6

(* Reading moves bytes from what is on its way to what was read. *)
LEMMA ReadMoves ==
    ASSUME NEW g \in Seq(Byte), NEW w \in Seq(Byte), NEW j \in 1 .. Len(w)
    PROVE  LET b == g \o SubSeq(w, 1, j)
               r == SubSeq(w, j + 1, Len(w))
               s == g \o w
           IN  /\ b \in Seq(Byte) /\ Len(b) = Len(g) + j
               /\ r \in Seq(Byte)
               /\ s \in Seq(Byte) /\ Len(s) >= Len(b)
               /\ b \o r = s
               /\ \A k \in 1 .. Len(b) : b[k] = s[k]
               /\ r = SubSeq(s, Len(b) + 1, Len(s))
<1> DEFINE a == SubSeq(w, 1, j)
           b == g \o a
           r == SubSeq(w, j + 1, Len(w))
           s == g \o w
           G == Len(g)
           W == Len(w)
<1>1. G \in Nat /\ W \in Nat /\ j \in 1 .. W /\ \A k \in 1 .. W : w[k] \in Byte
    BY ElementOfSeq, LenProperties
<1>2. /\ a \in Seq(Byte) /\ Len(a) = j /\ \A k \in 1 .. j : a[k] = w[k]
    <2>1. /\ a \in Seq(Byte) /\ Len(a) = IF 1 <= j THEN j - 1 + 1 ELSE 0
          /\ \A k \in 1 .. j - 1 + 1 : a[k] = w[1 + k - 1]
        BY <1>1, SubSeqProperties
    <2>2. j - 1 + 1 = j /\ \A k \in 1 .. j : 1 + k - 1 = k
        BY <1>1
    <2>3. QED BY <1>1, <2>1, <2>2
<1>3. /\ r \in Seq(Byte) /\ Len(r) = W - j /\ \A k \in 1 .. W - j : r[k] = w[j + k]
    <2>1. /\ r \in Seq(Byte) /\ Len(r) = IF j + 1 <= W THEN W - (j + 1) + 1 ELSE 0
          /\ \A k \in 1 .. W - (j + 1) + 1 : r[k] = w[j + 1 + k - 1]
        BY <1>1, SubSeqProperties
    <2>2. W - (j + 1) + 1 = W - j /\ \A k \in 1 .. W - j : j + 1 + k - 1 = j + k
        BY <1>1
    <2>3. Len(r) = W - j
        BY <1>1, <2>1
    <2>4. \A k \in 1 .. W - j : r[k] = w[j + k]
        BY <2>1, <2>2
    <2>5. QED BY <2>1, <2>3, <2>4
<1> HIDE DEF a, r
<1>4. /\ b \in Seq(Byte) /\ Len(b) = G + j
      /\ \A k \in 1 .. G + j : b[k] = IF k <= G THEN g[k] ELSE a[k - G]
    BY <1>2, ConcatProperties
<1>5. /\ s \in Seq(Byte) /\ Len(s) = G + W
      /\ \A k \in 1 .. G + W : s[k] = IF k <= G THEN g[k] ELSE w[k - G]
    BY ConcatProperties
<1> HIDE DEF b
<1>6. /\ b \o r \in Seq(Byte) /\ Len(b \o r) = G + j + (W - j)
      /\ \A k \in 1 .. G + j + (W - j) : (b \o r)[k] = IF k <= G + j THEN b[k] ELSE r[k - (G + j)]
    <2>1. /\ b \o r \in Seq(Byte) /\ Len(b \o r) = Len(b) + Len(r)
          /\ \A k \in 1 .. Len(b) + Len(r) :
                (b \o r)[k] = IF k <= Len(b) THEN b[k] ELSE r[k - Len(b)]
        BY <1>3, <1>4, ConcatProperties
    <2>2. QED BY <1>3, <1>4, <2>1
<1> HIDE DEF s, G, W
<1> G \in Nat /\ W \in Nat /\ j \in 1 .. W
    BY <1>1
<1>7. \A k \in 1 .. G + j : b[k] = s[k]
    <2> SUFFICES ASSUME NEW k \in 1 .. G + j PROVE b[k] = s[k]
        OBVIOUS
    <2>1. CASE k <= G
        BY <1>4, <1>5, <2>1
    <2>2. CASE k > G
        <3>1. k - G \in 1 .. j /\ k \in 1 .. G + W /\ ~(k <= G)
            BY <2>2
        <3>2. QED BY <1>2, <1>4, <1>5, <3>1
    <2>3. QED BY <2>1, <2>2
<1>8. \A k \in 1 .. W - j : s[G + j + k] = r[k]
    <2> SUFFICES ASSUME NEW k \in 1 .. W - j PROVE s[G + j + k] = r[k]
        OBVIOUS
    <2>1. G + j + k \in 1 .. G + W /\ ~(G + j + k <= G) /\ G + j + k - G = j + k
        OBVIOUS
    <2>2. s[G + j + k] = w[G + j + k - G]
        BY <1>5, <2>1
    <2>3. QED BY <1>3, <2>1, <2>2
<1>9. b \o r = s
    <2>1. Len(b \o r) = Len(s)
        BY <1>5, <1>6
    <2>2. ASSUME NEW k \in 1 .. Len(s) PROVE (b \o r)[k] = s[k]
        <3>1. k \in 1 .. G + W /\ G + j + (W - j) = G + W
            BY <1>5, <2>2
        <3>2. CASE k <= G + j
            BY <1>6, <1>7, <3>1, <3>2
        <3>3. CASE k > G + j
            <4>1. k - (G + j) \in 1 .. W - j /\ G + j + (k - (G + j)) = k
                BY <3>1, <3>3
            <4>2. (b \o r)[k] = r[k - (G + j)]
                BY <1>6, <3>1, <3>3
            <4>3. s[G + j + (k - (G + j))] = r[k - (G + j)]
                BY <1>8, <4>1
            <4>4. QED BY <4>1, <4>2, <4>3
        <3>4. k <= G + j \/ k > G + j
            BY <3>1
        <3>5. QED BY <3>2, <3>3, <3>4, Zenon
    <2>3. QED BY <1>5, <1>6, <2>1, <2>2, SeqEqual
<1>10. r = SubSeq(s, Len(b) + 1, Len(s))
    <2> DEFINE x == SubSeq(s, Len(b) + 1, Len(s))
    <2>1. \A k \in G + j + 1 .. G + W : s[k] \in Byte
        BY <1>5, ElementOfSeq
    <2>2. /\ x \in Seq(Byte)
          /\ Len(x) = IF G + j + 1 <= G + W THEN G + W - (G + j + 1) + 1 ELSE 0
          /\ \A k \in 1 .. G + W - (G + j + 1) + 1 : x[k] = s[G + j + 1 + k - 1]
        BY <1>4, <1>5, <2>1, SubSeqProperties
    <2> HIDE DEF x
    <2>3. G + W - (G + j + 1) + 1 = W - j /\ \A k \in 1 .. W - j : G + j + 1 + k - 1 = G + j + k
        OBVIOUS
    <2>4. Len(x) = W - j /\ \A k \in 1 .. W - j : x[k] = r[k]
        BY <1>8, <2>2, <2>3
    <2>5. QED BY <1>3, <2>2, <2>4, SeqEqual DEF x
<1>11. /\ b \in Seq(Byte) /\ Len(b) = G + j /\ Len(s) >= Len(b)
       /\ \A k \in 1 .. Len(b) : b[k] = s[k]
    BY <1>4, <1>5, <1>7
<1>12. QED BY <1>3, <1>5, <1>9, <1>10, <1>11 DEF a, b, r, s, G

-----------------------------------------------------------------------------
(* Types. *)

LEMMA Links ==
    /\ \A f \in Conn : Up(f) \in Link /\ Down(f) \in Link
    /\ \A f, g \in Conn : Up(f) # Down(g)
    /\ \A f, g \in Conn : f # g => Up(f) # Up(g) /\ Down(f) # Down(g)
BY DEF Up, Down, Link

LEMMA Constants ==
    /\ HdrLen \in Nat \ {0} /\ Capacity \in Nat \ {0}
    /\ Total \subseteq Nat /\ HdrLen \in Total
    /\ \A t \in Total : t >= HdrLen
    /\ Garbage.n = -1 /\ Garbage.total = HdrLen /\ Nothing.n = 0
BY Totals, FramingAssumption DEF Total, Garbage, Nothing

(* What writev takes and leaves keeps its type. *)
LEMMA WriteTyped ==
    ASSUME NEW m \in Message \cup {Garbage}, NEW iov \in Seq(Part),
           NEW j \in Nat \ {0}, j <= LenOf(iov)
    PROVE  Gathered(m, iov, j) \in Seq(Byte) /\ NextIovec(iov, j) \in Seq(Part)
<1>1. Len(iov) \in Nat /\ \A k \in 1 .. Len(iov) : iov[k] \in Part
    BY ElementOfSeq, LenProperties
<1>2. \A k \in 1 .. Len(iov) : iov[k].at \in Nat /\ iov[k].len \in Nat
    BY <1>1 DEF Part
<1>3. Len(iov) # 0
    BY DEF LenOf
<1>4. iov[1].at \in Nat /\ iov[1].len \in Nat
    BY <1>1, <1>2, <1>3
<1>5. \A k \in 1 .. j : k > iov[1].len => iov[2].at \in Nat
    <2>1. CASE Len(iov) = 1
        BY <1>4, <2>1 DEF LenOf
    <2>2. CASE Len(iov) > 1
        BY <1>1, <1>2, <2>2
    <2>3. Len(iov) = 1 \/ Len(iov) > 1
        <3>1. \A n \in Nat : n # 0 => n = 1 \/ n > 1
            OBVIOUS
        <3>2. QED BY <1>1, <1>3, <3>1, Zenon
    <2>4. QED BY <2>1, <2>2, <2>3, Zenon
<1>6. Gathered(m, iov, j) \in Seq(Byte)
    <2>1. \A k \in 1 .. j :
              (IF k <= iov[1].len THEN iov[1].at + k ELSE iov[2].at + k - iov[1].len) \in Nat
        BY <1>4, <1>5
    <2>2. \A k \in 1 .. j : Gathered(m, iov, j)[k] \in Byte
        BY <2>1 DEF Gathered, Byte
    <2>3. Gathered(m, iov, j) \in [1 .. j -> Byte]
        BY <2>2 DEF Gathered
    <2>4. QED BY <2>3, IsASeq
<1>7. ASSUME NEW index \in Nat, NEW offset \in Nat,
             index < Len(iov) => offset <= iov[index + 1].len
      PROVE  IovecCopy(iov, index, offset) \in Seq(Part)
    <2> DEFINE c == IovecCopy(iov, index, offset)
    <2>1. CASE index < Len(iov)
        <3>1. Len(iov) - index \in Nat
            BY <1>1, <2>1
        <3>2. index + 1 \in 1 .. Len(iov) /\ iov[index + 1].at \in Nat /\ iov[index + 1].len \in Nat
            BY <1>1, <1>2, <2>1
        <3>3. [at |-> iov[index + 1].at + offset, len |-> iov[index + 1].len - offset] \in Part
            BY <1>7, <2>1, <3>2 DEF Part
        <3>4. \A k \in 1 .. Len(iov) - index : index + k \in 1 .. Len(iov)
            BY <1>1
        <3>5. \A k \in 1 .. Len(iov) - index : c[k] \in Part
            BY <1>1, <3>3, <3>4 DEF IovecCopy
        <3>6. c \in [1 .. Len(iov) - index -> Part]
            BY <3>5 DEF IovecCopy
        <3>7. QED BY <3>1, <3>6, IsASeq
    <2>2. CASE ~(index < Len(iov))
        <3>1. 1 .. Len(iov) - index = 1 .. 0
            BY <1>1, <2>2
        <3>2. c \in [1 .. 0 -> Part]
            BY <3>1 DEF IovecCopy
        <3>3. QED BY <3>2, IsASeq
    <2>3. QED BY <2>1, <2>2
<1>8. NextIovec(iov, j) \in Seq(Part)
    <2>1. CASE Len(iov) >= 1 /\ j < iov[1].len
        <3>1. IovecCopy(iov, 0, j) \in Seq(Part)
            BY <1>4, <1>7, <2>1
        <3>2. QED BY <1>1, <1>4, <2>1, <3>1 DEF NextIovec
    <2>2. CASE /\ ~(Len(iov) >= 1 /\ j < iov[1].len)
               /\ Len(iov) = 2 /\ j >= iov[1].len /\ j - iov[1].len < iov[2].len
        <3>1. iov[2].len \in Nat /\ j - iov[1].len \in Nat
            BY <1>2, <1>4, <2>2
        <3>2. 1 + 1 = 2 /\ 1 < Len(iov) /\ j - iov[1].len <= iov[2].len
            BY <1>4, <2>2, <3>1
        <3>3. IovecCopy(iov, 1, j - iov[1].len) \in Seq(Part)
            BY <1>7, <3>1, <3>2
        <3>4. QED BY <2>2, <3>3 DEF NextIovec
    <2>3. CASE /\ ~(Len(iov) >= 1 /\ j < iov[1].len)
               /\ ~(Len(iov) = 2 /\ j >= iov[1].len /\ j - iov[1].len < iov[2].len)
        BY <2>3, EmptySeq DEF NextIovec
    <2>4. QED BY <2>1, <2>2, <2>3
<1>9. QED BY <1>6, <1>8

LEMMA WriteSomeTyped ==
    ASSUME TypeOK, Writing, NEW l \in Link, WriteSome(l)
    PROVE  wire' \in [Link -> Seq(Byte)] /\ out' \in [Link -> Seq(Part)]
<1>1. PICK j \in 1 .. Capacity - Len(wire[l]) :
          /\ j <= LenOf(out[l])
          /\ wire' = [wire EXCEPT ![l] = @ \o Gathered(msg[l], out[l], j)]
          /\ out' = [out EXCEPT ![l] = NextIovec(@, j)]
    BY DEF WriteSome
<1>2. out[l] \in Seq(Part) /\ wire[l] \in Seq(Byte) /\ msg[l] \in Message \cup {Garbage}
    BY DEF WriteSome, TypeOK, Writing
<1>3. j \in Nat \ {0}
    BY <1>2, Constants, LenProperties
<1>4. Gathered(msg[l], out[l], j) \in Seq(Byte) /\ NextIovec(out[l], j) \in Seq(Part)
    BY <1>1, <1>2, <1>3, WriteTyped
<1>5. wire[l] \o Gathered(msg[l], out[l], j) \in Seq(Byte)
    BY <1>2, <1>4, ConcatProperties
<1>6. QED BY <1>1, <1>4, <1>5 DEF TypeOK

LEMMA ReadSomeTyped ==
    ASSUME TypeOK, NEW l \in Link, NEW j, NEW t, ReadSome(l, j, t)
    PROVE  /\ wire' \in [Link -> Seq(Byte)]
           /\ Extended(l, j) \in Seq(Byte)
           /\ Decoded(Extended(l, j)) \in Message \cup {Garbage}
<1>1. got[l] \in Seq(Byte) /\ wire[l] \in Seq(Byte) /\ j \in 1 .. Len(wire[l])
    BY DEF TypeOK, ReadSome
<1>2. /\ Extended(l, j) \in Seq(Byte) /\ Len(Extended(l, j)) = Len(got[l]) + j
      /\ SubSeq(wire[l], j + 1, Len(wire[l])) \in Seq(Byte)
    BY <1>1, ReadMoves DEF Extended
<1>3. wire' \in [Link -> Seq(Byte)]
    BY <1>2 DEF TypeOK, ReadSome
<1>4. Extended(l, j)[1] \in Byte
    <2>1. 1 \in 1 .. Len(Extended(l, j))
        BY <1>1, <1>2, LenProperties
    <2>2. QED BY <1>2, <2>1, ElementOfSeq
<1>5. Decoded(Extended(l, j)) \in Message \cup {Garbage}
    BY <1>4 DEF Decoded, Byte
<1>6. QED BY <1>2, <1>3, <1>5

-----------------------------------------------------------------------------
(* Every step keeps the types. *)

LEMMA InitTypeInv == Init => TypeInv
<1>1. \A S : <<>> \in Seq(S)
    BY EmptySeq
<1>2. Init => TypeOK
    BY <1>1 DEF Init, TypeOK
<1>3. Init => Writing /\ Requests
    BY Messages, Links DEF Init, Writing, Requests
<1>4. QED BY <1>2, <1>3 DEF TypeInv

LEMMA AskTypes ==
    ASSUME TypeInv, NEW f \in Conn, Ask(f)
    PROVE  TypeInv'
<1>1. PICK b \in BodyLen[f] :
        LET m == [n |-> msg[Up(f)].n + 1, total |-> HdrLen + b]
        IN  /\ msg' = [msg EXCEPT ![Up(f)] = m]
            /\ out' = [out EXCEPT ![Up(f)] = Parts(m)]
    BY DEF Ask
<1> DEFINE m == [n |-> msg[Up(f)].n + 1, total |-> HdrLen + b]
<1>2. b \in Nat /\ m.total \in Total
    BY FramingAssumption DEF Total
<1>3. msg[Up(f)].n \in Nat /\ msg[Up(f)].n < MaxRequests[f] /\ MaxRequests[f] \in Nat
    <2>1. msg[Up(f)] \in Message \cup {Nothing}
        BY Links DEF TypeInv, TypeOK, Requests
    <2>2. msg[Up(f)].n \in Nat
        BY <2>1, Messages, Constants
    <2>3. QED BY <2>2, FramingAssumption DEF Ask
<1>4. m \in Message
    <2>1. m.n \in 1 .. MaxRequests[f]
        BY <1>3
    <2>2. m \in [n : 1 .. MaxRequests[f], total : Total]
        BY <1>2, <2>1
    <2>3. QED BY <2>2 DEF Message
<1>5. Parts(m) \in Seq(Part)
    <2>1. /\ [at |-> 0, len |-> HdrLen] \in Part
          /\ [at |-> HdrLen, len |-> m.total - HdrLen] \in Part
        BY <1>2, Constants DEF Part
    <2> HIDE DEF m
    <2>2. QED BY <2>1 DEF Parts
<1> HIDE DEF m
<1>6. /\ msg' = [msg EXCEPT ![Up(f)] = m]
      /\ out' = [out EXCEPT ![Up(f)] = Parts(m)]
    BY <1>1 DEF m
<1>7. m # Nothing /\ m # Garbage
    BY <1>4, Messages
<1>8. Writing' /\ Requests'
    BY <1>6, <1>7, Links DEF TypeInv, TypeOK, Writing, Requests
<1>9. QED BY <1>4, <1>5, <1>6, <1>8, Links DEF Ask, TypeInv, TypeOK

LEMMA GuestWritesTypes ==
    ASSUME TypeInv, NEW f \in Conn, GuestWrites(f)
    PROVE  TypeInv'
<1>1. Up(f) \in Link /\ WriteSome(Up(f))
    BY Links DEF GuestWrites
<1>2. wire' \in [Link -> Seq(Byte)] /\ out' \in [Link -> Seq(Part)]
    BY <1>1, WriteSomeTyped DEF TypeInv
<1>3. Writing'
    BY <1>1 DEF TypeInv, TypeOK, Writing, WriteSome, GuestWrites
<1>4. QED BY <1>2, <1>3 DEF GuestWrites, TypeInv, TypeOK, Requests, historyVars

LEMMA GuestReadsTypes ==
    ASSUME TypeInv, NEW f \in Conn, GuestReads(f)
    PROVE  TypeInv'
<1>1. PICK j \in 1 .. Capacity, t \in Total \cup {0} :
        LET bytes == Extended(Down(f), j)
        IN  /\ ReadSome(Down(f), j, t)
            /\ IF Len(bytes) = t
               THEN /\ guest' = [guest EXCEPT ![f] = "idle"]
                    /\ answered' = [answered EXCEPT ![f] = Decoded(bytes).n]
                    /\ Keep(Down(f), <<>>, 0)
               ELSE /\ Keep(Down(f), bytes, t)
                    /\ UNCHANGED <<guest, answered>>
    BY DEF GuestReads
<1> DEFINE bytes == Extended(Down(f), j)
<1>2. Down(f) \in Link
    BY Links
<1>3. /\ wire' \in [Link -> Seq(Byte)]
      /\ bytes \in Seq(Byte)
      /\ Decoded(bytes) \in Message \cup {Garbage}
    BY <1>1, <1>2, ReadSomeTyped DEF TypeInv
<1>4. Decoded(bytes).n \in Nat \cup {-1}
    BY <1>3, Messages, Constants
<1>5. CASE Len(bytes) = t
    <2>1. /\ got' = [got EXCEPT ![Down(f)] = <<>>]
          /\ total' = [total EXCEPT ![Down(f)] = 0]
          /\ guest' = [guest EXCEPT ![f] = "idle"]
          /\ answered' = [answered EXCEPT ![f] = Decoded(bytes).n]
        BY <1>1, <1>5 DEF Keep
    <2> HIDE DEF bytes
    <2>2. QED BY <1>2, <1>3, <1>4, <2>1, EmptySeq
              DEF GuestReads, TypeInv, TypeOK, Writing, Requests
<1>6. CASE Len(bytes) # t
    <2>1. /\ got' = [got EXCEPT ![Down(f)] = bytes]
          /\ total' = [total EXCEPT ![Down(f)] = t]
          /\ UNCHANGED <<guest, answered>>
        BY <1>1, <1>6 DEF Keep
    <2> HIDE DEF bytes
    <2>2. QED BY <1>2, <1>3, <2>1 DEF GuestReads, TypeInv, TypeOK, Writing, Requests
<1>7. QED BY <1>5, <1>6

LEMMA ClientKilledTypes ==
    ASSUME TypeInv, NEW f \in Conn, ClientKilled(f)
    PROVE  TypeInv'
<1>1. /\ out' = [out EXCEPT ![Up(f)] = <<>>]
      /\ got' = [got EXCEPT ![Down(f)] = <<>>]
      /\ total' = [total EXCEPT ![Down(f)] = 0]
      /\ wire' = wire \/ wire' = [wire EXCEPT ![Down(f)] = <<>>]
      /\ cut' = cut \/ cut' = cut \cup {f}
      /\ stray' = stray \/ stray' = stray \cup {f}
    BY DEF ClientKilled, Keep
<1>2. /\ out' \in [Link -> Seq(Part)] /\ got' \in [Link -> Seq(Byte)]
      /\ total' \in [Link -> Total \cup {0}] /\ wire' \in [Link -> Seq(Byte)]
      /\ cut' \subseteq Conn /\ stray' \subseteq Conn
    <2>1. /\ <<>> \in Seq(Part) /\ <<>> \in Seq(Byte) /\ Down(f) \in Link
        BY EmptySeq, Links
    <2>2. wire' \in [Link -> Seq(Byte)]
        BY <1>1, <2>1 DEF TypeInv, TypeOK
    <2>3. cut' \subseteq Conn /\ stray' \subseteq Conn
        BY <1>1 DEF TypeInv, TypeOK
    <2>4. QED BY <1>1, <2>1, <2>2, <2>3 DEF TypeInv, TypeOK
<1>3. Writing' /\ Requests'
    BY <1>1, Links DEF ClientKilled, TypeInv, TypeOK, Writing, Requests
<1>4. QED BY <1>2, <1>3 DEF ClientKilled, TypeInv, TypeOK

LEMMA ResetTypes ==
    ASSUME TypeInv, NEW S \in SUBSET Conn, Reset(S)
    PROVE  TypeInv'
<1>1. \A T : <<>> \in Seq(T)
    BY EmptySeq
<1>2. /\ guest' = [f \in Conn |-> IF f \in S THEN "closed" ELSE guest[f]]
      /\ stopped' = stopped \ S
      /\ serving' = "none"
      /\ msg' = [l \in Link |-> IF l[1] \in S THEN Nothing ELSE msg[l]]
      /\ out' = [l \in Link |-> IF l[1] \in S THEN <<>> ELSE out[l]]
      /\ wire' = [l \in Link |-> IF l[1] \in S THEN <<>> ELSE wire[l]]
      /\ got' = [l \in Link |-> IF l[1] \in S THEN <<>> ELSE got[l]]
      /\ total' = [l \in Link |-> IF l[1] \in S THEN 0 ELSE total[l]]
      /\ given' = [f \in Conn |-> IF f \in S THEN Nothing ELSE given[f]]
      /\ answered' = [f \in Conn |-> IF f \in S THEN 0 ELSE answered[f]]
      /\ cut' = cut \ S
      /\ stray' = stray \ S
    BY DEF Reset
<1>3. Writing' /\ Requests'
    BY <1>2, Messages, Links DEF TypeInv, Writing, Requests
<1>4. out' \in [Link -> Seq(Part)] /\ wire' \in [Link -> Seq(Byte)] /\ got' \in [Link -> Seq(Byte)]
    BY <1>1, <1>2 DEF TypeInv, TypeOK
<1>5. QED BY <1>2, <1>3, <1>4 DEF TypeInv, TypeOK

LEMMA DaemonReadsTypes ==
    ASSUME TypeInv, NEW f \in Conn, DaemonReads(f)
    PROVE  TypeInv'
<1>1. PICK j \in 1 .. Capacity, t \in Total \cup {0} :
        LET bytes == Extended(Up(f), j)
            m == Decoded(bytes)
        IN  /\ ReadSome(Up(f), j, t)
            /\ IF Len(bytes) = t
               THEN /\ Keep(Up(f), <<>>, 0)
                    /\ given' = [given EXCEPT ![f] = m]
                    /\ msg' = [msg EXCEPT ![Down(f)] = Reply(m)]
                    /\ out' = [out EXCEPT ![Down(f)] = Parts(Reply(m))]
               ELSE /\ Keep(Up(f), bytes, t)
                    /\ UNCHANGED <<given, msg, out>>
    BY DEF DaemonReads
<1> DEFINE bytes == Extended(Up(f), j)
           m == Decoded(bytes)
<1>2. Up(f) \in Link /\ Down(f) \in Link
    BY Links
<1>3. /\ wire' \in [Link -> Seq(Byte)]
      /\ bytes \in Seq(Byte)
      /\ m \in Message \cup {Garbage}
    BY <1>1, <1>2, ReadSomeTyped DEF TypeInv
<1> HIDE DEF bytes, m
<1>4. Reply(m) \in Message \cup {Garbage} /\ Reply(m).total = HdrLen
    <2>1. CASE m = Garbage
        BY <2>1 DEF Reply, Garbage
    <2>2. CASE m \in Message
        <3>1. PICK g \in Conn : m \in [n : 1 .. MaxRequests[g], total : Total]
            BY <2>2 DEF Message
        <3>2. Reply(m) \in [n : 1 .. MaxRequests[g], total : Total] /\ Reply(m).total = HdrLen
            BY <3>1, Constants DEF Reply
        <3>3. QED BY <3>2 DEF Message
    <2>3. QED BY <1>3, <2>1, <2>2
<1>5. Parts(Reply(m)) \in Seq(Part)
    <2>1. [at |-> 0, len |-> HdrLen] \in Part /\ [at |-> HdrLen, len |-> HdrLen - HdrLen] \in Part
        BY Constants DEF Part
    <2>2. QED BY <1>4, <2>1 DEF Parts
<1>6. CASE Len(bytes) = t
    <2>1. /\ got' = [got EXCEPT ![Up(f)] = <<>>]
          /\ total' = [total EXCEPT ![Up(f)] = 0]
          /\ given' = [given EXCEPT ![f] = m]
          /\ msg' = [msg EXCEPT ![Down(f)] = Reply(m)]
          /\ out' = [out EXCEPT ![Down(f)] = Parts(Reply(m))]
        BY <1>1, <1>6 DEF Keep, bytes, m
    <2>2. Reply(m) # Nothing
        BY <1>4, Messages
    <2>3. Writing' /\ Requests'
        BY <1>2, <2>1, <2>2, Links DEF TypeInv, TypeOK, Writing, Requests
    <2>4. QED BY <1>2, <1>3, <1>4, <1>5, <2>1, <2>3, EmptySeq DEF DaemonReads, TypeInv, TypeOK
<1>7. CASE Len(bytes) # t
    <2>1. /\ got' = [got EXCEPT ![Up(f)] = bytes]
          /\ total' = [total EXCEPT ![Up(f)] = t]
          /\ UNCHANGED <<given, msg, out>>
        BY <1>1, <1>7 DEF Keep, bytes
    <2>2. QED BY <1>2, <1>3, <2>1 DEF DaemonReads, TypeInv, TypeOK, Writing, Requests
<1>8. QED BY <1>6, <1>7

LEMMA DaemonWritesTypes ==
    ASSUME TypeInv, NEW f \in Conn, DaemonWrites(f)
    PROVE  TypeInv'
<1>1. Down(f) \in Link /\ WriteSome(Down(f))
    BY Links DEF DaemonWrites
<1>2. wire' \in [Link -> Seq(Byte)] /\ out' \in [Link -> Seq(Part)]
    BY <1>1, WriteSomeTyped DEF TypeInv
<1>3. Writing'
    BY <1>1 DEF TypeInv, TypeOK, Writing, WriteSome, DaemonWrites
<1>4. QED BY <1>2, <1>3 DEF DaemonWrites, TypeInv, TypeOK, Requests, historyVars

LEMMA TypeInvKept == TypeInv /\ [Next]_vars => TypeInv'
<1> SUFFICES ASSUME TypeInv, [Next]_vars PROVE TypeInv'
    OBVIOUS
<1> USE DEF TypeInv, TypeOK, Writing, Requests, linkVars, historyVars
<1>1. ASSUME NEW f \in Conn, PollReturns(f) PROVE TypeInv'
    BY <1>1 DEF PollReturns
<1>2. ASSUME NEW f \in Conn, PollInterrupted(f) PROVE TypeInv'
    BY <1>2 DEF PollInterrupted
<1>3. ASSUME NEW f \in Conn, Stop(f) \/ Resume(f) \/ VmCloses(f) PROVE TypeInv'
    BY <1>3 DEF Stop, Resume, VmCloses
<1>4. ASSUME NEW f \in Conn, Ready(f) PROVE TypeInv'
    BY <1>4 DEF Ready
<1>5. ASSUME NEW f \in Conn, Reopen(f) PROVE TypeInv'
    BY <1>5 DEF Reopen
<1>6. CASE UNCHANGED vars
    BY <1>6 DEF vars
<1>7. ASSUME NEW f \in Conn, DaemonEof(f) PROVE TypeInv'
    BY <1>7, ResetTypes DEF DaemonEof
<1>8. ASSUME Die PROVE TypeInv'
    BY <1>8, ResetTypes DEF Die
<1>9. ASSUME NEW f \in Conn, SigPipe(f) \/ HandlerCrashes(f) PROVE TypeInv'
    BY <1>8, <1>9 DEF SigPipe, HandlerCrashes
<1>10. QED
    BY <1>1, <1>2, <1>3, <1>4, <1>5, <1>6, <1>7, <1>8, <1>9, AskTypes, GuestWritesTypes,
       GuestReadsTypes, ClientKilledTypes, DaemonReadsTypes, DaemonWritesTypes
       DEF Next, Client, Callback, Killed

-----------------------------------------------------------------------------
(* Every step keeps the streams. *)

LEMMA FrameStream ==
    ASSUME NEW f \in Conn, StreamOK(f),
           msg'[Up(f)] = msg[Up(f)], out'[Up(f)] = out[Up(f)], wire'[Up(f)] = wire[Up(f)],
           got'[Up(f)] = got[Up(f)], total'[Up(f)] = total[Up(f)], given'[f] = given[f]
    PROVE  StreamOK(f)'
BY DEF StreamOK, Stream, WriterOK, ReaderOK

LEMMA StreamTyped ==
    ASSUME TypeOK, NEW f \in Conn
    PROVE  /\ got[Up(f)] \in Seq(Byte) /\ wire[Up(f)] \in Seq(Byte)
           /\ Stream(f) \in Seq(Byte)
<1>1. got[Up(f)] \in Seq(Byte) /\ wire[Up(f)] \in Seq(Byte)
    BY Links DEF TypeOK
<1>2. QED BY <1>1, ConcatProperties DEF Stream

(* A connection on which there is nothing. *)
LEMMA EmptyStream ==
    ASSUME NEW f \in Conn, got[Up(f)] = <<>>, wire[Up(f)] = <<>>, out[Up(f)] = <<>>,
           total[Up(f)] = 0, given[f] = Nothing
    PROVE  StreamOK(f)
<1>1. Stream(f) = <<>> /\ Len(<<>>) = 0
    BY DEF Stream
<1>2. Flows(<<>>) /\ Whole(<<>>)
    BY DEF Flows, Whole
<1>3. QED BY <1>1, <1>2, Constants, Messages DEF StreamOK, WriterOK, ReaderOK

LEMMA InitStreams == Init => Drained /\ Streams
<1> SUFFICES ASSUME Init PROVE Drained /\ Streams
    OBVIOUS
<1>1. ASSUME NEW f \in Conn PROVE StreamOK(f)
    BY Links, EmptyStream DEF Init
<1>2. Drained
    BY Links DEF Init, Drained
<1>3. QED BY <1>1, <1>2 DEF Streams

LEMMA AskStreams ==
    ASSUME IInv, TypeInv', NEW f \in Conn, Ask(f)
    PROVE  Streams'
<1>1. PICK b \in BodyLen[f] :
        LET m == [n |-> msg[Up(f)].n + 1, total |-> HdrLen + b]
        IN  /\ msg' = [msg EXCEPT ![Up(f)] = m]
            /\ out' = [out EXCEPT ![Up(f)] = Parts(m)]
    BY DEF Ask
<1> DEFINE m == [n |-> msg[Up(f)].n + 1, total |-> HdrLen + b]
<1>2. msg' = [msg EXCEPT ![Up(f)] = m] /\ out' = [out EXCEPT ![Up(f)] = Parts(m)]
    BY <1>1
<1> HIDE DEF m
<1>3. Up(f) \in Link /\ msg'[Up(f)] = m /\ out'[Up(f)] = Parts(m)
    BY <1>2, Links DEF IInv, TypeInv, TypeOK
<1>4. Parts(m) = Rest(m, 0) /\ Parts(m) # <<>>
    BY Constants DEF Parts, Rest
<1>5. m \in Message /\ m.total \in Nat /\ 0 \in 0 .. m.total - 1
    <2>1. m \in Message
        BY <1>3, <1>4 DEF TypeInv, TypeOK, Writing, Requests
    <2>2. m.total \in Nat /\ m.total > 0
        BY <2>1, Messages, Totals
    <2>3. QED BY <2>1, <2>2
<1>6. ASSUME NEW g \in Conn \ cut', g # f PROVE StreamOK(g)'
    <2>1. StreamOK(g) /\ Up(g) \in Link /\ Up(g) # Up(f)
        BY <1>6, Links DEF Ask, IInv, Streams
    <2>2. /\ msg'[Up(g)] = msg[Up(g)] /\ out'[Up(g)] = out[Up(g)]
          /\ UNCHANGED <<wire, got, total>> /\ given'[g] = given[g]
        BY <1>2, <1>6, <2>1 DEF Ask, IInv, TypeInv, TypeOK
    <2>3. QED BY <2>1, <2>2, FrameStream
<1>7. ASSUME f \notin cut PROVE StreamOK(f)'
    <2>1. StreamOK(f) /\ out[Up(f)] = <<>>
        BY <1>7 DEF IInv, Streams, Drained, Ask, Runs
    <2>2. Flows(Stream(f)) /\ Whole(Stream(f)) /\ ReaderOK(f)
        BY <2>1 DEF StreamOK, WriterOK
    <2>3. Stream(f)' = Stream(f) /\ ReaderOK(f)'
        BY <2>2 DEF Ask, Stream, ReaderOK
    <2>4. given'[f] # Garbage
        BY Messages DEF Ask, IInv, TypeInv, TypeOK
    <2>5. WriterOK(f)'
        BY <1>3, <1>4, <1>5, <2>2, <2>3 DEF WriterOK, Follows
    <2>6. QED BY <2>2, <2>3, <2>4, <2>5 DEF StreamOK
<1>8. cut' = cut
    BY DEF Ask
<1>9. QED BY <1>6, <1>7, <1>8 DEF Streams

LEMMA GuestWritesStreams ==
    ASSUME IInv, NEW f \in Conn, GuestWrites(f)
    PROVE  Streams'
<1>1. Up(f) \in Link /\ TypeOK
    BY Links DEF IInv, TypeInv
<1>2. PICK j \in 1 .. Capacity - Len(wire[Up(f)]) :
          /\ j <= LenOf(out[Up(f)])
          /\ wire' = [wire EXCEPT ![Up(f)] = @ \o Gathered(msg[Up(f)], out[Up(f)], j)]
          /\ out' = [out EXCEPT ![Up(f)] = NextIovec(@, j)]
    BY DEF GuestWrites, WriteSome
<1>3. UNCHANGED <<msg, got, total, given, cut>>
    BY DEF GuestWrites, historyVars
<1>4. ASSUME NEW g \in Conn \ cut', g # f PROVE StreamOK(g)'
    <2>1. StreamOK(g) /\ Up(g) \in Link /\ Up(g) # Up(f)
        BY <1>3, <1>4, Links DEF IInv, Streams
    <2>2. out'[Up(g)] = out[Up(g)] /\ wire'[Up(g)] = wire[Up(g)]
        BY <1>1, <1>2, <2>1 DEF TypeOK
    <2>3. QED BY <1>3, <2>1, <2>2, FrameStream
<1>5. ASSUME f \notin cut PROVE StreamOK(f)'
    <2> DEFINE m == msg[Up(f)]
               s == Stream(f)
    <2>1. StreamOK(f) /\ out[Up(f)] # <<>>
        BY <1>5 DEF IInv, Streams, GuestWrites, WriteSome
    <2>2. PICK q \in 0 .. m.total - 1 : out[Up(f)] = Rest(m, q) /\ Follows(s, m, q)
        BY <2>1 DEF StreamOK, WriterOK
    <2>3. m \in Message /\ Flows(s) /\ ReaderOK(f) /\ given[f] # Garbage
        BY <2>1 DEF StreamOK, WriterOK
    <2>4. m.total \in Nat /\ m.total >= HdrLen /\ q \in 0 .. m.total
        BY <2>2, <2>3, Messages, Totals
    <2>5. LenOf(Rest(m, q)) = m.total - q
        BY <2>4, RestProperties
    <2>6. j \in 1 .. m.total - q
        <3>1. j \in Nat \ {0}
            BY <1>1, StreamTyped, LenProperties, Constants
        <3>2. j <= m.total - q
            BY <1>2, <2>2, <2>5
        <3>3. QED BY <2>4, <3>1, <3>2
    <2>7. Gathered(m, Rest(m, q), j) = Piece(m, q, j) /\ NextIovec(Rest(m, q), j) = Rest(m, q + j)
        BY <2>4, <2>6, IovecResumes
    <2>8. wire'[Up(f)] = wire[Up(f)] \o Piece(m, q, j) /\ out'[Up(f)] = Rest(m, q + j)
        BY <1>1, <1>2, <2>2, <2>7 DEF TypeOK
    <2>9. Piece(m, q, j) \in Seq(Byte)
        <3>1. \A k \in 1 .. j : Piece(m, q, j)[k] \in Byte
            BY <2>3, <2>4 DEF Piece, Byte
        <3>2. Piece(m, q, j) \in [1 .. j -> Byte] /\ j \in Nat
            BY <2>6, <3>1 DEF Piece
        <3>3. QED BY <3>2, IsASeq
    <2>10. Stream(f)' = s \o Piece(m, q, j)
        <3>1. Stream(f)' = got[Up(f)] \o (wire[Up(f)] \o Piece(m, q, j))
            BY <1>3, <2>8 DEF Stream
        <3>2. got[Up(f)] \in Seq(Byte) /\ wire[Up(f)] \in Seq(Byte)
            BY <1>1, StreamTyped
        <3>3. (got[Up(f)] \o wire[Up(f)]) \o Piece(m, q, j)
                = got[Up(f)] \o (wire[Up(f)] \o Piece(m, q, j))
            <4>1. \A x, y, z \in Seq(Byte) : (x \o y) \o z = x \o (y \o z)
                BY ConcatAssociative
            <4>2. QED BY <2>9, <3>2, <4>1, Zenon
        <3>4. QED BY <3>1, <3>3 DEF Stream
    <2>11. LET t == s \o Piece(m, q, j)
           IN  Flows(t) /\ Len(t) > 0 /\ t[Len(t)] = [msg |-> m, pos |-> q + j]
        BY <1>1, <2>2, <2>3, <2>6, StreamGrows, StreamTyped
    <2> DEFINE t == s \o Piece(m, q, j)
    <2>12. Flows(t) /\ Len(t) > 0 /\ t[Len(t)].pos = q + j /\ t[Len(t)] = [msg |-> m, pos |-> q + j]
           /\ t[Len(t)].msg = m
        BY <2>11
    <2> HIDE DEF t, s, m
    <2>13. Stream(f)' = t /\ msg'[Up(f)] = m
        BY <1>3, <2>10 DEF t, m
    <2>14. WriterOK(f)'
        <3>1. CASE q + j = m.total
            <4>1. Rest(m, q + j) = <<>>
                BY <2>4, <3>1, Constants DEF Rest
            <4>2. QED BY <2>8, <2>12, <2>13, <3>1, <4>1 DEF WriterOK, Whole
        <3>2. CASE q + j # m.total
            <4>1. q + j \in 0 .. m.total - 1 /\ q + j # 0 /\ q + j \in 0 .. m.total
                BY <2>4, <2>6, <3>2
            <4>2. Rest(m, q + j) # <<>>
                BY <2>4, <3>2, <4>1, RestProperties
            <4>3. Follows(t, m, q + j)
                BY <2>12, <4>1 DEF Follows
            <4>4. QED BY <2>3, <2>8, <2>13, <4>1, <4>2, <4>3 DEF WriterOK
        <3>3. QED BY <3>1, <3>2
    <2>15. ReaderOK(f)' /\ given'[f] # Garbage
        BY <1>3, <2>3 DEF ReaderOK
    <2>16. QED BY <2>12, <2>13, <2>14, <2>15 DEF StreamOK
<1>6. QED BY <1>3, <1>4, <1>5 DEF Streams

LEMMA ClientKilledStreams ==
    ASSUME IInv, NEW f \in Conn, ClientKilled(f)
    PROVE  Streams'
<1>1. Up(f) \in Link /\ TypeOK
    BY Links DEF IInv, TypeInv
<1>2. /\ out' = [out EXCEPT ![Up(f)] = <<>>]
      /\ got' = [got EXCEPT ![Down(f)] = <<>>]
      /\ total' = [total EXCEPT ![Down(f)] = 0]
      /\ wire' = wire \/ wire' = [wire EXCEPT ![Down(f)] = <<>>]
      /\ msg' = msg /\ given' = given
      /\ cut \subseteq cut'
    BY DEF ClientKilled, Keep
<1>3. ASSUME NEW g \in Conn
      PROVE  /\ Up(g) \in Link /\ Up(g) # Down(f)
             /\ got'[Up(g)] = got[Up(g)] /\ total'[Up(g)] = total[Up(g)]
             /\ wire'[Up(g)] = wire[Up(g)]
    BY <1>1, <1>2, Links DEF TypeOK
<1>4. ASSUME NEW g \in Conn \ cut', g # f PROVE StreamOK(g)'
    <2>1. StreamOK(g) /\ Up(g) # Up(f)
        BY <1>2, <1>4, Links DEF IInv, Streams
    <2>2. out'[Up(g)] = out[Up(g)]
        BY <1>1, <1>2, <1>3, <2>1 DEF TypeOK
    <2>3. QED BY <1>2, <1>3, <2>1, <2>2, FrameStream
<1>5. ASSUME f \notin cut' PROVE StreamOK(f)'
    <2>1. StreamOK(f)
        BY <1>2, <1>5 DEF IInv, Streams
    <2>2. Whole(Stream(f))
        <3>1. CASE out[Up(f)] = <<>>
            BY <2>1, <3>1 DEF StreamOK, WriterOK
        <3>2. CASE out[Up(f)] # <<>>
            <4>1. guest[f] = "sending"
                BY <3>2 DEF IInv, Drained, ClientKilled
            <4>2. ~(LenOf(out[Up(f)]) < msg[Up(f)].total)
                BY <1>5, <4>1 DEF ClientKilled
            <4>3. PICK q \in 0 .. msg[Up(f)].total - 1 :
                    out[Up(f)] = Rest(msg[Up(f)], q) /\ Follows(Stream(f), msg[Up(f)], q)
                BY <2>1, <3>2 DEF StreamOK, WriterOK
            <4>4. msg[Up(f)].total \in Nat /\ msg[Up(f)].total >= HdrLen /\ q \in 0 .. msg[Up(f)].total
                <5>1. msg[Up(f)] \in Message
                    BY <2>1, <3>2 DEF StreamOK, WriterOK
                <5>2. QED BY <4>3, <5>1, Messages, Totals
            <4>5. LenOf(out[Up(f)]) = msg[Up(f)].total - q
                BY <4>3, <4>4, RestProperties
            <4>6. q = 0
                BY <4>2, <4>4, <4>5
            <4>7. QED BY <4>3, <4>6 DEF Follows
        <3>3. QED BY <3>1, <3>2
    <2>3. Stream(f)' = Stream(f) /\ out'[Up(f)] = <<>>
        BY <1>1, <1>2, <1>3 DEF Stream, TypeOK
    <2>4. WriterOK(f)'
        BY <2>2, <2>3 DEF WriterOK
    <2>5. ReaderOK(f)' /\ Flows(Stream(f)') /\ given'[f] # Garbage
        BY <1>2, <1>3, <2>1, <2>3 DEF StreamOK, ReaderOK
    <2>6. QED BY <2>4, <2>5 DEF StreamOK
<1>6. QED BY <1>4, <1>5 DEF Streams

LEMMA ResetStreams ==
    ASSUME IInv, NEW S \in SUBSET Conn, Reset(S)
    PROVE  Drained' /\ Streams'
<1>1. /\ guest' = [f \in Conn |-> IF f \in S THEN "closed" ELSE guest[f]]
      /\ msg' = [l \in Link |-> IF l[1] \in S THEN Nothing ELSE msg[l]]
      /\ out' = [l \in Link |-> IF l[1] \in S THEN <<>> ELSE out[l]]
      /\ wire' = [l \in Link |-> IF l[1] \in S THEN <<>> ELSE wire[l]]
      /\ got' = [l \in Link |-> IF l[1] \in S THEN <<>> ELSE got[l]]
      /\ total' = [l \in Link |-> IF l[1] \in S THEN 0 ELSE total[l]]
      /\ given' = [f \in Conn |-> IF f \in S THEN Nothing ELSE given[f]]
      /\ cut' = cut \ S
    BY DEF Reset
<1>2. \A f \in Conn : Up(f) \in Link /\ Up(f)[1] = f
    BY Links DEF Up
<1>3. ASSUME NEW f \in S PROVE StreamOK(f)'
    <2>1. /\ got'[Up(f)] = <<>> /\ wire'[Up(f)] = <<>> /\ out'[Up(f)] = <<>>
          /\ total'[Up(f)] = 0 /\ given'[f] = Nothing
        BY <1>1, <1>2
    <2>2. Stream(f)' = <<>> /\ Len(<<>>) = 0
        BY <2>1 DEF Stream
    <2>3. Flows(<<>>) /\ Whole(<<>>)
        BY DEF Flows, Whole
    <2>4. QED BY <2>1, <2>2, <2>3, Constants, Messages DEF StreamOK, WriterOK, ReaderOK
<1>4. ASSUME NEW f \in Conn \ cut', f \notin S PROVE StreamOK(f)'
    <2>1. StreamOK(f)
        BY <1>1, <1>4 DEF IInv, Streams
    <2>2. /\ msg'[Up(f)] = msg[Up(f)] /\ out'[Up(f)] = out[Up(f)] /\ wire'[Up(f)] = wire[Up(f)]
          /\ got'[Up(f)] = got[Up(f)] /\ total'[Up(f)] = total[Up(f)] /\ given'[f] = given[f]
        BY <1>1, <1>2, <1>4
    <2>3. QED BY <2>1, <2>2, FrameStream
<1>5. Drained'
    BY <1>1, <1>2 DEF IInv, Drained
<1>6. QED BY <1>3, <1>4, <1>5 DEF Streams

(* The bytes the reader has after a read belong to one message, and they are  *)
(* no more than it has.                                                       *)
LEMMA ReadInOrder ==
    ASSUME TypeOK, NEW f \in Conn, StreamOK(f), NEW j, NEW t, ReadSome(Up(f), j, t)
    PROVE  LET b == Extended(Up(f), j)
               m == b[1].msg
           IN  /\ b \in Seq(Byte) /\ Len(b) \in 1 .. m.total
               /\ m \in Message /\ Stream(f)[1].msg = m
               /\ InOrder(b)
               /\ IF t = 0 THEN Len(b) < HdrLen ELSE t = m.total
<1> DEFINE g == got[Up(f)]
           w == wire[Up(f)]
           b == Extended(Up(f), j)
           s == Stream(f)
           first == s[1].msg
<1>1. /\ g \in Seq(Byte) /\ w \in Seq(Byte) /\ s \in Seq(Byte) /\ j \in 1 .. Len(w)
      /\ Flows(s) /\ ReaderOK(f)
    BY StreamTyped DEF ReadSome, StreamOK
<1>2. /\ b \in Seq(Byte) /\ Len(b) = Len(g) + j /\ Len(s) >= Len(b)
      /\ \A k \in 1 .. Len(b) : b[k] = s[k]
    BY <1>1, ReadMoves DEF Extended, Stream
<1>3. /\ j <= Wanted(Up(f)) /\ t \in TotalLen(Up(f), b)
    BY DEF ReadSome
<1>4. Len(g) \in Nat /\ j \in Nat \ {0} /\ Len(b) \in Nat \ {0} /\ Len(s) \in Nat /\ Len(s) > 0
    <2>1. Len(g) \in Nat /\ Len(w) \in Nat /\ Len(s) \in Nat /\ Len(b) \in Nat
        BY <1>1, <1>2, LenProperties
    <2>2. QED BY <1>1, <1>2, <2>1
<1>5. first \in Message /\ first.total \in Nat /\ first.total >= HdrLen
    <2>1. 1 \in 1 .. Len(s)
        BY <1>4
    <2>2. first \in Message
        BY <1>1, <2>1 DEF Flows
    <2>3. QED BY <2>2, Messages, Totals
<1>6. total[Up(f)] \in Nat
    <2>1. total[Up(f)] \in Total \cup {0}
        BY Links DEF TypeOK
    <2>2. \A x \in Total \cup {0} : x \in Nat
        BY Constants
    <2>3. QED BY <2>1, <2>2
<1>7. total[Up(f)] # 0 => Len(g) \in 1 .. total[Up(f)] - 1 /\ total[Up(f)] = first.total
    <2>1. SUFFICES ASSUME total[Up(f)] # 0
                   PROVE  Len(g) \in 1 .. total[Up(f)] - 1 /\ total[Up(f)] = first.total
        OBVIOUS
    <2>2. Len(g) \in 1 .. total[Up(f)] - 1 /\ total[Up(f)] = g[1].msg.total
        BY <1>1, <2>1 DEF ReaderOK
    <2>3. 1 \in 1 .. Len(g) + Len(w) /\ 1 <= Len(g)
        <3>1. Len(g) \in Nat /\ Len(w) \in Nat
            BY <1>1, LenProperties
        <3>2. Len(g) >= 1
            BY <1>6, <2>2
        <3>3. \A x, y \in Nat : x >= 1 => 1 \in 1 .. x + y /\ 1 <= x
            OBVIOUS
        <3>4. QED BY <3>1, <3>2, <3>3, Zenon
    <2>4. s[1] = g[1]
        BY <1>1, <2>3, ConcatProperties DEF Stream
    <2>5. QED BY <2>2, <2>4
<1> HIDE DEF g, w, b, s, first
<1>8. Len(b) <= first.total
    <2>1. CASE total[Up(f)] = 0
        <3>1. j <= HdrLen - Len(g)
            BY <1>3, <2>1 DEF Wanted, g
        <3>2. QED BY <1>2, <1>4, <1>5, <3>1, Constants
    <2>2. CASE total[Up(f)] # 0
        <3>1. j <= total[Up(f)] - Len(g)
            BY <1>3, <2>2 DEF Wanted, g
        <3>2. QED BY <1>2, <1>4, <1>5, <1>7, <1>6, <2>2, <3>1
    <2>3. QED BY <2>1, <2>2
<1>9. \A k \in 1 .. Len(b) : b[k] = [msg |-> first, pos |-> k]
    <2> SUFFICES ASSUME NEW k \in 1 .. Len(b) PROVE b[k] = [msg |-> first, pos |-> k]
        OBVIOUS
    <2>1. k \in 1 .. Len(s) /\ k <= first.total
        BY <1>2, <1>4, <1>5, <1>8
    <2>2. s[k] = [msg |-> first, pos |-> k]
        BY <1>1, <2>1, FirstMessage DEF first
    <2>3. QED BY <1>2, <2>2
<1>10. 1 \in 1 .. Len(b) /\ b[1].msg = first
    <2>1. 1 \in 1 .. Len(b)
        BY <1>4
    <2>2. b[1] = [msg |-> first, pos |-> 1]
        BY <1>9, <2>1
    <2>3. QED BY <2>1, <2>2
<1>11. InOrder(b)
    <2>1. DOMAIN b = 1 .. Len(b)
        BY <1>2, LenProperties
    <2>2. QED BY <1>9, <1>10, <2>1 DEF InOrder
<1>12. IF t = 0 THEN Len(b) < HdrLen ELSE t = first.total
    <2>1. CASE total[Up(f)] # 0
        BY <1>3, <1>7, <2>1 DEF TotalLen
    <2>2. CASE total[Up(f)] = 0 /\ Len(b) < HdrLen
        <3>1. ~(Len(b) >= HdrLen)
            BY <1>4, <2>2, Constants
        <3>2. t = 0
            BY <1>3, <2>2, <3>1 DEF TotalLen
        <3>3. QED BY <2>2, <3>2
    <2>3. CASE total[Up(f)] = 0 /\ ~(Len(b) < HdrLen)
        <3>1. Len(b) >= HdrLen
            BY <1>4, <2>3, Constants
        <3>2. t = first.total
            BY <1>3, <1>10, <1>11, <2>3, <3>1 DEF TotalLen
        <3>3. QED BY <1>5, <3>2, Constants
    <2>4. QED BY <2>1, <2>2, <2>3
<1>13. Len(b) \in 1 .. first.total
    BY <1>4, <1>5, <1>8
<1>14. QED BY <1>2, <1>5, <1>10, <1>11, <1>12, <1>13 DEF b, s, first

LEMMA DaemonReadsStreams ==
    ASSUME IInv, NEW f \in Conn, DaemonReads(f)
    PROVE  Streams'
<1>1. PICK j \in 1 .. Capacity, t \in Total \cup {0} :
        LET bytes == Extended(Up(f), j)
            m == Decoded(bytes)
        IN  /\ ReadSome(Up(f), j, t)
            /\ IF Len(bytes) = t
               THEN /\ Keep(Up(f), <<>>, 0)
                    /\ given' = [given EXCEPT ![f] = m]
                    /\ msg' = [msg EXCEPT ![Down(f)] = Reply(m)]
                    /\ out' = [out EXCEPT ![Down(f)] = Parts(Reply(m))]
               ELSE /\ Keep(Up(f), bytes, t)
                    /\ UNCHANGED <<given, msg, out>>
    BY DEF DaemonReads
<1> DEFINE b == Extended(Up(f), j)
           w == wire[Up(f)]
           r == SubSeq(w, j + 1, Len(w))
           s == Stream(f)
           m == b[1].msg
<1>2. TypeOK /\ Up(f) \in Link
    BY Links DEF IInv, TypeInv
<1>3. cut' = cut
    BY DEF DaemonReads
<1>4. wire' = [wire EXCEPT ![Up(f)] = r]
    BY <1>1 DEF ReadSome
<1>5. /\ got' = [got EXCEPT ![Up(f)] = IF Len(b) = t THEN <<>> ELSE b]
      /\ total' = [total EXCEPT ![Up(f)] = IF Len(b) = t THEN 0 ELSE t]
    BY <1>1 DEF Keep
<1>6. /\ given' = IF Len(b) = t THEN [given EXCEPT ![f] = Decoded(b)] ELSE given
      /\ msg' = msg \/ msg' = [msg EXCEPT ![Down(f)] = Reply(Decoded(b))]
      /\ out' = out \/ out' = [out EXCEPT ![Down(f)] = Parts(Reply(Decoded(b)))]
    BY <1>1
<1>7. ASSUME NEW g \in Conn
      PROVE  msg'[Up(g)] = msg[Up(g)] /\ out'[Up(g)] = out[Up(g)]
    <2>1. Up(g) \in Link /\ Up(g) # Down(f)
        BY Links
    <2> HIDE DEF b
    <2>2. QED BY <1>2, <1>6, <2>1 DEF TypeOK
<1>8. ASSUME NEW g \in Conn \ cut', g # f PROVE StreamOK(g)'
    <2>1. StreamOK(g) /\ Up(g) \in Link /\ Up(g) # Up(f)
        BY <1>3, <1>8, Links DEF IInv, Streams
    <2> HIDE DEF b, r
    <2>2. /\ wire'[Up(g)] = wire[Up(g)] /\ got'[Up(g)] = got[Up(g)]
          /\ total'[Up(g)] = total[Up(g)] /\ given'[g] = given[g]
        BY <1>2, <1>4, <1>5, <1>6, <1>8, <2>1 DEF TypeOK
    <2>3. QED BY <1>7, <2>1, <2>2, FrameStream
<1>9. ASSUME f \notin cut PROVE StreamOK(f)'
    <2>1. StreamOK(f)
        BY <1>9 DEF IInv, Streams
    <2>2. Flows(s) /\ WriterOK(f) /\ given[f] # Garbage /\ s \in Seq(Byte)
        BY <1>2, <2>1, StreamTyped DEF StreamOK
    <2>3. /\ b \in Seq(Byte) /\ Len(b) \in 1 .. m.total
          /\ m \in Message /\ s[1].msg = m
          /\ InOrder(b)
          /\ IF t = 0 THEN Len(b) < HdrLen ELSE t = m.total
        BY <1>1, <1>2, <2>1, ReadInOrder
    <2>4. /\ Len(s) >= Len(b) /\ b \o r = s /\ r \in Seq(Byte)
          /\ r = SubSeq(s, Len(b) + 1, Len(s))
        <3>1. got[Up(f)] \in Seq(Byte) /\ w \in Seq(Byte) /\ j \in 1 .. Len(w)
            BY <1>1, <1>2, StreamTyped DEF ReadSome
        <3>2. QED BY <3>1, ReadMoves DEF Extended, Stream
    <2>5. m.total \in Nat /\ m.total > 0 /\ Len(s) \in Nat /\ Len(b) \in Nat
        BY <2>2, <2>3, Messages, Totals, LenProperties
    <2>6. Decoded(b) = m
        BY <2>3 DEF Decoded
    <2>7. wire'[Up(f)] = r
        BY <1>2, <1>4 DEF TypeOK
    <2> HIDE DEF b, r, m, s
    <2>8. CASE Len(b) = t
        <3>1. t = m.total
            BY <2>3, <2>5, <2>8
        <3>2. got'[Up(f)] = <<>> /\ total'[Up(f)] = 0 /\ given'[f] = m
            BY <1>2, <1>5, <1>6, <2>6, <2>8 DEF TypeOK
        <3>3. Stream(f)' = r
            <4>1. Stream(f)' = <<>> \o r
                BY <2>7, <3>2 DEF Stream
            <4>2. QED BY <2>4, <4>1, ConcatEmptySeq
        <3>4. Len(b) \in 1 .. Len(s) /\ s[Len(b)] = [msg |-> m, pos |-> m.total]
            <4>1. Len(b) \in 1 .. Len(s) /\ Len(b) = m.total
                BY <2>3, <2>4, <2>5, <2>8, <3>1
            <4>2. Len(b) <= s[1].msg.total
                BY <2>3, <2>5, <4>1
            <4>3. s[Len(b)] = [msg |-> s[1].msg, pos |-> Len(b)]
                BY <2>2, <4>1, <4>2, FirstMessage
            <4>4. QED BY <2>3, <4>1, <4>3
        <3>5. Len(b) < Len(s) => s[Len(b) + 1].pos = 1
            <4>1. SUFFICES ASSUME Len(b) < Len(s) PROVE s[Len(b) + 1].pos = 1
                OBVIOUS
            <4>2. Len(b) \in 1 .. Len(s) - 1
                BY <2>5, <3>4, <4>1
            <4>3. s[Len(b)].pos = s[Len(b)].msg.total
                BY <3>4
            <4>4. QED BY <2>2, <4>2, <4>3 DEF Flows
        <3>6. Flows(r) /\ Len(r) = Len(s) - Len(b) /\ (Len(r) > 0 => r[Len(r)] = s[Len(s)])
            <4>1. Len(b) \in 0 .. Len(s)
                BY <3>4
            <4>2. QED BY <2>2, <2>4, <3>5, <4>1, StreamShrinks
        <3>7. ASSUME Whole(s) PROVE Whole(r)
            BY <2>5, <3>4, <3>6, <3>7 DEF Whole
        <3>8. ASSUME out[Up(f)] # <<>> PROVE WriterOK(f)'
            <4> DEFINE a == msg[Up(f)]
            <4>1. PICK q \in 0 .. a.total - 1 : out[Up(f)] = Rest(a, q) /\ Follows(s, a, q)
                BY <2>2, <3>8 DEF WriterOK, s
            <4>2. a \in Message /\ a.total \in Nat
                BY <2>2, <3>8, Messages, Totals DEF WriterOK
            <4> HIDE DEF a
            <4>3. Follows(r, a, q)
                <5>1. CASE q = 0
                    BY <3>7, <4>1, <5>1 DEF Follows
                <5>2. CASE q # 0
                    <6>1. Len(s) > 0 /\ s[Len(s)] = [msg |-> a, pos |-> q]
                        BY <4>1, <5>2 DEF Follows
                    <6>2. Len(s) # Len(b)
                        <7>1. SUFFICES ASSUME Len(s) = Len(b) PROVE FALSE
                            OBVIOUS
                        <7>2. [msg |-> a, pos |-> q] = [msg |-> m, pos |-> m.total]
                            BY <3>4, <6>1, <7>1
                        <7>3. q = a.total
                            BY <7>2
                        <7>4. QED BY <4>1, <4>2, <7>3
                    <6>3. Len(r) > 0
                        BY <2>4, <2>5, <3>6, <6>2
                    <6>4. QED BY <3>6, <5>2, <6>1, <6>3 DEF Follows
                <5>3. QED BY <5>1, <5>2
            <4>4. msg'[Up(f)] = a /\ out'[Up(f)] = Rest(a, q) /\ out'[Up(f)] # <<>>
                BY <1>7, <3>8, <4>1 DEF a
            <4>5. QED BY <3>3, <4>1, <4>2, <4>3, <4>4 DEF WriterOK
        <3>9. ASSUME out[Up(f)] = <<>> PROVE WriterOK(f)'
            <4>1. Whole(r)
                BY <2>2, <3>7, <3>9 DEF WriterOK, s
            <4>2. out'[Up(f)] = <<>>
                BY <1>7, <3>9
            <4>3. QED BY <3>3, <4>1, <4>2 DEF WriterOK
        <3>10. ReaderOK(f)'
            <4>1. Len(<<>>) = 0
                OBVIOUS
            <4>2. QED BY <3>2, <4>1, Constants DEF ReaderOK
        <3>11. given'[f] # Garbage
            BY <2>3, <3>2, Messages
        <3>12. QED BY <3>3, <3>6, <3>8, <3>9, <3>10, <3>11 DEF StreamOK
    <2>9. CASE Len(b) # t
        <3>1. got'[Up(f)] = b /\ total'[Up(f)] = t /\ given'[f] = given[f]
            BY <1>2, <1>5, <1>6, <2>9 DEF TypeOK
        <3>2. Stream(f)' = s
            BY <2>4, <2>7, <3>1 DEF Stream
        <3>3. WriterOK(f)'
            <4>1. msg'[Up(f)] = msg[Up(f)] /\ out'[Up(f)] = out[Up(f)]
                BY <1>7
            <4>2. QED BY <2>2, <3>2, <4>1 DEF WriterOK, s
        <3>4. ReaderOK(f)'
            <4>1. CASE t = 0
                BY <2>3, <3>1, <4>1 DEF ReaderOK
            <4>2. CASE t # 0
                <5>1. t = m.total /\ Len(b) \in 1 .. t - 1
                    BY <2>3, <2>5, <2>9, <4>2
                <5>2. QED BY <3>1, <4>2, <5>1 DEF ReaderOK, m
            <4>3. QED BY <4>1, <4>2
        <3>5. QED BY <2>2, <3>1, <3>2, <3>3, <3>4 DEF StreamOK
    <2>10. QED BY <2>8, <2>9
<1>10. QED BY <1>3, <1>8, <1>9 DEF Streams

(* Only a client that sends has bytes of a request left to write. *)
LEMMA DrainedKept ==
    ASSUME IInv, [Next]_vars
    PROVE  Drained'
<1> USE DEF IInv, TypeInv, TypeOK, Drained, linkVars, historyVars
<1>1. ASSUME NEW f \in Conn, Ask(f) PROVE Drained'
    <2>1. PICK m : out' = [out EXCEPT ![Up(f)] = Parts(m)]
        BY <1>1 DEF Ask
    <2>2. guest' = [guest EXCEPT ![f] = "sending"]
        BY <1>1 DEF Ask
    <2>3. QED BY <2>1, <2>2, Links
<1>2. ASSUME NEW f \in Conn, GuestWrites(f) PROVE Drained'
    <2>1. PICK iov : out' = [out EXCEPT ![Up(f)] = iov]
        BY <1>2, Links DEF GuestWrites, WriteSome
    <2>2. guest' = [guest EXCEPT ![f] = IF out'[Up(f)] = <<>> THEN "waiting" ELSE "sending"]
        BY <1>2 DEF GuestWrites
    <2>3. QED BY <2>1, <2>2, Links
<1>3. ASSUME NEW f \in Conn, PollReturns(f) PROVE Drained'
    BY <1>3 DEF PollReturns, Runs
<1>4. ASSUME NEW f \in Conn, PollInterrupted(f) PROVE Drained'
    BY <1>4 DEF PollInterrupted, Runs
<1>5. ASSUME NEW f \in Conn, GuestReads(f) PROVE Drained'
    <2>1. out' = out /\ guest[f] = "receiving"
          /\ (guest' = guest \/ guest' = [guest EXCEPT ![f] = "idle"])
        BY <1>5 DEF GuestReads, Runs
    <2>2. QED BY <2>1
<1>6. ASSUME NEW f \in Conn, ClientKilled(f) PROVE Drained'
    BY <1>6, Links DEF ClientKilled
<1>7. ASSUME NEW f \in Conn, Stop(f) \/ Resume(f) \/ VmCloses(f) PROVE Drained'
    BY <1>7 DEF Stop, Resume, VmCloses
<1>8. ASSUME NEW f \in Conn, Ready(f) PROVE Drained'
    BY <1>8 DEF Ready
<1>9. ASSUME NEW f \in Conn, DaemonReads(f) PROVE Drained'
    <2>1. guest' = guest /\ (out' = out \/ \E iov : out' = [out EXCEPT ![Down(f)] = iov])
        BY <1>9 DEF DaemonReads
    <2>2. QED BY <2>1, Links
<1>10. ASSUME NEW f \in Conn, DaemonWrites(f) PROVE Drained'
    <2>1. guest' = guest /\ \E iov : out' = [out EXCEPT ![Down(f)] = iov]
        BY <1>10, Links DEF DaemonWrites, WriteSome
    <2>2. QED BY <2>1, Links
<1>11. ASSUME NEW f \in Conn, Reopen(f) PROVE Drained'
    BY <1>11 DEF Reopen
<1>12. CASE UNCHANGED vars
    BY <1>12 DEF vars
<1>13. ASSUME NEW S \in SUBSET Conn, Reset(S) PROVE Drained'
    BY <1>13, ResetStreams
<1>14. ASSUME Die PROVE Drained'
    BY <1>13, <1>14 DEF Die
<1>15. QED
    BY <1>1, <1>2, <1>3, <1>4, <1>5, <1>6, <1>7, <1>8, <1>9, <1>10, <1>11, <1>12, <1>13, <1>14
       DEF Next, Client, Callback, Killed, DaemonEof, SigPipe, HandlerCrashes

LEMMA StreamsKept ==
    ASSUME IInv, TypeInv', [Next]_vars
    PROVE  Streams'
<1>1. ASSUME UNCHANGED <<linkVars, given, cut>> PROVE Streams'
    BY <1>1, FrameStream DEF IInv, Streams, linkVars
<1>2. ASSUME NEW f \in Conn,
             PollReturns(f) \/ PollInterrupted(f) \/ Stop(f) \/ Resume(f) \/ VmCloses(f)
                \/ Ready(f) \/ Reopen(f)
      PROVE  Streams'
    BY <1>1, <1>2 DEF PollReturns, PollInterrupted, Stop, Resume, VmCloses, Ready, Reopen,
                      historyVars
<1>3. ASSUME NEW f \in Conn, GuestReads(f) \/ DaemonWrites(f) PROVE Streams'
    <2>1. /\ UNCHANGED <<given, cut>>
          /\ msg' = msg
          /\ out' = out \/ \E x : out' = [out EXCEPT ![Down(f)] = x]
          /\ wire' = [wire EXCEPT ![Down(f)] = wire'[Down(f)]]
          /\ got' = got \/ \E x : got' = [got EXCEPT ![Down(f)] = x]
          /\ total' = total \/ \E x : total' = [total EXCEPT ![Down(f)] = x]
        <3>1. CASE GuestReads(f)
            <4>1. UNCHANGED <<given, cut, msg, out>>
                BY <3>1 DEF GuestReads
            <4>2. \E x : wire' = [wire EXCEPT ![Down(f)] = x]
                BY <3>1 DEF GuestReads, ReadSome
            <4>3. /\ \E x : got' = [got EXCEPT ![Down(f)] = x]
                  /\ \E x : total' = [total EXCEPT ![Down(f)] = x]
                BY <3>1 DEF GuestReads, Keep
            <4>4. QED BY <4>1, <4>2, <4>3, Links DEF IInv, TypeInv, TypeOK
        <3>2. CASE DaemonWrites(f)
            <4>1. UNCHANGED <<given, cut, msg, got, total>>
                BY <3>2 DEF DaemonWrites, historyVars
            <4>2. /\ \E x : wire' = [wire EXCEPT ![Down(f)] = x]
                  /\ \E x : out' = [out EXCEPT ![Down(f)] = x]
                BY <3>2 DEF DaemonWrites, WriteSome
            <4>3. QED BY <4>1, <4>2, Links DEF IInv, TypeInv, TypeOK
        <3>3. QED BY <1>3, <3>1, <3>2
    <2>2. ASSUME NEW g \in Conn \ cut' PROVE StreamOK(g)'
        <3>1. StreamOK(g) /\ Up(g) \in Link /\ Up(g) # Down(f)
            BY <2>1, <2>2, Links DEF IInv, Streams
        <3>2. /\ out'[Up(g)] = out[Up(g)] /\ wire'[Up(g)] = wire[Up(g)]
              /\ got'[Up(g)] = got[Up(g)] /\ total'[Up(g)] = total[Up(g)]
            BY <2>1, <3>1 DEF IInv, TypeInv, TypeOK
        <3>3. QED BY <2>1, <3>1, <3>2, FrameStream
    <2>3. QED BY <2>2 DEF Streams
<1>4. CASE UNCHANGED vars
    BY <1>1, <1>4 DEF vars, historyVars
<1>5. ASSUME NEW f \in Conn, DaemonEof(f) PROVE Streams'
    BY <1>5, ResetStreams DEF DaemonEof
<1>6. ASSUME Die PROVE Streams'
    BY <1>6, ResetStreams DEF Die
<1>7. QED
    BY <1>2, <1>3, <1>4, <1>5, <1>6, AskStreams, GuestWritesStreams, ClientKilledStreams,
       DaemonReadsStreams DEF Next, Client, Callback, Killed, SigPipe, HandlerCrashes

-----------------------------------------------------------------------------
(* Theorems. *)

LEMMA Invariance == Spec => []IInv
<1>1. Init => IInv
    BY InitTypeInv, InitStreams DEF IInv
<1>2. IInv /\ [Next]_vars => IInv'
    <2> SUFFICES ASSUME IInv, [Next]_vars PROVE IInv'
        OBVIOUS
    <2>1. TypeInv'
        BY TypeInvKept DEF IInv
    <2>2. QED BY <2>1, DrainedKept, StreamsKept DEF IInv
<1>3. QED BY <1>1, <1>2, PTL DEF Spec

(* Every variable keeps its type. *)
THEOREM TypeCorrect == Spec => []TypeOK
<1>1. IInv => TypeOK
    BY DEF IInv, TypeInv
<1>2. QED BY <1>1, Invariance, PTL

(* As long as no client ended inside a request, what a handler is given is a  *)
(* message a client sent, whatever writev and read make of the bytes, however *)
(* long messages are and however little a connection holds.                   *)
THEOREM NothingGarbled == Spec => []NeverGarbled
<1>1. ASSUME IInv, NEW f \in Conn \ cut PROVE given[f] # Garbage /\ InOrder(got[Up(f)])
    <2> DEFINE g == got[Up(f)]
               s == Stream(f)
    <2>1. TypeOK /\ StreamOK(f)
        BY <1>1 DEF IInv, TypeInv, Streams
    <2>2. g \in Seq(Byte) /\ wire[Up(f)] \in Seq(Byte) /\ s \in Seq(Byte)
        BY <2>1, StreamTyped
    <2>3. Flows(s) /\ ReaderOK(f) /\ given[f] # Garbage
        BY <2>1 DEF StreamOK
    <2>4. /\ Len(g) \in Nat /\ Len(s) = Len(g) + Len(wire[Up(f)]) /\ Len(wire[Up(f)]) \in Nat
          /\ \A k \in 1 .. Len(g) : s[k] = g[k]
        <3>1. /\ Len(s) = Len(g) + Len(wire[Up(f)])
              /\ \A k \in 1 .. Len(g) + Len(wire[Up(f)]) :
                    s[k] = IF k <= Len(g) THEN g[k] ELSE wire[Up(f)][k - Len(g)]
            BY <2>2, ConcatProperties DEF Stream
        <3>2. Len(g) \in Nat /\ Len(wire[Up(f)]) \in Nat
            BY <2>2, LenProperties
        <3>3. \A k \in 1 .. Len(g) : k \in 1 .. Len(g) + Len(wire[Up(f)]) /\ k <= Len(g)
            <4>1. \A x, y \in Nat : \A k \in 1 .. x : k \in 1 .. x + y /\ k <= x
                OBVIOUS
            <4>2. QED BY <3>2, <4>1, Zenon
        <3>4. \A k \in 1 .. Len(g) : s[k] = g[k]
            BY <3>1, <3>3
        <3>5. QED BY <3>1, <3>2, <3>4
    <2>5. DOMAIN g = 1 .. Len(g)
        BY <2>2, LenProperties
    <2>6. total[Up(f)] \in Total \cup {0}
        BY <2>1, Links DEF TypeOK
    <2>7. IF total[Up(f)] = 0 THEN Len(g) < HdrLen
          ELSE Len(g) \in 1 .. total[Up(f)] - 1 /\ total[Up(f)] = g[1].msg.total
        BY <2>3 DEF ReaderOK
    <2> HIDE DEF g, s
    <2>8. ASSUME NEW k \in 1 .. Len(g) PROVE g[k] = [msg |-> g[1].msg, pos |-> k]
        <3>1. 1 \in 1 .. Len(g) /\ k \in 1 .. Len(s) /\ 1 \in 1 .. Len(s)
            BY <2>4, <2>8
        <3>2. g[1] = s[1] /\ g[k] = s[k]
            BY <2>4, <3>1
        <3>3. s[1].msg \in Message
            BY <2>3, <3>1 DEF Flows
        <3>4. s[1].msg.total \in Nat /\ s[1].msg.total >= HdrLen
            BY <3>3, Messages, Totals
        <3>5. k <= s[1].msg.total
            <4>1. CASE total[Up(f)] = 0
                BY <2>4, <2>7, <2>8, <3>4, <4>1, Constants
            <4>2. CASE total[Up(f)] # 0
                BY <2>4, <2>7, <2>8, <3>2, <3>4, <4>2
            <4>3. QED BY <4>1, <4>2
        <3>6. s[k] = [msg |-> s[1].msg, pos |-> k]
            BY <2>2, <2>3, <3>1, <3>5, FirstMessage DEF s
        <3>7. QED BY <3>2, <3>6
    <2>9. InOrder(g)
        BY <2>5, <2>8 DEF InOrder
    <2>10. QED BY <2>3, <2>9 DEF g
<1>2. IInv => NeverGarbled
    BY <1>1 DEF NeverGarbled
<1>3. QED BY <1>2, Invariance, PTL

-----------------------------------------------------------------------------
(* Exchanges.  A connection whose exchange is not off is in one of three      *)
(* states, and the bytes on it, with the reader, on the way and still to be   *)
(* written, are those of one message in one direction, or none.               *)

Clear(l) == out[l] = <<>> /\ wire[l] = <<>> /\ got[l] = <<>> /\ total[l] = 0

(* The reader has p bytes of m, q are written.                                *)
Holds(l, m, p, q) ==
    /\ msg[l] = m
    /\ out[l] = Rest(m, q)
    /\ wire[l] = Piece(m, p, q - p)
    /\ got[l] = Piece(m, 0, p)
    /\ total[l] = IF p < HdrLen THEN 0 ELSE m.total

Carries(l, m) == \E q \in 0 .. m.total : \E p \in 0 .. q : p < m.total /\ Holds(l, m, p, q)

Resting(f) == guest[f] = "idle" /\ Clear(Up(f)) /\ Clear(Down(f))

Asked(f) ==
    /\ msg[Up(f)] \in Message
    /\ guest[f] \in {"sending", "waiting"}
    /\ guest[f] = "sending" => out[Up(f)] # <<>>
    /\ given[f] = Nothing
    /\ Carries(Up(f), msg[Up(f)])
    /\ Clear(Down(f))

Served(f) ==
    /\ msg[Up(f)] \in Message
    /\ guest[f] \in {"waiting", "receiving"}
    /\ given[f] = msg[Up(f)]
    /\ Clear(Up(f))
    /\ Carries(Down(f), Reply(msg[Up(f)]))

(* A connection that was closed starts from nothing when it is opened again.  *)
Ended(f) ==
    /\ f \notin cut \cup stray
    /\ Clear(Up(f)) /\ Clear(Down(f))
    /\ msg[Up(f)] = Nothing /\ given[f] = Nothing /\ answered[f] = 0

ExchangeOK(f) ==
    /\ ~Off(f) => Resting(f) \/ Asked(f) \/ Served(f)
    /\ guest[f] = "closed" => Ended(f)

(* The invariant of the refinement: with TypeInv it is inductive.             *)
Exchanges == \A f \in Conn : ExchangeOK(f)

(* A step that leaves a connection alone, *)
Still(f) ==
    /\ guest'[f] = guest[f] /\ given'[f] = given[f] /\ answered'[f] = answered[f]
    /\ f \in cut' <=> f \in cut
    /\ f \in stray' <=> f \in stray
    /\ \A l \in {Up(f), Down(f)} :
          /\ msg'[l] = msg[l] /\ out'[l] = out[l] /\ wire'[l] = wire[l]
          /\ got'[l] = got[l] /\ total'[l] = total[l]

OthersStill(f) == \A g \in Conn : g # f => Still(g)

(* and one that takes its exchange on as Exchange says: it may be off after    *)
(* the step, be what it was, or go from one phase to the next.                 *)
Moves(f, from, to) == ~Off(f) /\ ~Off(f)' /\ Phase(f) = from /\ Phase(f)' = to

Steps(f) ==
    \/ Off(f)'
    \/ /\ ~Off(f) /\ ~Off(f)' /\ Phase(f)' = Phase(f)
       /\ msg'[Up(f)] = msg[Up(f)] /\ given'[f] = given[f] /\ answered'[f] = answered[f]
    \/ /\ Moves(f, "idle", "asked")
       /\ msg'[Up(f)] \in Message /\ given'[f] = Nothing /\ answered'[f] = answered[f]
    \/ /\ Moves(f, "asked", "served")
       /\ msg'[Up(f)] = msg[Up(f)] /\ given'[f] = msg[Up(f)] /\ answered'[f] = answered[f]
    \/ /\ Moves(f, "asked", "idle")
       /\ msg'[Up(f)] = msg[Up(f)] /\ given'[f] = given[f] /\ answered'[f] = answered[f]
    \/ /\ Moves(f, "served", "idle")
       /\ msg'[Up(f)] = msg[Up(f)] /\ given'[f] = given[f] /\ answered'[f] = msg[Up(f)].n
    \/ /\ Off(f) /\ ~Off(f)' /\ Phase(f)' = "idle"
       /\ msg'[Up(f)] = Nothing /\ given'[f] = Nothing /\ answered'[f] = 0

-----------------------------------------------------------------------------
(* Pieces of a message, and what a link carries of it. *)

LEMMA PieceLength ==
    /\ \A m : \A p, a \in Nat : Len(Piece(m, p, a)) = a
    /\ \A m : \A p \in Nat : Piece(m, p, 0) = <<>>
BY DEF Piece

LEMMA PieceJoined ==
    \A m : \A p, a, b \in Nat : Piece(m, p, a) \o Piece(m, p + a, b) = Piece(m, p, a + b)
BY DEF Piece

LEMMA PieceCut ==
    /\ \A m : \A p, a, b \in Nat : SubSeq(Piece(m, p, a + b), 1, a) = Piece(m, p, a)
    /\ \A m : \A p, a, b \in Nat : SubSeq(Piece(m, p, a + b), a + 1, a + b) = Piece(m, p + a, b)
BY DEF Piece

(* A writev goes on with the message, *)
LEMMA WritesOn ==
    ASSUME TypeOK, NEW l \in Link,
           NEW m, m.total \in Nat, m.total >= HdrLen,
           NEW q \in 0 .. m.total, NEW p \in 0 .. q, p < m.total, Holds(l, m, p, q),
           WriteSome(l), UNCHANGED <<msg, got, total>>
    PROVE  /\ Carries(l, m)'
           /\ \A k \in Link : k # l => wire'[k] = wire[k] /\ out'[k] = out[k]
<1> p \in Nat /\ q \in Nat /\ p <= q /\ q <= m.total
    OBVIOUS
<1>1. out[l] = Rest(m, q) /\ wire[l] = Piece(m, p, q - p) /\ msg[l] = m
    BY DEF Holds
<1>2. LenOf(Rest(m, q)) = m.total - q
    BY RestProperties
<1>3. PICK j \in 1 .. Capacity - Len(wire[l]) :
          /\ j <= LenOf(out[l])
          /\ wire' = [wire EXCEPT ![l] = @ \o Gathered(msg[l], out[l], j)]
          /\ out' = [out EXCEPT ![l] = NextIovec(@, j)]
    BY DEF WriteSome
<1>4. j \in Nat /\ j \in 1 .. m.total - q
    <2>1. \A x \in Int : \A y \in 1 .. x : y \in Nat /\ y >= 1
        OBVIOUS
    <2>2. wire[l] \in Seq(Byte)
        BY DEF TypeOK
    <2>3. Len(wire[l]) \in Nat /\ Capacity \in Nat
        BY <2>2, LenProperties, FramingAssumption
    <2>4. Capacity - Len(wire[l]) \in Int
        BY <2>3
    <2>5. j \in Nat /\ j >= 1
        BY <2>1, <2>4
    <2>6. j <= m.total - q
        BY <1>1, <1>2, <1>3
    <2>7. QED BY <2>5, <2>6
<1>5. Gathered(m, Rest(m, q), j) = Piece(m, q, j) /\ NextIovec(Rest(m, q), j) = Rest(m, q + j)
    BY <1>4, IovecResumes
<1>6. out'[l] = Rest(m, q + j) /\ wire'[l] = Piece(m, p, q - p) \o Piece(m, q, j)
    BY <1>1, <1>3, <1>5 DEF TypeOK
<1>7. Piece(m, p, q - p) \o Piece(m, q, j) = Piece(m, p, q + j - p)
    <2> DEFINE a == q - p
    <2>1. a \in Nat /\ p + a = q /\ a + j = q + j - p
        BY <1>4
    <2> HIDE DEF a
    <2>2. Piece(m, p, a) \o Piece(m, p + a, j) = Piece(m, p, a + j)
        <3>1. p \in Nat /\ a \in Nat /\ j \in Nat
            BY <1>4, <2>1
        <3>2. \A x, y, z \in Nat : Piece(m, x, y) \o Piece(m, x + y, z) = Piece(m, x, y + z)
            BY PieceJoined, Zenon
        <3>3. QED BY <3>1, <3>2, Zenon
    <2>3. QED BY <2>1, <2>2 DEF a
<1>8. Holds(l, m, p, q + j)'
    BY <1>6, <1>7 DEF Holds
<1>9. Carries(l, m)'
    <2>1. q + j \in 0 .. m.total /\ p \in 0 .. q + j
        BY <1>4
    <2>2. QED BY <1>8, <2>1 DEF Carries
<1>10. QED BY <1>3, <1>9 DEF TypeOK

(* and a read finds the next bytes of it, in their places. *)
LEMMA ReadsOn ==
    ASSUME NEW l \in Link,
           NEW m, m.total \in Nat, m.total >= HdrLen,
           NEW q \in 0 .. m.total, NEW p \in 0 .. q, p < m.total, Holds(l, m, p, q),
           NEW j, NEW t, ReadSome(l, j, t)
    PROVE  /\ j \in Nat \ {0} /\ p + j \in 0 .. q
           /\ Extended(l, j) = Piece(m, 0, p + j) /\ Len(Extended(l, j)) = p + j
           /\ Decoded(Extended(l, j)) = m
           /\ t = IF p + j < HdrLen THEN 0 ELSE m.total
           /\ wire' = [wire EXCEPT ![l] = Piece(m, p + j, q - (p + j))]
<1> p \in Nat /\ q \in Nat /\ p <= q /\ q <= m.total
    OBVIOUS
<1> HdrLen \in Nat \ {0}
    BY FramingAssumption
<1> DEFINE n == q - p
           b == Extended(l, j)
<1>1. n \in Nat
    OBVIOUS
<1>2. wire[l] = Piece(m, p, n) /\ got[l] = Piece(m, 0, p) /\ total[l] = IF p < HdrLen THEN 0 ELSE m.total
    BY DEF Holds
<1> HIDE DEF n
<1>3. Len(wire[l]) = n /\ Len(got[l]) = p
    <2>1. \A x \in Nat : Len(Piece(m, p, x)) = x /\ Len(Piece(m, 0, x)) = x
        BY PieceLength
    <2>2. QED BY <1>1, <1>2, <2>1, Zenon
<1>4. /\ j \in 1 .. Len(wire[l])
      /\ t \in TotalLen(l, b)
      /\ wire' = [wire EXCEPT ![l] = SubSeq(@, j + 1, Len(@))]
    BY DEF ReadSome
<1>5. j \in Nat \ {0} /\ j <= n
    BY <1>1, <1>3, <1>4
<1> DEFINE r == n - j
<1>6. r \in Nat /\ n = j + r
    BY <1>1, <1>5
<1> HIDE DEF r
<1>7. /\ SubSeq(Piece(m, p, j + r), 1, j) = Piece(m, p, j)
      /\ SubSeq(Piece(m, p, j + r), j + 1, j + r) = Piece(m, p + j, r)
    <2>1. p \in Nat /\ j \in Nat /\ r \in Nat
        BY <1>5, <1>6
    <2>2. \A x, y, z \in Nat : SubSeq(Piece(m, x, y + z), 1, y) = Piece(m, x, y)
        BY PieceCut, Zenon
    <2>3. \A x, y, z \in Nat : SubSeq(Piece(m, x, y + z), y + 1, y + z) = Piece(m, x + y, z)
        BY PieceCut, Zenon
    <2>4. SubSeq(Piece(m, p, j + r), 1, j) = Piece(m, p, j)
        BY <2>1, <2>2, Zenon
    <2>5. SubSeq(Piece(m, p, j + r), j + 1, j + r) = Piece(m, p + j, r)
        BY <2>1, <2>3, Zenon
    <2>6. QED BY <2>4, <2>5
<1>8. b = Piece(m, 0, p + j)
    <2>1. b = Piece(m, 0, p) \o Piece(m, p, j)
        BY <1>2, <1>6, <1>7 DEF Extended
    <2>2. Piece(m, 0, p) \o Piece(m, 0 + p, j) = Piece(m, 0, p + j)
        <3>1. 0 \in Nat /\ p \in Nat /\ j \in Nat
            BY <1>5
        <3>2. \A x, y, z \in Nat : Piece(m, x, y) \o Piece(m, x + y, z) = Piece(m, x, y + z)
            BY PieceJoined, Zenon
        <3>3. QED BY <3>1, <3>2, Zenon
    <2>3. QED BY <2>1, <2>2
<1>9. wire' = [wire EXCEPT ![l] = Piece(m, p + j, r)]
    BY <1>2, <1>3, <1>4, <1>6, <1>7
<1>10. r = q - (p + j) /\ p + j \in 0 .. q
    BY <1>5, <1>6 DEF n, r
<1> HIDE DEF b
<1>11. Len(b) = p + j
    <2>1. \A x \in Nat : Len(Piece(m, 0, x)) = x
        BY PieceLength
    <2>2. p + j \in Nat
        BY <1>5
    <2>3. QED BY <1>8, <2>1, <2>2, Zenon
<1>12. InOrder(b) /\ b[1].msg = m
    <2>1. DOMAIN b = 1 .. p + j /\ \A k \in 1 .. p + j : b[k] = [msg |-> m, pos |-> k]
        BY <1>5, <1>8 DEF Piece
    <2>2. 1 \in 1 .. p + j
        BY <1>5
    <2>3. b[1].msg = m
        BY <2>1, <2>2
    <2>4. QED BY <2>1, <2>3 DEF InOrder
<1>13. Decoded(b) = m
    BY <1>12 DEF Decoded
<1>14. t = IF p + j < HdrLen THEN 0 ELSE m.total
    <2>1. CASE p < HdrLen
        <3>1. total[l] = 0
            BY <1>2, <2>1
        <3>2. TotalLen(l, b) = IF p + j < HdrLen THEN {0} ELSE {m.total}
            BY <1>5, <1>11, <1>12, <3>1 DEF TotalLen
        <3>3. QED BY <1>4, <3>2
    <2>2. CASE p >= HdrLen
        <3>1. total[l] = m.total /\ m.total # 0
            BY <1>2, <2>2
        <3>2. TotalLen(l, b) = {m.total}
            BY <3>1 DEF TotalLen
        <3>3. ~(p + j < HdrLen)
            BY <1>5, <2>2
        <3>4. QED BY <1>4, <3>2, <3>3
    <2>3. QED BY <2>1, <2>2
<1>15. QED BY <1>5, <1>8, <1>9, <1>10, <1>11, <1>13, <1>14 DEF b

(* The reader has the message when the last byte of it is read, *)
LEMMA ReadsAll ==
    ASSUME NEW l \in Link,
           NEW m, m.total \in Nat, m.total >= HdrLen,
           NEW q \in 0 .. m.total, NEW p \in 0 .. q, p < m.total, Holds(l, m, p, q),
           NEW j, NEW t, ReadSome(l, j, t), Len(Extended(l, j)) = t
    PROVE  /\ out[l] = <<>>
           /\ wire' = [wire EXCEPT ![l] = <<>>]
           /\ Decoded(Extended(l, j)) = m
<1> p \in Nat /\ q \in Nat /\ p <= q /\ q <= m.total
    OBVIOUS
<1> HdrLen \in Nat \ {0}
    BY FramingAssumption
<1>1. /\ j \in Nat \ {0} /\ p + j \in 0 .. q
      /\ Len(Extended(l, j)) = p + j /\ Decoded(Extended(l, j)) = m
      /\ t = IF p + j < HdrLen THEN 0 ELSE m.total
      /\ wire' = [wire EXCEPT ![l] = Piece(m, p + j, q - (p + j))]
    BY ReadsOn
<1>2. p + j = m.total /\ q = m.total
    <2>1. p + j = IF p + j < HdrLen THEN 0 ELSE m.total
        BY <1>1
    <2>2. QED BY <1>1, <2>1
<1>3. out[l] = <<>>
    BY <1>2, RestProperties DEF Holds
<1>4. Piece(m, p + j, q - (p + j)) = <<>>
    <2>1. q - (p + j) = 0 /\ p + j \in Nat
        BY <1>2
    <2>2. Piece(m, p + j, 0) = <<>>
        BY <2>1, PieceLength
    <2>3. QED BY <2>1, <2>2
<1>5. QED BY <1>1, <1>3, <1>4

(* and goes on otherwise. *)
LEMMA ReadsMore ==
    ASSUME TypeOK, NEW l \in Link,
           NEW m, m.total \in Nat, m.total >= HdrLen,
           NEW q \in 0 .. m.total, NEW p \in 0 .. q, p < m.total, Holds(l, m, p, q),
           NEW j, NEW t, ReadSome(l, j, t), Len(Extended(l, j)) # t,
           Keep(l, Extended(l, j), t), msg'[l] = msg[l], out'[l] = out[l]
    PROVE  Carries(l, m)'
<1> p \in Nat /\ q \in Nat /\ p <= q /\ q <= m.total
    OBVIOUS
<1> HdrLen \in Nat \ {0}
    BY FramingAssumption
<1>1. /\ j \in Nat \ {0} /\ p + j \in 0 .. q
      /\ Extended(l, j) = Piece(m, 0, p + j) /\ Len(Extended(l, j)) = p + j
      /\ t = IF p + j < HdrLen THEN 0 ELSE m.total
      /\ wire' = [wire EXCEPT ![l] = Piece(m, p + j, q - (p + j))]
    BY ReadsOn
<1>2. p + j < m.total
    BY <1>1
<1>3. got'[l] = Piece(m, 0, p + j) /\ total'[l] = t /\ wire'[l] = Piece(m, p + j, q - (p + j))
    BY <1>1 DEF Keep, TypeOK
<1>4. Holds(l, m, p + j, q)'
    BY <1>1, <1>3 DEF Holds
<1>5. QED BY <1>1, <1>2, <1>4 DEF Carries

-----------------------------------------------------------------------------
(* Every step keeps the exchanges and takes them on. *)

(* A connection that is left alone is seen as before. *)
LEMMA StillOK ==
    ASSUME NEW f \in Conn, Still(f)
    PROVE  /\ Off(f)' <=> Off(f)
           /\ Phase(f)' = Phase(f)
           /\ Unless(f, msg[Up(f)])' = Unless(f, msg[Up(f)])
           /\ Unless(f, given[f])' = Unless(f, given[f])
           /\ ExchangeOK(f) => ExchangeOK(f)'
<1>1. Off(f)' <=> Off(f)
    BY DEF Still, Off
<1>2. Phase(f)' = Phase(f)
    BY <1>1 DEF Still, Phase
<1>3. msg'[Up(f)] = msg[Up(f)] /\ given'[f] = given[f] /\ guest'[f] = guest[f] /\ answered'[f] = answered[f]
    BY DEF Still
<1>4. Unless(f, msg[Up(f)])' = Unless(f, msg[Up(f)]) /\ Unless(f, given[f])' = Unless(f, given[f])
    BY <1>1, <1>3 DEF Unless
<1>5. ASSUME NEW l \in {Up(f), Down(f)}
      PROVE  /\ Clear(l)' <=> Clear(l)
             /\ \A m : Carries(l, m)' <=> Carries(l, m)
             /\ out'[l] = out[l]
    BY <1>5 DEF Still, Clear, Carries, Holds
<1>6. /\ Resting(f)' <=> Resting(f)
      /\ Asked(f)' <=> Asked(f)
      /\ Served(f)' <=> Served(f)
      /\ Ended(f)' <=> Ended(f)
    BY <1>3, <1>5 DEF Still, Resting, Asked, Served, Ended
<1>7. ExchangeOK(f) => ExchangeOK(f)'
    BY <1>1, <1>3, <1>6 DEF ExchangeOK
<1>8. QED BY <1>1, <1>2, <1>4, <1>7

(* A step that changes one connection leaves the others alone. *)
LEMMA Aside ==
    ASSUME NEW f \in Conn,
           \A h \in Conn : h # f =>
               /\ guest'[h] = guest[h] /\ given'[h] = given[h] /\ answered'[h] = answered[h]
               /\ (h \in cut' <=> h \in cut) /\ (h \in stray' <=> h \in stray),
           \A l \in Link : l # Up(f) /\ l # Down(f) =>
               /\ msg'[l] = msg[l] /\ out'[l] = out[l] /\ wire'[l] = wire[l]
               /\ got'[l] = got[l] /\ total'[l] = total[l]
    PROVE  OthersStill(f)
BY Links DEF OthersStill, Still

LEMMA InitExchanges == Init => Exchanges
<1> SUFFICES ASSUME Init, NEW f \in Conn PROVE ExchangeOK(f)
    BY DEF Exchanges
<1>1. guest[f] = "idle" /\ Clear(Up(f)) /\ Clear(Down(f))
    BY Links DEF Init, Clear
<1>2. QED BY <1>1 DEF ExchangeOK, Resting

(* A new request starts with its first byte on a connection that is clear. *)
LEMMA AskExchange ==
    ASSUME TypeInv, NEW f \in Conn, ExchangeOK(f), Ask(f)
    PROVE  OthersStill(f) /\ ExchangeOK(f)' /\ Steps(f)
<1> USE DEF TypeInv, TypeOK
<1>1. /\ guest[f] = "idle" /\ guest' = [guest EXCEPT ![f] = "sending"]
      /\ given' = [given EXCEPT ![f] = Nothing]
      /\ UNCHANGED <<wire, got, total, answered, cut, stray>>
    BY DEF Ask, Runs
<1>2. PICK m \in Message :
          msg' = [msg EXCEPT ![Up(f)] = m] /\ out' = [out EXCEPT ![Up(f)] = Parts(m)]
    <2>1. PICK b \in BodyLen[f] :
            LET m == [n |-> msg[Up(f)].n + 1, total |-> HdrLen + b]
            IN  /\ msg' = [msg EXCEPT ![Up(f)] = m]
                /\ out' = [out EXCEPT ![Up(f)] = Parts(m)]
        BY DEF Ask
    <2> DEFINE m == [n |-> msg[Up(f)].n + 1, total |-> HdrLen + b]
    <2>2. msg[Up(f)] \in Message \cup {Nothing} /\ msg[Up(f)].n < MaxRequests[f]
        BY Links DEF Requests, Ask
    <2>3. msg[Up(f)].n \in Nat
        BY <2>2, Messages DEF Nothing
    <2>4. HdrLen + b \in Total
        BY DEF Total
    <2>5. MaxRequests[f] \in Nat
        BY FramingAssumption
    <2>6. m.n \in 1 .. MaxRequests[f]
        BY <2>2, <2>3, <2>5
    <2>7. m \in [n : 1 .. MaxRequests[f], total : Total]
        BY <2>4, <2>6
    <2>8. m \in Message
        BY <2>7 DEF Message
    <2>9. QED BY <2>1, <2>8
<1>5. OthersStill(f)
    <2>1. \A h \in Conn : h # f =>
               /\ guest'[h] = guest[h] /\ given'[h] = given[h] /\ answered'[h] = answered[h]
               /\ (h \in cut' <=> h \in cut) /\ (h \in stray' <=> h \in stray)
        BY <1>1
    <2>2. \A l \in Link : l # Up(f) /\ l # Down(f) =>
               /\ msg'[l] = msg[l] /\ out'[l] = out[l] /\ wire'[l] = wire[l]
               /\ got'[l] = got[l] /\ total'[l] = total[l]
        BY <1>1, <1>2
    <2>3. QED BY <2>1, <2>2, Aside
<1>6. guest'[f] = "sending" /\ given'[f] = Nothing /\ msg'[Up(f)] = m /\ out'[Up(f)] = Parts(m)
      /\ answered'[f] = answered[f] /\ (Off(f)' <=> f \in cut \cup stray)
    BY <1>1, <1>2, Links DEF Off
<1>7. CASE Off(f)
    <2>1. Off(f)'
        BY <1>1, <1>6, <1>7 DEF Off
    <2>2. QED BY <1>5, <1>6, <2>1 DEF ExchangeOK, Steps
<1>8. CASE ~Off(f)
    <2>1. Clear(Up(f)) /\ Clear(Down(f)) /\ ~Off(f)'
        BY <1>1, <1>6, <1>8 DEF ExchangeOK, Resting, Asked, Served, Off
    <2>2. m.total \in Nat /\ m.total >= HdrLen /\ m.total > 0 /\ HdrLen \in Nat \ {0}
        BY Messages, Totals, FramingAssumption
    <2>3. Rest(m, 0) = Parts(m) /\ Parts(m) # <<>>
        <3>1. 0 < HdrLen /\ HdrLen - 0 = HdrLen
            BY <2>2
        <3>2. QED BY <3>1 DEF Rest, Parts
    <2>4. Holds(Up(f), m, 0, 0)'
        <3>1. Piece(m, 0, 0) = <<>> /\ 0 - 0 = 0
            BY PieceLength
        <3>2. wire'[Up(f)] = <<>> /\ got'[Up(f)] = <<>> /\ total'[Up(f)] = 0
            BY <1>1, <2>1 DEF Clear
        <3>3. QED BY <1>6, <2>2, <2>3, <3>1, <3>2 DEF Holds
    <2>5. Carries(Up(f), m)'
        <3>1. 0 \in 0 .. m.total /\ 0 \in 0 .. 0 /\ 0 < m.total
            BY <2>2
        <3>2. QED BY <2>4, <3>1 DEF Carries
    <2>6. Clear(Down(f))'
        BY <1>1, <1>2, <2>1, Links DEF Clear
    <2>7. Asked(f)'
        BY <1>6, <2>3, <2>5, <2>6 DEF Asked
    <2>8. Phase(f) = "idle" /\ Phase(f)' = "asked"
        BY <1>1, <1>6, <1>8, <2>1 DEF Phase
    <2>9. Steps(f)
        BY <1>6, <1>8, <2>1, <2>8 DEF Steps, Moves
    <2>10. QED BY <1>5, <1>6, <2>7, <2>9 DEF ExchangeOK
<1>9. QED BY <1>7, <1>8

(* The lengths of a request and of its reply. *)
LEMMA Sized ==
    ASSUME NEW m \in Message
    PROVE  /\ m.total \in Nat /\ m.total >= HdrLen /\ m # Nothing
           /\ Reply(m).total \in Nat /\ Reply(m).total >= HdrLen /\ Reply(m).n = m.n
<1>1. m = [n |-> m.n, total |-> m.total] /\ m.total \in Total /\ m # Nothing
    BY Messages
<1>2. Reply(m) = [n |-> m.n, total |-> HdrLen]
    BY <1>1 DEF Reply
<1>3. QED BY <1>1, <1>2, Totals, FramingAssumption

(* Nothing is promised of an exchange that is off. *)
LEMMA OffStays ==
    ASSUME NEW f \in Conn, Off(f)', guest'[f] # "closed"
    PROVE  ExchangeOK(f)' /\ Steps(f)
BY DEF ExchangeOK, Steps

(* A request or a reply stays whole while it is written, *)
LEMMA GuestWritesExchange ==
    ASSUME TypeInv, NEW f \in Conn, ExchangeOK(f), GuestWrites(f)
    PROVE  OthersStill(f) /\ ExchangeOK(f)' /\ Steps(f)
<1> USE DEF TypeInv, TypeOK
<1>1. /\ guest[f] = "sending" /\ WriteSome(Up(f))
      /\ guest' = [guest EXCEPT ![f] = IF out'[Up(f)] = <<>> THEN "waiting" ELSE "sending"]
      /\ UNCHANGED <<msg, got, total, given, answered, cut, stray>>
    BY DEF GuestWrites, Runs, historyVars
<1>2. /\ \E s : wire' = [wire EXCEPT ![Up(f)] = s]
      /\ \E s : out' = [out EXCEPT ![Up(f)] = s]
    BY <1>1 DEF WriteSome
<1>3. OthersStill(f)
    <2>1. \A h \in Conn : h # f =>
               /\ guest'[h] = guest[h] /\ given'[h] = given[h] /\ answered'[h] = answered[h]
               /\ (h \in cut' <=> h \in cut) /\ (h \in stray' <=> h \in stray)
        BY <1>1
    <2>2. \A l \in Link : l # Up(f) /\ l # Down(f) =>
               /\ msg'[l] = msg[l] /\ out'[l] = out[l] /\ wire'[l] = wire[l]
               /\ got'[l] = got[l] /\ total'[l] = total[l]
        BY <1>1, <1>2
    <2>3. QED BY <2>1, <2>2, Aside
<1>4. guest'[f] = IF out'[Up(f)] = <<>> THEN "waiting" ELSE "sending"
    BY <1>1
<1>5. CASE Off(f)
    <2>1. Off(f)' /\ guest'[f] # "closed"
        BY <1>1, <1>4, <1>5 DEF Off
    <2>2. QED BY <1>3, <2>1, OffStays
<1>6. CASE ~Off(f)
    <2>1. Asked(f) /\ ~Off(f)'
        BY <1>1, <1>4, <1>6 DEF ExchangeOK, Resting, Served, Off
    <2>2. PICK m \in Message : msg[Up(f)] = m
        BY <2>1 DEF Asked
    <2>3. PICK q \in 0 .. m.total : \E p \in 0 .. q : p < m.total /\ Holds(Up(f), m, p, q)
        BY <2>1, <2>2 DEF Asked, Carries
    <2>4. PICK p \in 0 .. q : p < m.total /\ Holds(Up(f), m, p, q)
        BY <2>3
    <2>5. Carries(Up(f), m)'
        BY <1>1, <2>2, <2>4, WritesOn, Links, Sized
    <2>6. Clear(Down(f))'
        BY <1>1, <1>2, <2>1, Links DEF Asked, Clear
    <2>7. Asked(f)'
        BY <1>1, <1>4, <2>1, <2>2, <2>5, <2>6 DEF Asked
    <2>8. Phase(f) = "asked" /\ Phase(f)' = "asked"
        BY <1>1, <1>4, <2>1, <1>6 DEF Phase, Asked
    <2>9. Steps(f)
        BY <1>1, <1>6, <2>1, <2>8 DEF Steps
    <2>10. QED BY <1>3, <1>4, <2>7, <2>9 DEF ExchangeOK
<1>7. QED BY <1>5, <1>6

LEMMA DaemonWritesExchange ==
    ASSUME TypeInv, NEW f \in Conn, ExchangeOK(f), DaemonWrites(f)
    PROVE  OthersStill(f) /\ ExchangeOK(f)' /\ Steps(f)
<1> USE DEF TypeInv, TypeOK
<1>1. /\ WriteSome(Down(f)) /\ guest' = guest
      /\ UNCHANGED <<msg, got, total, given, answered, cut, stray>>
    BY DEF DaemonWrites, historyVars
<1>2. /\ \E s : wire' = [wire EXCEPT ![Down(f)] = s]
      /\ \E s : out' = [out EXCEPT ![Down(f)] = s]
      /\ out[Down(f)] # <<>>
    BY <1>1 DEF WriteSome
<1>3. OthersStill(f)
    <2>1. \A h \in Conn : h # f =>
               /\ guest'[h] = guest[h] /\ given'[h] = given[h] /\ answered'[h] = answered[h]
               /\ (h \in cut' <=> h \in cut) /\ (h \in stray' <=> h \in stray)
        BY <1>1
    <2>2. \A l \in Link : l # Up(f) /\ l # Down(f) =>
               /\ msg'[l] = msg[l] /\ out'[l] = out[l] /\ wire'[l] = wire[l]
               /\ got'[l] = got[l] /\ total'[l] = total[l]
        BY <1>1, <1>2
    <2>3. QED BY <2>1, <2>2, Aside
<1>4. guest[f] # "closed"
    BY <1>2 DEF ExchangeOK, Ended, Clear
<1>5. CASE Off(f)
    <2>1. Off(f)' /\ guest'[f] # "closed"
        BY <1>1, <1>4, <1>5 DEF Off
    <2>2. QED BY <1>3, <2>1, OffStays
<1>6. CASE ~Off(f)
    <2>1. Served(f) /\ ~Off(f)'
        BY <1>1, <1>2, <1>6 DEF ExchangeOK, Resting, Asked, Clear, Off
    <2>2. PICK m \in Message : msg[Up(f)] = m
        BY <2>1 DEF Served
    <2>3. PICK r : r = Reply(m)
        OBVIOUS
    <2>4. PICK q \in 0 .. r.total : \E p \in 0 .. q : p < r.total /\ Holds(Down(f), r, p, q)
        BY <2>1, <2>2, <2>3 DEF Served, Carries
    <2>5. PICK p \in 0 .. q : p < r.total /\ Holds(Down(f), r, p, q)
        BY <2>4
    <2>6. Carries(Down(f), r)'
        <3>1. r.total \in Nat /\ r.total >= HdrLen
            BY <2>3, Sized
        <3>2. QED BY <1>1, <2>5, <3>1, WritesOn, Links
    <2>7. Clear(Up(f))'
        BY <1>1, <1>2, <2>1, Links DEF Served, Clear
    <2>8. Served(f)'
        BY <1>1, <2>1, <2>2, <2>3, <2>6, <2>7 DEF Served, Reply
    <2>9. Phase(f)' = Phase(f)
        BY <1>1, <1>6, <2>1 DEF Phase
    <2>10. Steps(f)
        BY <1>1, <1>6, <2>1, <2>9 DEF Steps
    <2>11. QED BY <1>1, <1>4, <1>3, <2>8, <2>10 DEF ExchangeOK
<1>7. QED BY <1>5, <1>6

(* the reply is answered by its last byte, *)
LEMMA GuestReadsExchange ==
    ASSUME TypeInv, NEW f \in Conn, ExchangeOK(f), GuestReads(f)
    PROVE  OthersStill(f) /\ ExchangeOK(f)' /\ Steps(f)
<1> USE DEF TypeInv, TypeOK
<1> DEFINE d == Down(f)
<1>1. /\ guest[f] = "receiving"
      /\ UNCHANGED <<msg, out, given, cut, stray>>
    BY DEF GuestReads, Runs
<1>2. PICK j, t :
        /\ ReadSome(d, j, t)
        /\ IF Len(Extended(d, j)) = t
           THEN /\ guest' = [guest EXCEPT ![f] = "idle"]
                /\ answered' = [answered EXCEPT ![f] = Decoded(Extended(d, j)).n]
                /\ Keep(d, <<>>, 0)
           ELSE /\ Keep(d, Extended(d, j), t)
                /\ UNCHANGED <<guest, answered>>
    BY DEF GuestReads
<1>3. /\ \E s : wire' = [wire EXCEPT ![d] = s]
      /\ \E s : got' = [got EXCEPT ![d] = s]
      /\ \E s : total' = [total EXCEPT ![d] = s]
      /\ guest' = guest \/ guest' = [guest EXCEPT ![f] = "idle"]
      /\ answered' = answered \/ \E s : answered' = [answered EXCEPT ![f] = s]
    BY <1>2 DEF ReadSome, Keep
<1>4. OthersStill(f)
    <2>1. \A h \in Conn : h # f =>
               /\ guest'[h] = guest[h] /\ given'[h] = given[h] /\ answered'[h] = answered[h]
               /\ (h \in cut' <=> h \in cut) /\ (h \in stray' <=> h \in stray)
        BY <1>1, <1>3
    <2>2. \A l \in Link : l # Up(f) /\ l # Down(f) =>
               /\ msg'[l] = msg[l] /\ out'[l] = out[l] /\ wire'[l] = wire[l]
               /\ got'[l] = got[l] /\ total'[l] = total[l]
        BY <1>1, <1>3
    <2>3. QED BY <2>1, <2>2, Aside
<1>5. guest'[f] # "closed"
    BY <1>1, <1>3
<1>6. CASE Off(f)
    <2>1. Off(f)'
        BY <1>1, <1>3, <1>6 DEF Off
    <2>2. QED BY <1>4, <1>5, <2>1, OffStays
<1>7. CASE ~Off(f)
    <2>1. Served(f) /\ ~Off(f)'
        BY <1>1, <1>3, <1>7 DEF ExchangeOK, Resting, Asked, Off
    <2>2. PICK m \in Message : msg[Up(f)] = m
        BY <2>1 DEF Served
    <2>3. PICK r : r = Reply(m)
        OBVIOUS
    <2>4. PICK q \in 0 .. r.total : \E p \in 0 .. q : p < r.total /\ Holds(d, r, p, q)
        BY <2>1, <2>2, <2>3 DEF Served, Carries
    <2>5. PICK p \in 0 .. q : p < r.total /\ Holds(d, r, p, q)
        BY <2>4
    <2>6. r.total \in Nat /\ r.total >= HdrLen /\ r.n = m.n /\ d \in Link /\ m # Nothing
        BY <2>3, Sized, Links
    <2>7. Clear(Up(f))'
        BY <1>1, <1>3, <2>1, Links DEF Served, Clear
    <2>8. Phase(f) = "served"
        BY <1>1, <1>7, <2>1, <2>2, <2>6 DEF Phase, Served
    <2>9. CASE Len(Extended(d, j)) = t
        <3>1. /\ guest' = [guest EXCEPT ![f] = "idle"]
              /\ answered' = [answered EXCEPT ![f] = Decoded(Extended(d, j)).n]
              /\ Keep(d, <<>>, 0)
            BY <1>2, <2>9
        <3>2. /\ out[d] = <<>> /\ wire' = [wire EXCEPT ![d] = <<>>]
              /\ Decoded(Extended(d, j)) = r
            BY <1>2, <2>5, <2>6, <2>9, ReadsAll
        <3>3. Clear(Down(f))'
            BY <1>1, <2>6, <3>1, <3>2 DEF Clear, Keep
        <3>4. guest'[f] = "idle" /\ answered'[f] = m.n
            BY <2>6, <3>1, <3>2
        <3>5. Resting(f)'
            BY <2>7, <3>3, <3>4 DEF Resting
        <3>6. Phase(f)' = "idle"
            BY <2>1, <3>4 DEF Phase
        <3>7. Steps(f)
            BY <1>1, <1>7, <2>1, <2>2, <2>8, <3>4, <3>6 DEF Steps, Moves
        <3>8. QED BY <1>4, <1>5, <3>5, <3>7 DEF ExchangeOK
    <2>10. CASE Len(Extended(d, j)) # t
        <3>1. Keep(d, Extended(d, j), t) /\ UNCHANGED <<guest, answered>>
            BY <1>2, <2>10
        <3>2. Carries(d, r)'
            BY <1>1, <1>2, <2>5, <2>6, <2>10, <3>1, ReadsMore
        <3>3. Served(f)'
            BY <1>1, <2>1, <2>2, <2>3, <2>7, <3>1, <3>2 DEF Served, Reply
        <3>4. Phase(f)' = Phase(f)
            BY <1>1, <1>7, <2>1, <3>1 DEF Phase
        <3>5. Steps(f)
            BY <1>1, <1>7, <2>1, <3>1, <3>4 DEF Steps
        <3>6. QED BY <1>4, <1>5, <3>3, <3>5 DEF ExchangeOK
    <2>11. QED BY <2>9, <2>10
<1>8. QED BY <1>6, <1>7

(* and the request is served by its last. *)
LEMMA DaemonReadsExchange ==
    ASSUME TypeInv, NEW f \in Conn, ExchangeOK(f), DaemonReads(f)
    PROVE  OthersStill(f) /\ ExchangeOK(f)' /\ Steps(f)
<1> USE DEF TypeInv, TypeOK
<1> DEFINE u == Up(f)
<1>1. out[Down(f)] = <<>> /\ UNCHANGED <<guest, answered, cut, stray>>
    BY DEF DaemonReads, Reading
<1>2. PICK j, t :
        /\ ReadSome(u, j, t)
        /\ IF Len(Extended(u, j)) = t
           THEN /\ Keep(u, <<>>, 0)
                /\ given' = [given EXCEPT ![f] = Decoded(Extended(u, j))]
                /\ msg' = [msg EXCEPT ![Down(f)] = Reply(Decoded(Extended(u, j)))]
                /\ out' = [out EXCEPT ![Down(f)] = Parts(Reply(Decoded(Extended(u, j))))]
           ELSE /\ Keep(u, Extended(u, j), t)
                /\ UNCHANGED <<given, msg, out>>
    BY DEF DaemonReads
<1>3. /\ \E s : wire' = [wire EXCEPT ![u] = s]
      /\ \E s : got' = [got EXCEPT ![u] = s]
      /\ \E s : total' = [total EXCEPT ![u] = s]
      /\ given' = given \/ \E s : given' = [given EXCEPT ![f] = s]
      /\ msg' = msg \/ \E s : msg' = [msg EXCEPT ![Down(f)] = s]
      /\ out' = out \/ \E s : out' = [out EXCEPT ![Down(f)] = s]
    BY <1>2 DEF ReadSome, Keep
<1>4. OthersStill(f)
    <2>1. \A h \in Conn : h # f =>
               /\ guest'[h] = guest[h] /\ given'[h] = given[h] /\ answered'[h] = answered[h]
               /\ (h \in cut' <=> h \in cut) /\ (h \in stray' <=> h \in stray)
        BY <1>1, <1>3
    <2>2. \A l \in Link : l # Up(f) /\ l # Down(f) =>
               /\ msg'[l] = msg[l] /\ out'[l] = out[l] /\ wire'[l] = wire[l]
               /\ got'[l] = got[l] /\ total'[l] = total[l]
        BY <1>1, <1>3
    <2>3. QED BY <2>1, <2>2, Aside
<1>5. wire[u] # <<>> /\ msg'[u] = msg[u] /\ out'[u] = out[u]
    BY <1>2, <1>3, Links DEF ReadSome
<1>6. guest'[f] # "closed"
    BY <1>1, <1>5 DEF ExchangeOK, Ended, Clear
<1>7. CASE Off(f)
    <2>1. Off(f)'
        BY <1>1, <1>7 DEF Off
    <2>2. QED BY <1>4, <1>6, <2>1, OffStays
<1>8. CASE ~Off(f)
    <2>1. Asked(f) /\ ~Off(f)'
        BY <1>1, <1>5, <1>8 DEF ExchangeOK, Resting, Served, Clear, Off
    <2>2. PICK m \in Message : msg[u] = m
        BY <2>1 DEF Asked
    <2>3. PICK q \in 0 .. m.total : \E p \in 0 .. q : p < m.total /\ Holds(u, m, p, q)
        BY <2>1, <2>2 DEF Asked, Carries
    <2>4. PICK p \in 0 .. q : p < m.total /\ Holds(u, m, p, q)
        BY <2>3
    <2>5. m.total \in Nat /\ m.total >= HdrLen /\ u \in Link /\ m # Nothing
        BY Sized, Links
    <2>6. Phase(f) = "asked"
        BY <1>8, <2>1 DEF Phase, Asked
    <2>7. CASE Len(Extended(u, j)) = t
        <3>1. /\ out[u] = <<>> /\ wire' = [wire EXCEPT ![u] = <<>>]
              /\ Decoded(Extended(u, j)) = m
            BY <1>2, <2>4, <2>5, <2>7, ReadsAll
        <3>2. PICK r : r = Reply(m)
            OBVIOUS
        <3>3. /\ Keep(u, <<>>, 0)
              /\ given' = [given EXCEPT ![f] = m]
              /\ msg' = [msg EXCEPT ![Down(f)] = r]
              /\ out' = [out EXCEPT ![Down(f)] = Parts(r)]
            BY <1>2, <2>7, <3>1, <3>2
        <3>4. Clear(Up(f))'
            BY <1>5, <2>5, <3>1, <3>3 DEF Clear, Keep
        <3>5. guest[f] = "waiting" /\ guest' = guest
            BY <1>1, <2>1, <3>1 DEF Asked
        <3>6. Carries(Down(f), r)'
            <4>1. r.total \in Nat /\ r.total >= HdrLen /\ HdrLen \in Nat \ {0}
                BY <3>2, Sized, FramingAssumption
            <4>2. Rest(r, 0) = Parts(r)
                <5>1. 0 < HdrLen /\ HdrLen - 0 = HdrLen
                    BY <4>1
                <5>2. QED BY <5>1 DEF Rest, Parts
            <4>3. /\ wire'[Down(f)] = <<>> /\ got'[Down(f)] = <<>> /\ total'[Down(f)] = 0
                  /\ msg'[Down(f)] = r /\ out'[Down(f)] = Parts(r)
                BY <1>3, <2>1, <3>3, Links DEF Asked, Clear
            <4>4. Piece(r, 0, 0) = <<>> /\ 0 - 0 = 0
                BY PieceLength
            <4>5. Holds(Down(f), r, 0, 0)'
                BY <4>1, <4>2, <4>3, <4>4 DEF Holds
            <4>6. 0 \in 0 .. r.total /\ 0 \in 0 .. 0 /\ 0 < r.total
                BY <4>1
            <4>7. QED BY <4>5, <4>6 DEF Carries
        <3>7. given'[f] = m /\ msg'[u] = m
            BY <1>5, <2>2, <3>3
        <3>8. Served(f)'
            BY <3>2, <3>4, <3>5, <3>6, <3>7 DEF Served, Reply
        <3>9. Phase(f)' = "served"
            BY <2>1, <2>5, <3>5, <3>7 DEF Phase
        <3>10. Steps(f)
            BY <1>1, <1>8, <2>1, <2>2, <2>6, <3>7, <3>9 DEF Steps, Moves
        <3>11. QED BY <1>4, <1>6, <3>8, <3>10 DEF ExchangeOK
    <2>8. CASE Len(Extended(u, j)) # t
        <3>1. Keep(u, Extended(u, j), t) /\ UNCHANGED <<given, msg, out>>
            BY <1>2, <2>8
        <3>2. Carries(u, m)'
            BY <1>2, <2>4, <2>5, <2>8, <3>1, ReadsMore
        <3>3. Clear(Down(f))'
            BY <1>3, <2>1, <3>1, Links DEF Asked, Clear
        <3>4. Asked(f)'
            BY <1>1, <2>1, <2>2, <3>1, <3>2, <3>3 DEF Asked
        <3>5. Phase(f)' = Phase(f)
            BY <1>1, <1>8, <2>1, <3>1 DEF Phase
        <3>6. Steps(f)
            BY <1>1, <1>8, <2>1, <3>1, <3>5 DEF Steps
        <3>7. QED BY <1>4, <1>6, <3>4, <3>6 DEF ExchangeOK
    <2>9. QED BY <2>7, <2>8
<1>9. QED BY <1>7, <1>8

(* A client looks for a reply only when its request was served. *)
LEMMA PollExchange ==
    ASSUME TypeInv, NEW f \in Conn, ExchangeOK(f), PollReturns(f) \/ PollInterrupted(f) \/ VmCloses(f)
    PROVE  OthersStill(f) /\ ExchangeOK(f)' /\ Steps(f)
<1> USE DEF TypeInv, TypeOK
<1>1. /\ UNCHANGED <<linkVars, given, answered, cut>>
      /\ \E s : guest' = [guest EXCEPT ![f] = s]
      /\ stray' = stray \/ stray' = stray \cup {f}
    BY DEF PollReturns, PollInterrupted, VmCloses, historyVars
<1>2. OthersStill(f)
    <2>1. \A h \in Conn : h # f =>
               /\ guest'[h] = guest[h] /\ given'[h] = given[h] /\ answered'[h] = answered[h]
               /\ (h \in cut' <=> h \in cut) /\ (h \in stray' <=> h \in stray)
        BY <1>1
    <2>2. \A l \in Link : l # Up(f) /\ l # Down(f) =>
               /\ msg'[l] = msg[l] /\ out'[l] = out[l] /\ wire'[l] = wire[l]
               /\ got'[l] = got[l] /\ total'[l] = total[l]
        BY <1>1 DEF linkVars
    <2>3. QED BY <2>1, <2>2, Aside
<1>3. CASE PollInterrupted(f) \/ VmCloses(f)
    <2>1. Off(f)' /\ guest'[f] # "closed"
        BY <1>3 DEF PollInterrupted, VmCloses, Off
    <2>2. QED BY <1>2, <2>1, OffStays
<1>4. CASE PollReturns(f)
    <2>1. /\ guest[f] = "waiting" /\ wire[Down(f)] # <<>> /\ guest'[f] = "receiving"
          /\ stray' = stray
        BY <1>4 DEF PollReturns, Runs, historyVars
    <2>2. CASE Off(f)
        <3>1. Off(f)'
            BY <1>1, <2>1, <2>2 DEF Off
        <3>2. QED BY <1>2, <2>1, <3>1, OffStays
    <2>3. CASE ~Off(f)
        <3>1. Served(f) /\ ~Off(f)'
            BY <1>1, <2>1, <2>3 DEF ExchangeOK, Resting, Asked, Clear, Off
        <3>2. Served(f)'
            <4>1. \A l \in Link : Clear(l)' <=> Clear(l)
                BY <1>1 DEF Clear, linkVars
            <4>2. \A l \in Link : \A m : Carries(l, m)' <=> Carries(l, m)
                BY <1>1 DEF Carries, Holds, linkVars
            <4>3. QED BY <1>1, <2>1, <3>1, <4>1, <4>2, Links DEF Served, linkVars
        <3>3. Phase(f)' = Phase(f)
            BY <1>1, <2>1, <2>3, <3>1 DEF Phase
        <3>4. Steps(f)
            BY <1>1, <2>3, <3>1, <3>3 DEF Steps, linkVars
        <3>5. QED BY <1>2, <2>1, <3>2, <3>4 DEF ExchangeOK
    <2>4. QED BY <2>2, <2>3
<1>5. QED BY <1>3, <1>4

(* A client that ends before the first byte of its request withdraws it. *)
LEMMA ClientKilledExchange ==
    ASSUME TypeInv, NEW f \in Conn, ExchangeOK(f), ClientKilled(f)
    PROVE  OthersStill(f) /\ ExchangeOK(f)' /\ Steps(f)
<1> USE DEF TypeInv, TypeOK
<1>1. /\ guest[f] \in {"sending", "waiting", "receiving"}
      /\ guest' = [guest EXCEPT ![f] = "idle"]
      /\ out' = [out EXCEPT ![Up(f)] = <<>>]
      /\ Keep(Down(f), <<>>, 0)
      /\ wire' = wire \/ wire' = [wire EXCEPT ![Down(f)] = <<>>]
      /\ UNCHANGED <<msg, given, answered>>
    BY DEF ClientKilled
<1>2. /\ cut' = IF guest[f] = "sending" /\ LenOf(out[Up(f)]) < msg[Up(f)].total
                THEN cut \cup {f} ELSE cut
      /\ stray' = IF guest[f] = "sending" THEN stray ELSE stray \cup {f}
    BY DEF ClientKilled
<1>3. OthersStill(f)
    <2>1. \A h \in Conn : h # f =>
               /\ guest'[h] = guest[h] /\ given'[h] = given[h] /\ answered'[h] = answered[h]
               /\ (h \in cut' <=> h \in cut) /\ (h \in stray' <=> h \in stray)
        BY <1>1, <1>2
    <2>2. \A l \in Link : l # Up(f) /\ l # Down(f) =>
               /\ msg'[l] = msg[l] /\ out'[l] = out[l] /\ wire'[l] = wire[l]
               /\ got'[l] = got[l] /\ total'[l] = total[l]
        BY <1>1 DEF Keep
    <2>3. QED BY <2>1, <2>2, Aside
<1>4. guest'[f] = "idle"
    BY <1>1
<1>5. CASE f \in cut' \cup stray'
    <2>1. Off(f)'
        BY <1>5 DEF Off
    <2>2. QED BY <1>3, <1>4, <2>1, OffStays
<1>6. CASE f \notin cut' \cup stray'
    <2>1. /\ f \notin cut \cup stray /\ guest[f] = "sending"
          /\ ~(LenOf(out[Up(f)]) < msg[Up(f)].total)
        BY <1>2, <1>6
    <2>2. ~Off(f) /\ ~Off(f)' /\ Asked(f)
        BY <1>4, <1>6, <2>1 DEF ExchangeOK, Resting, Served, Off
    <2>3. PICK m \in Message : msg[Up(f)] = m
        BY <2>2 DEF Asked
    <2>4. PICK q \in 0 .. m.total : \E p \in 0 .. q : p < m.total /\ Holds(Up(f), m, p, q)
        BY <2>2, <2>3 DEF Asked, Carries
    <2>5. PICK p \in 0 .. q : p < m.total /\ Holds(Up(f), m, p, q)
        BY <2>4
    <2>6. p = 0 /\ q = 0
        <3>1. m.total \in Nat /\ m.total >= HdrLen
            BY Sized
        <3>2. LenOf(out[Up(f)]) = m.total - q
            BY <2>5, <3>1, RestProperties DEF Holds
        <3>3. q = 0
            BY <2>1, <2>3, <3>1, <3>2
        <3>4. QED BY <3>3
    <2>7. wire[Up(f)] = <<>> /\ got[Up(f)] = <<>> /\ total[Up(f)] = 0
        <3>1. Piece(m, 0, 0) = <<>> /\ 0 - 0 = 0 /\ 0 < HdrLen
            BY PieceLength, FramingAssumption
        <3>2. QED BY <2>5, <2>6, <3>1 DEF Holds
    <2>8. Clear(Up(f))'
        BY <1>1, <2>7, Links DEF Clear, Keep
    <2>9. Clear(Down(f))'
        BY <1>1, <2>2, Links DEF Clear, Keep, Asked
    <2>10. Resting(f)'
        BY <1>4, <2>8, <2>9 DEF Resting
    <2>11. Phase(f) = "asked" /\ Phase(f)' = "idle"
        BY <1>4, <2>1, <2>2 DEF Phase, Asked
    <2>12. Steps(f)
        BY <1>1, <2>2, <2>11 DEF Steps, Moves
    <2>13. QED BY <1>3, <1>4, <2>10, <2>12 DEF ExchangeOK
<1>7. QED BY <1>5, <1>6

(* A connection that is opened again rests. *)
LEMMA ReopenExchange ==
    ASSUME TypeInv, NEW f \in Conn, ExchangeOK(f), Reopen(f)
    PROVE  OthersStill(f) /\ ExchangeOK(f)' /\ Steps(f)
<1> USE DEF TypeInv, TypeOK
<1>1. /\ guest[f] = "closed" /\ guest' = [guest EXCEPT ![f] = "idle"]
      /\ UNCHANGED <<linkVars, given, answered, cut, stray>>
    BY DEF Reopen, historyVars
<1>2. OthersStill(f)
    <2>1. \A h \in Conn : h # f =>
               /\ guest'[h] = guest[h] /\ given'[h] = given[h] /\ answered'[h] = answered[h]
               /\ (h \in cut' <=> h \in cut) /\ (h \in stray' <=> h \in stray)
        BY <1>1
    <2>2. \A l \in Link : l # Up(f) /\ l # Down(f) =>
               /\ msg'[l] = msg[l] /\ out'[l] = out[l] /\ wire'[l] = wire[l]
               /\ got'[l] = got[l] /\ total'[l] = total[l]
        BY <1>1 DEF linkVars
    <2>3. QED BY <2>1, <2>2, Aside
<1>3. Ended(f) /\ guest'[f] = "idle" /\ Off(f)
    BY <1>1 DEF ExchangeOK, Off
<1>4. Resting(f)'
    BY <1>1, <1>3, Links DEF Resting, Ended, Clear, linkVars
<1>5. ~Off(f)' /\ Phase(f)' = "idle"
    BY <1>1, <1>3 DEF Off, Ended, Phase
<1>6. Steps(f)
    BY <1>1, <1>3, <1>5 DEF Steps, Ended, linkVars
<1>7. QED BY <1>2, <1>3, <1>4, <1>6 DEF ExchangeOK

(* Connections that end leave nothing of an exchange behind. *)
LEMMA ResetExchange ==
    ASSUME TypeInv, NEW S \in SUBSET Conn, Reset(S), NEW g \in Conn
    PROVE  IF g \in S THEN Off(g)' /\ ExchangeOK(g)' ELSE Still(g)
<1> USE DEF TypeInv, TypeOK
<1> DEFINE New(field, v) == [l \in Link |-> IF l[1] \in S THEN v ELSE field[l]]
<1>1. /\ msg' = New(msg, Nothing) /\ out' = New(out, <<>>) /\ wire' = New(wire, <<>>)
      /\ got' = New(got, <<>>) /\ total' = New(total, 0)
    BY DEF Reset
<1>2. /\ guest' = [f \in Conn |-> IF f \in S THEN "closed" ELSE guest[f]]
      /\ given' = [f \in Conn |-> IF f \in S THEN Nothing ELSE given[f]]
      /\ answered' = [f \in Conn |-> IF f \in S THEN 0 ELSE answered[f]]
      /\ cut' = cut \ S /\ stray' = stray \ S
    BY DEF Reset
<1>3. /\ Up(g) \in Link /\ Down(g) \in Link
      /\ \A l \in {Up(g), Down(g)} : l[1] = g
    BY DEF Up, Down, Link
<1>4. CASE g \in S
    <2>1. guest'[g] = "closed" /\ given'[g] = Nothing /\ answered'[g] = 0 /\ g \notin cut' \cup stray'
        BY <1>2, <1>4
    <2>2. msg'[Up(g)] = Nothing
        BY <1>1, <1>3, <1>4
    <2>3. \A l \in {Up(g), Down(g)} :
            out'[l] = <<>> /\ wire'[l] = <<>> /\ got'[l] = <<>> /\ total'[l] = 0
        BY <1>1, <1>3, <1>4
    <2>4. Ended(g)'
        BY <2>1, <2>2, <2>3 DEF Ended, Clear
    <2>5. Off(g)'
        BY <2>1 DEF Off
    <2>6. QED BY <1>4, <2>4, <2>5 DEF ExchangeOK
<1>5. CASE g \notin S
    <2>1. \A l \in {Up(g), Down(g)} :
          /\ msg'[l] = msg[l] /\ out'[l] = out[l] /\ wire'[l] = wire[l]
          /\ got'[l] = got[l] /\ total'[l] = total[l]
        BY <1>1, <1>3, <1>5
    <2>2. QED BY <1>2, <1>5, <2>1 DEF Still
<1>6. QED BY <1>4, <1>5

(* Every step takes one exchange on, or breaks some, and leaves the others.   *)
LEMMA EveryStep ==
    ASSUME TypeInv, Exchanges, [Next]_vars
    PROVE  /\ Exchanges'
           /\ \/ \E f \in Conn : OthersStill(f) /\ Steps(f)
              \/ \A f \in Conn : Still(f) \/ Off(f)'
<1> DEFINE Goal == /\ Exchanges'
                   /\ \/ \E f \in Conn : OthersStill(f) /\ Steps(f)
                      \/ \A f \in Conn : Still(f) \/ Off(f)'
<1>1. ASSUME NEW f \in Conn, OthersStill(f), ExchangeOK(f)', Steps(f) PROVE Goal
    <2>1. ASSUME NEW g \in Conn PROVE ExchangeOK(g)'
        <3>1. CASE g = f
            BY <1>1, <3>1
        <3>2. CASE g # f
            BY <1>1, <3>2, StillOK DEF OthersStill, Exchanges
        <3>3. QED BY <3>1, <3>2
    <2>2. QED BY <1>1, <2>1 DEF Exchanges
<1>2. ASSUME \A g \in Conn : Still(g) PROVE Goal
    BY <1>2, StillOK DEF Exchanges
<1>3. ASSUME NEW S \in SUBSET Conn, Reset(S) PROVE Goal
    <2>1. ASSUME NEW g \in Conn PROVE ExchangeOK(g)' /\ (Still(g) \/ Off(g)')
        BY <1>3, ResetExchange, StillOK DEF Exchanges
    <2>2. QED BY <2>1 DEF Exchanges
<1>4. ASSUME UNCHANGED <<guest, linkVars, historyVars>> PROVE Goal
    BY <1>2, <1>4 DEF Still, linkVars, historyVars
<1>5. \A f \in Conn : ExchangeOK(f)
    BY DEF Exchanges
<1> HIDE DEF Goal
<1>6. ASSUME NEW f \in Conn, Client(f) PROVE Goal
    BY <1>1, <1>5, <1>6, AskExchange, GuestWritesExchange, PollExchange, GuestReadsExchange DEF Client
<1>7. ASSUME NEW f \in Conn, PollInterrupted(f) \/ ClientKilled(f) \/ VmCloses(f) \/ Reopen(f) PROVE Goal
    BY <1>1, <1>5, <1>7, PollExchange, ClientKilledExchange, ReopenExchange
<1>8. ASSUME NEW f \in Conn, Stop(f) \/ Resume(f) \/ Ready(f) PROVE Goal
    BY <1>4, <1>8 DEF Stop, Resume, Ready
<1>9. ASSUME Die PROVE Goal
    BY <1>3, <1>9 DEF Die
<1>10. ASSUME NEW f \in Conn, Callback(f) \/ HandlerCrashes(f) PROVE Goal
    <2>1. CASE DaemonEof(f)
        BY <1>3, <2>1 DEF DaemonEof
    <2>2. CASE SigPipe(f) \/ HandlerCrashes(f)
        BY <1>9, <2>2 DEF SigPipe, HandlerCrashes
    <2>3. CASE DaemonReads(f) \/ DaemonWrites(f)
        BY <1>1, <1>5, <2>3, DaemonReadsExchange, DaemonWritesExchange
    <2>4. QED BY <1>10, <2>1, <2>2, <2>3 DEF Callback
<1>11. ASSUME UNCHANGED vars PROVE Goal
    BY <1>4, <1>11 DEF vars
<1>12. Goal
    BY <1>6, <1>7, <1>8, <1>9, <1>10, <1>11 DEF Next, Killed
<1>13. QED BY <1>12 DEF Goal

-----------------------------------------------------------------------------
(* The exchanges of Abstract. *)

APhase == [f \in Conn |-> Phase(f)]
AAsked == [f \in Conn |-> Unless(f, msg[Up(f)])]
AGiven == [f \in Conn |-> Unless(f, given[f])]
AAnswered == [f \in Conn |-> IF Off(f) THEN 0 ELSE answered[f]]

LEMMA InitImplemented == Init => Abstract!Init
<1> SUFFICES ASSUME Init PROVE Abstract!Init
    OBVIOUS
<1>1. \A f \in Conn : guest[f] = "idle" /\ given[f] = Nothing /\ answered[f] = 0 /\ f \notin cut \cup stray
    BY DEF Init
<1>2. \A f \in Conn : msg[Up(f)] = Nothing
    BY Links DEF Init
<1>3. \A f \in Conn : Phase(f) = "idle" /\ ~Off(f)
    BY <1>1 DEF Phase, Off
<1>4. APhase = [f \in Conn |-> "idle"]
    BY <1>3 DEF APhase
<1>5. AAsked = [f \in Conn |-> Nothing] /\ AGiven = [f \in Conn |-> Nothing]
    BY <1>1, <1>2, <1>3 DEF AAsked, AGiven, Unless
<1>6. AAnswered = [f \in Conn |-> 0]
    BY <1>1, <1>3 DEF AAnswered
<1>7. QED BY <1>4, <1>5, <1>6 DEF Abstract!Init, APhase, AAsked, AGiven, AAnswered

(* Exchanges that go off break together, *)
LEMMA Broken ==
    ASSUME \A f \in Conn : Still(f) \/ Off(f)'
    PROVE  Abstract!Next
<1>1. PICK S \in SUBSET Conn : S = {f \in Conn : Off(f)'}
    OBVIOUS
<1>2. ASSUME NEW f \in Conn
      PROVE  /\ APhase'[f] = IF f \in S THEN "off" ELSE APhase[f]
             /\ AAsked'[f] = IF f \in S THEN Nothing ELSE AAsked[f]
             /\ AGiven'[f] = IF f \in S THEN Nothing ELSE AGiven[f]
             /\ AAnswered'[f] = IF f \in S THEN 0 ELSE AAnswered[f]
    <2>1. CASE f \in S
        BY <1>1, <2>1 DEF APhase, AAsked, AGiven, AAnswered, Unless, Phase
    <2>2. CASE f \notin S
        <3>1. Still(f)
            BY <1>1, <2>2
        <3>2. /\ Phase(f)' = Phase(f) /\ (Off(f)' <=> Off(f)) /\ answered'[f] = answered[f]
              /\ Unless(f, msg[Up(f)])' = Unless(f, msg[Up(f)])
              /\ Unless(f, given[f])' = Unless(f, given[f])
            BY <3>1, StillOK DEF Still
        <3>3. QED BY <2>2, <3>2 DEF APhase, AAsked, AGiven, AAnswered
    <2>3. QED BY <2>1, <2>2
<1>3. /\ APhase' = [f \in Conn |-> IF f \in S THEN "off" ELSE APhase[f]]
      /\ AAsked' = [f \in Conn |-> IF f \in S THEN Nothing ELSE AAsked[f]]
      /\ AGiven' = [f \in Conn |-> IF f \in S THEN Nothing ELSE AGiven[f]]
      /\ AAnswered' = [f \in Conn |-> IF f \in S THEN 0 ELSE AAnswered[f]]
    <2>1. /\ DOMAIN APhase' = Conn /\ APhase' = [f \in Conn |-> APhase'[f]]
          /\ AAsked' = [f \in Conn |-> AAsked'[f]]
          /\ AGiven' = [f \in Conn |-> AGiven'[f]]
          /\ AAnswered' = [f \in Conn |-> AAnswered'[f]]
        BY DEF APhase, AAsked, AGiven, AAnswered
    <2>2. QED BY <1>2, <2>1
<1>4. Abstract!Break(S)
    BY <1>3 DEF Abstract!Break, APhase, AAsked, AGiven, AAnswered
<1>5. QED BY <1>4 DEF Abstract!Next

(* and one that goes on takes a step of Exchange. *)
LEMMA TakenOn ==
    ASSUME NEW f \in Conn, OthersStill(f), Steps(f)
    PROVE  [Abstract!Next]_(Abstract!vars)
<1>1. ASSUME Off(f)' PROVE Abstract!Next
    BY <1>1, Broken DEF OthersStill
<1>2. ASSUME NEW g \in Conn, g # f
      PROVE  /\ APhase'[g] = APhase[g] /\ AAsked'[g] = AAsked[g]
             /\ AGiven'[g] = AGiven[g] /\ AAnswered'[g] = AAnswered[g]
    <2>1. Still(g)
        BY <1>2 DEF OthersStill
    <2>2. /\ Phase(g)' = Phase(g) /\ (Off(g)' <=> Off(g)) /\ answered'[g] = answered[g]
          /\ Unless(g, msg[Up(g)])' = Unless(g, msg[Up(g)])
          /\ Unless(g, given[g])' = Unless(g, given[g])
        BY <2>1, StillOK DEF Still
    <2>3. QED BY <2>2 DEF APhase, AAsked, AGiven, AAnswered
<1>3. ASSUME NEW v, NEW w, NEW x, NEW y,
             Phase(f)' = v, Unless(f, msg[Up(f)])' = w, Unless(f, given[f])' = x,
             (IF Off(f) THEN 0 ELSE answered[f])' = y
      PROVE  /\ APhase' = [APhase EXCEPT ![f] = v] /\ AAsked' = [AAsked EXCEPT ![f] = w]
             /\ AGiven' = [AGiven EXCEPT ![f] = x] /\ AAnswered' = [AAnswered EXCEPT ![f] = y]
    <2>1. APhase'[f] = v /\ AAsked'[f] = w /\ AGiven'[f] = x /\ AAnswered'[f] = y
        BY <1>3 DEF APhase, AAsked, AGiven, AAnswered
    <2>2. /\ APhase' = [g \in Conn |-> APhase'[g]] /\ APhase = [g \in Conn |-> APhase[g]]
          /\ AAsked' = [g \in Conn |-> AAsked'[g]] /\ AAsked = [g \in Conn |-> AAsked[g]]
          /\ AGiven' = [g \in Conn |-> AGiven'[g]] /\ AGiven = [g \in Conn |-> AGiven[g]]
          /\ AAnswered' = [g \in Conn |-> AAnswered'[g]] /\ AAnswered = [g \in Conn |-> AAnswered[g]]
        BY DEF APhase, AAsked, AGiven, AAnswered
    <2> HIDE DEF APhase, AAsked, AGiven, AAnswered
    <2>3. APhase' = [APhase EXCEPT ![f] = v]
        BY <1>2, <2>1, <2>2
    <2>4. AAsked' = [AAsked EXCEPT ![f] = w]
        BY <1>2, <2>1, <2>2
    <2>5. AGiven' = [AGiven EXCEPT ![f] = x]
        BY <1>2, <2>1, <2>2
    <2>6. AAnswered' = [AAnswered EXCEPT ![f] = y]
        BY <1>2, <2>1, <2>2
    <2>7. QED BY <2>3, <2>4, <2>5, <2>6
<1>4. /\ APhase[f] = Phase(f) /\ AAsked[f] = Unless(f, msg[Up(f)])
      /\ AGiven[f] = Unless(f, given[f]) /\ AAnswered[f] = IF Off(f) THEN 0 ELSE answered[f]
    BY DEF APhase, AAsked, AGiven, AAnswered
<1>5. /\ APhase = [APhase EXCEPT ![f] = APhase[f]] /\ AAsked = [AAsked EXCEPT ![f] = AAsked[f]]
      /\ AGiven = [AGiven EXCEPT ![f] = AGiven[f]]
      /\ AAnswered = [AAnswered EXCEPT ![f] = AAnswered[f]]
    BY DEF APhase, AAsked, AGiven, AAnswered
<1> USE DEF Moves
<1>6. ASSUME ~Off(f), ~Off(f)', Phase(f)' = Phase(f), msg'[Up(f)] = msg[Up(f)],
             given'[f] = given[f], answered'[f] = answered[f]
      PROVE  UNCHANGED Abstract!vars
    <2>1. UNCHANGED <<APhase, AAsked, AGiven, AAnswered>>
        BY <1>3, <1>4, <1>5, <1>6 DEF Unless
    <2>2. QED BY <2>1 DEF Abstract!vars, APhase, AAsked, AGiven, AAnswered
<1>7. ASSUME Moves(f, "idle", "asked"), msg'[Up(f)] \in Message, given'[f] = Nothing,
             answered'[f] = answered[f]
      PROVE  Abstract!Ask(f)
    <2>1. PICK m \in Message : msg'[Up(f)] = m
        BY <1>7
    <2>2. /\ APhase' = [APhase EXCEPT ![f] = "asked"] /\ AAsked' = [AAsked EXCEPT ![f] = m]
          /\ AGiven' = [AGiven EXCEPT ![f] = Nothing] /\ AAnswered' = AAnswered
          /\ APhase[f] = "idle"
        BY <1>3, <1>4, <1>5, <1>7, <2>1 DEF Unless
    <2>3. QED BY <2>2 DEF Abstract!Ask, Abstract!Goto, APhase, AAsked, AGiven, AAnswered
<1>8. ASSUME Moves(f, "asked", "served"), msg'[Up(f)] = msg[Up(f)], given'[f] = msg[Up(f)],
             answered'[f] = answered[f]
      PROVE  Abstract!Serve(f)
    <2>1. /\ APhase' = [APhase EXCEPT ![f] = "served"] /\ AAsked' = AAsked
          /\ AGiven' = [AGiven EXCEPT ![f] = AAsked[f]] /\ AAnswered' = AAnswered
          /\ APhase[f] = "asked"
        BY <1>3, <1>4, <1>5, <1>8 DEF Unless
    <2>2. QED BY <2>1 DEF Abstract!Serve, Abstract!Goto, APhase, AAsked, AGiven, AAnswered
<1>9. ASSUME Moves(f, "asked", "idle"), msg'[Up(f)] = msg[Up(f)], given'[f] = given[f],
             answered'[f] = answered[f]
      PROVE  Abstract!Withdraw(f)
    <2>1. /\ APhase' = [APhase EXCEPT ![f] = "idle"] /\ UNCHANGED <<AAsked, AGiven, AAnswered>>
          /\ APhase[f] = "asked"
        BY <1>3, <1>4, <1>5, <1>9 DEF Unless
    <2>2. QED BY <2>1 DEF Abstract!Withdraw, Abstract!Goto, APhase, AAsked, AGiven, AAnswered
<1>10. ASSUME Moves(f, "served", "idle"), msg'[Up(f)] = msg[Up(f)], given'[f] = given[f],
             answered'[f] = msg[Up(f)].n
      PROVE  Abstract!Answer(f)
    <2>1. /\ APhase' = [APhase EXCEPT ![f] = "idle"] /\ UNCHANGED <<AAsked, AGiven>>
          /\ AAnswered' = [AAnswered EXCEPT ![f] = AAsked[f].n] /\ APhase[f] = "served"
        BY <1>3, <1>4, <1>5, <1>10 DEF Unless
    <2>2. QED BY <2>1 DEF Abstract!Answer, Abstract!Goto, APhase, AAsked, AGiven, AAnswered
<1>11. ASSUME Off(f), ~Off(f)', Phase(f)' = "idle", msg'[Up(f)] = Nothing, given'[f] = Nothing,
             answered'[f] = 0
      PROVE  Abstract!Reopen(f)
    <2>1. Phase(f) = "off"
        BY <1>11 DEF Phase
    <2>2. /\ APhase' = [APhase EXCEPT ![f] = "idle"] /\ UNCHANGED <<AAsked, AGiven, AAnswered>>
          /\ APhase[f] = "off"
        BY <1>3, <1>4, <1>5, <1>11, <2>1 DEF Unless
    <2>3. QED BY <2>2 DEF Abstract!Reopen, Abstract!Goto, APhase, AAsked, AGiven, AAnswered
<1>12. QED BY <1>1, <1>6, <1>7, <1>8, <1>9, <1>10, <1>11 DEF Steps, Abstract!Next

(* A client that waits for its reply and has left none behind: whatever       *)
(* writev and read make of the bytes, its request is given to a handler as it *)
(* was sent, once, and the reply it reads is the reply to it.                 *)
THEOREM ExchangeImplemented == Spec => ExchangeSpec
<1>1. Init => Exchanges /\ Abstract!Init
    BY InitExchanges, InitImplemented
<1>2. TypeInv /\ Exchanges /\ [Next]_vars => Exchanges' /\ [Abstract!Next]_(Abstract!vars)
    <2> SUFFICES ASSUME TypeInv, Exchanges, [Next]_vars
                 PROVE  Exchanges' /\ [Abstract!Next]_(Abstract!vars)
        OBVIOUS
    <2>1. /\ Exchanges'
          /\ \/ \E f \in Conn : OthersStill(f) /\ Steps(f)
             \/ \A f \in Conn : Still(f) \/ Off(f)'
        BY EveryStep
    <2>2. QED BY <2>1, Broken, TakenOn
<1>3. Spec => []TypeInv
    <2>1. IInv => TypeInv
        BY DEF IInv
    <2>2. QED BY <2>1, Invariance, PTL
<1>4. QED BY <1>1, <1>2, <1>3, PTL DEF Spec, ExchangeSpec, Abstract!Spec

-----------------------------------------------------------------------------
(* The turn of a connection: the callback that runs has begun a request, can  *)
(* begin one, or has a reply to write; and none runs for a closed connection. *)

InTurn(f) ==
    /\ serving = f /\ ~Off(f) => got[Up(f)] # <<>> \/ wire[Up(f)] # <<>> \/ out[Down(f)] # <<>>
    /\ guest[f] = "closed" => serving # f

Turns == \A f \in Conn : InTurn(f)

LEMMA InitTurns == Init => Turns
BY FramingAssumption DEF Init, Turns, InTurn

(* A step that begins no turn and takes nothing the turn is about. *)
LEMMA TurnStays ==
    ASSUME NEW f \in Conn, InTurn(f), serving' = f => serving = f,
           guest'[f] = "closed" => serving' # f,
           Off(f) => Off(f)',
           got'[Up(f)] = got[Up(f)], out'[Down(f)] = out[Down(f)],
           wire[Up(f)] # <<>> => wire'[Up(f)] # <<>>
    PROVE  InTurn(f)'
BY DEF InTurn

(* The steps of a guest never take anything from its turn. *)
LEMMA GuestTurns ==
    ASSUME TypeInv, Turns, NEW f \in Conn,
           Client(f) \/ PollInterrupted(f) \/ ClientKilled(f) \/ Stop(f) \/ Resume(f) \/ VmCloses(f)
    PROVE  Turns'
<1> USE DEF TypeInv, TypeOK
<1>1. serving' = serving
    BY DEF Client, Ask, GuestWrites, PollReturns, GuestReads, PollInterrupted, ClientKilled, Stop,
           Resume, VmCloses
<1>2. /\ cut \subseteq cut' /\ stray \subseteq stray'
      /\ guest[f] = "closed" => guest' = guest
      /\ guest[f] = "gone" => guest' = guest
      /\ \A g \in Conn : guest'[g] = "closed" => guest[g] = "closed"
      /\ \A g \in Conn \ {f} : guest'[g] = guest[g]
    BY DEF Client, Ask, GuestWrites, PollReturns, GuestReads, PollInterrupted, ClientKilled, Stop,
           Resume, VmCloses, Runs, historyVars
<1>3. \A g \in Conn : got'[Up(g)] = got[Up(g)] /\ out'[Down(g)] = out[Down(g)]
    <2>1. \/ got' = got
          \/ \E s : got' = [got EXCEPT ![Down(f)] = s]
        BY DEF Client, Ask, GuestWrites, PollReturns, GuestReads, PollInterrupted, ClientKilled,
               Stop, Resume, VmCloses, Keep, linkVars
    <2>2. \/ out' = out
          \/ \E s : out' = [out EXCEPT ![Up(f)] = s]
        BY DEF Client, Ask, GuestWrites, PollReturns, GuestReads, PollInterrupted, ClientKilled,
               Stop, Resume, VmCloses, WriteSome, linkVars
    <2>3. QED BY <2>1, <2>2, Links
<1>4. \A g \in Conn : wire[Up(g)] # <<>> => wire'[Up(g)] # <<>>
    <2>1. CASE GuestWrites(f)
        <3>1. PICK b : wire' = [wire EXCEPT ![Up(f)] = @ \o b] /\ b \in Seq(Byte)
            <4>1. WriteSome(Up(f)) /\ wire' \in [Link -> Seq(Byte)]
                BY <2>1, WriteSomeTyped, Links DEF GuestWrites
            <4>2. PICK j \in 1 .. Capacity - Len(wire[Up(f)]) :
                        /\ j <= LenOf(out[Up(f)])
                        /\ wire' = [wire EXCEPT ![Up(f)] = @ \o Gathered(msg[Up(f)], out[Up(f)], j)]
                BY <4>1 DEF WriteSome
            <4>3. Gathered(msg[Up(f)], out[Up(f)], j) \in Seq(Byte)
                <5>1. /\ out[Up(f)] \in Seq(Part) /\ msg[Up(f)] \in Message \cup {Garbage}
                      /\ wire[Up(f)] \in Seq(Byte)
                    BY <4>1, Links DEF WriteSome, Writing
                <5>2. j \in Nat \ {0}
                    BY <5>1, Constants, LenProperties
                <5>3. QED BY <4>2, <5>1, <5>2, WriteTyped
            <4>4. QED BY <4>2, <4>3
        <3>2. wire[Up(f)] \in Seq(Byte)
            BY Links
        <3>3. wire[Up(f)] # <<>> => wire[Up(f)] \o b # <<>>
            BY <3>1, <3>2
        <3>4. QED BY <3>1, <3>3, Links
    <2>2. CASE ~GuestWrites(f)
        <3>1. \/ wire' = wire
              \/ \E s : wire' = [wire EXCEPT ![Down(f)] = s]
            BY <2>2 DEF Client, Ask, PollReturns, GuestReads, PollInterrupted, ClientKilled, Stop,
               Resume, VmCloses, ReadSome, linkVars
        <3>2. QED BY <3>1, Links
    <2>3. QED BY <2>1, <2>2
<1>5. ASSUME NEW g \in Conn PROVE InTurn(g)'
    <2>1. InTurn(g)
        BY DEF Turns
    <2>2. Off(g) => Off(g)'
        BY <1>2 DEF Off
    <2>3. guest'[g] = "closed" => serving' # g
        BY <1>1, <1>2, <2>1 DEF InTurn
    <2>4. QED BY <1>1, <1>3, <1>4, <2>1, <2>2, <2>3, TurnStays
<1>6. QED BY <1>5 DEF Turns

(* A callback begins when there is something to read, or the machine is gone. *)
LEMMA ReadyTurns ==
    ASSUME Exchanges, Turns, NEW f \in Conn, Ready(f)
    PROVE  Turns'
<1>1. /\ serving' = f
      /\ wire[Up(f)] # <<>> \/ guest[f] = "gone"
      /\ UNCHANGED <<guest, out, wire, got, cut, stray>>
    BY DEF Ready, linkVars, historyVars
<1>2. guest[f] # "closed"
    BY <1>1 DEF Exchanges, ExchangeOK, Ended, Clear
<1>3. QED BY <1>1, <1>2 DEF Turns, InTurn, Off

(* It goes on from what it read to the reply, *)
LEMMA DaemonReadsTurns ==
    ASSUME TypeInv, Turns, NEW f \in Conn, DaemonReads(f)
    PROVE  Turns'
<1> USE DEF TypeInv, TypeOK
<1>1. UNCHANGED <<guest, serving, cut, stray>> /\ serving = f
    BY DEF DaemonReads, Reading
<1>2. PICK j \in 1 .. Capacity, t \in Total \cup {0} :
         LET bytes == Extended(Up(f), j)
             m == Decoded(bytes)
         IN  /\ ReadSome(Up(f), j, t)
             /\ \/ /\ Keep(Up(f), <<>>, 0)
                   /\ out' = [out EXCEPT ![Down(f)] = Parts(Reply(m))]
                \/ /\ Keep(Up(f), bytes, t)
                   /\ out' = out
    BY DEF DaemonReads
<1>3. got'[Up(f)] # <<>> \/ out'[Down(f)] # <<>>
    <2>1. Extended(Up(f), j) # <<>>
        <3>1. /\ got[Up(f)] \in Seq(Byte) /\ wire[Up(f)] \in Seq(Byte)
              /\ j \in 1 .. Len(wire[Up(f)])
            BY <1>2, Links DEF ReadSome
        <3>2. Len(Extended(Up(f), j)) = Len(got[Up(f)]) + j
            BY <3>1, ReadMoves DEF Extended
        <3>3. Len(got[Up(f)]) \in Nat /\ j \in Nat \ {0} /\ Len(<<>>) = 0
            BY <3>1
        <3>4. QED BY <3>2, <3>3
    <2>2. \A m : Parts(m) # <<>>
        BY DEF Parts
    <2>3. QED BY <1>2, <2>1, <2>2, Links DEF Keep
<1>4. /\ \E s : got' = [got EXCEPT ![Up(f)] = s]
      /\ \E s : wire' = [wire EXCEPT ![Up(f)] = s]
      /\ out' = out \/ \E s : out' = [out EXCEPT ![Down(f)] = s]
    BY <1>2 DEF Keep, ReadSome
<1>5. ASSUME NEW g \in Conn PROVE InTurn(g)'
    <2>1. CASE g = f
        BY <1>1, <1>3, <2>1 DEF Turns, InTurn
    <2>2. CASE g # f
        <3>1. serving' # g
            BY <1>1, <2>2
        <3>2. QED BY <3>1 DEF InTurn
    <2>3. QED BY <2>1, <2>2
<1>6. QED BY <1>5 DEF Turns

(* and ends with its last byte. *)
LEMMA DaemonWritesTurns ==
    ASSUME TypeInv, Turns, NEW f \in Conn, DaemonWrites(f)
    PROVE  Turns'
<1>1. /\ serving = f /\ guest' = guest
      /\ serving' = IF out'[Down(f)] = <<>> THEN "none" ELSE f
    BY DEF DaemonWrites
<1>2. ASSUME NEW g \in Conn PROVE InTurn(g)'
    BY <1>1, FramingAssumption DEF Turns, InTurn
<1>3. QED BY <1>2 DEF Turns

LEMMA TurnsKept ==
    ASSUME TypeInv, Exchanges, Turns, [Next]_vars
    PROVE  Turns'
<1>1. ASSUME serving' = "none" PROVE Turns'
    BY <1>1, FramingAssumption DEF Turns, InTurn
<1>2. ASSUME NEW S, Reset(S) PROVE Turns'
    BY <1>1, <1>2 DEF Reset
<1>3. ASSUME NEW f \in Conn, Callback(f) \/ HandlerCrashes(f) PROVE Turns'
    BY <1>2, <1>3, DaemonReadsTurns, DaemonWritesTurns
       DEF Callback, DaemonEof, SigPipe, HandlerCrashes, Die
<1>4. ASSUME NEW f \in Conn, Reopen(f) PROVE Turns'
    <2>1. /\ serving' = serving /\ serving # f
          /\ guest' = [guest EXCEPT ![f] = "idle"]
          /\ UNCHANGED <<out, wire, got, cut, stray>>
        BY <1>4 DEF Reopen, linkVars, historyVars, Turns, InTurn
    <2>2. \A g \in Conn \ {f} : guest'[g] = guest[g]
        BY <2>1 DEF TypeInv, TypeOK
    <2>3. QED BY <2>1, <2>2 DEF Turns, InTurn, Off
<1>5. CASE UNCHANGED vars
    BY <1>5 DEF vars, linkVars, historyVars, Turns, InTurn, Off
<1>6. QED BY <1>2, <1>3, <1>4, <1>5, GuestTurns, ReadyTurns DEF Next, Killed, Die

(* While a callback runs, either the daemon or the guest has something to do: *)
(* they never wait for each other, however little a connection holds and      *)
(* wherever writev and read cut the messages.                                 *)
THEOREM NoneStandOff == Spec => []NoStandoff
<1>1. ASSUME IInv, Exchanges, Turns, NEW f \in Conn, serving = f, f \notin cut \cup stray
      PROVE  CanGoOn(f)
    <2>1. CASE guest[f] = "gone"
        BY <2>1 DEF CanGoOn
    <2>2. CASE guest[f] # "gone"
        <3>1. ~Off(f)
            BY <1>1, <2>2 DEF Off, Turns, InTurn
        <3>2. got[Up(f)] # <<>> \/ wire[Up(f)] # <<>> \/ out[Down(f)] # <<>>
            BY <1>1, <3>1 DEF Turns, InTurn
        <3>3. Asked(f) \/ Served(f)
            BY <1>1, <3>1, <3>2 DEF Exchanges, ExchangeOK, Resting, Clear
        <3>4. CASE Asked(f)
            <4>1. out[Down(f)] = <<>>
                BY <3>4 DEF Asked, Clear
            <4>2. ASSUME wire[Up(f)] = <<>>
                  PROVE  guest[f] = "sending" /\ Len(wire[Up(f)]) < Capacity
                <5>1. PICK m \in Message : msg[Up(f)] = m
                    BY <3>4 DEF Asked
                <5>2. PICK q \in 0 .. m.total : \E p \in 0 .. q : p < m.total /\ Holds(Up(f), m, p, q)
                    BY <3>4, <5>1 DEF Asked, Carries
                <5>3. PICK p \in 0 .. q : p < m.total /\ Holds(Up(f), m, p, q)
                    BY <5>2
                <5>4. m.total \in Nat /\ m.total >= HdrLen
                    BY Sized
                <5>5. q = p
                    BY <4>2, <5>3, <5>4, PieceLength DEF Holds
                <5>6. out[Up(f)] # <<>>
                    BY <5>3, <5>4, <5>5, RestProperties DEF Holds
                <5>7. guest[f] = "sending"
                    BY <1>1, <2>2, <5>6 DEF IInv, Drained
                <5>8. Len(wire[Up(f)]) = 0
                    BY <4>2
                <5>9. QED BY <5>7, <5>8, FramingAssumption
            <4>3. QED BY <4>1, <4>2 DEF CanGoOn
        <3>5. CASE Served(f)
            <4>1. out[Down(f)] # <<>> /\ guest[f] \in {"waiting", "receiving"}
                BY <3>2, <3>5 DEF Served, Clear
            <4>2. ASSUME wire[Down(f)] = <<>> PROVE Len(wire[Down(f)]) < Capacity
                <5>1. Len(wire[Down(f)]) = 0
                    BY <4>2
                <5>2. QED BY <5>1, FramingAssumption
            <4>3. QED BY <4>1, <4>2 DEF CanGoOn
        <3>6. QED BY <3>3, <3>4, <3>5
    <2>3. QED BY <2>1, <2>2
<1>2. IInv /\ Exchanges /\ Turns => NoStandoff
    BY <1>1 DEF NoStandoff
<1>3. IInv => TypeInv
    BY DEF IInv
<1>4. TypeInv /\ Exchanges /\ [Next]_vars => Exchanges'
    BY EveryStep
<1>5. TypeInv /\ Exchanges /\ Turns /\ [Next]_vars => Turns'
    BY TurnsKept
<1>6. QED BY <1>2, <1>3, <1>4, <1>5, Invariance, InitExchanges, InitTurns, PTL DEF Spec

-----------------------------------------------------------------------------
(* How long an exchange can last. *)

(* What a link has still to take and to deliver: a byte that is not written   *)
(* counts twice, as it will be on its way.                                    *)
Pending(l) == 2 * LenOf(out[l]) + Len(wire[l])

(* What is to go of an exchange: its bytes, a reply not yet begun, and the    *)
(* poll of the guest.                                                         *)
ToGo(f) ==
    Pending(Up(f)) + Pending(Down(f))
    + (IF given[f] = Nothing THEN 2 * HdrLen ELSE 0)
    + (IF guest[f] \in {"sending", "waiting"} THEN 1 ELSE 0)

LEMMA LenOfTyped == \A iov \in Seq(Part) : LenOf(iov) \in Nat
<1> SUFFICES ASSUME NEW iov \in Seq(Part) PROVE LenOf(iov) \in Nat
    OBVIOUS
<1>1. Len(iov) \in Nat /\ \A k \in 1 .. Len(iov) : iov[k] \in Part
    OBVIOUS
<1>2. \A k \in 1 .. Len(iov) : iov[k].len \in Nat
    BY <1>1 DEF Part
<1>3. CASE Len(iov) = 0
    BY <1>3 DEF LenOf
<1>4. CASE Len(iov) = 1
    BY <1>2, <1>4 DEF LenOf
<1>5. CASE Len(iov) > 1
    <2>1. iov[1].len \in Nat /\ iov[2].len \in Nat
        BY <1>1, <1>2, <1>5
    <2>2. LenOf(iov) = iov[1].len + iov[2].len
        BY <1>1, <1>5 DEF LenOf
    <2>3. QED BY <2>1, <2>2
<1>6. Len(iov) = 0 \/ Len(iov) = 1 \/ Len(iov) > 1
    <2>1. \A n \in Nat : n = 0 \/ n = 1 \/ n > 1
        OBVIOUS
    <2>2. QED BY <1>1, <2>1
<1>7. QED BY <1>3, <1>4, <1>5, <1>6

LEMMA PendingTyped ==
    ASSUME NEW l \in Link
    PROVE  LET Typed == Pending(l) \in Nat /\ LenOf(out[l]) \in Nat /\ Len(wire[l]) \in Nat
           IN  (TypeOK => Typed) /\ (TypeOK' => Typed')
<1>1. ASSUME NEW iov \in Seq(Part), NEW bytes \in Seq(Byte)
      PROVE  /\ LenOf(iov) \in Nat /\ Len(bytes) \in Nat
             /\ 2 * LenOf(iov) + Len(bytes) \in Nat
    <2>1. LenOf(iov) \in Nat /\ Len(bytes) \in Nat
        BY LenOfTyped, LenProperties
    <2>2. QED BY <2>1
<1>2. /\ TypeOK => out[l] \in Seq(Part) /\ wire[l] \in Seq(Byte)
      /\ TypeOK' => out'[l] \in Seq(Part) /\ wire'[l] \in Seq(Byte)
    BY DEF TypeOK
<1>3. QED BY <1>1, <1>2 DEF Pending

LEMMA ToGoTyped ==
    ASSUME TypeOK, NEW f \in Conn
    PROVE  ToGo(f) \in Nat
<1> DEFINE a == IF given[f] = Nothing THEN 2 * HdrLen ELSE 0
           b == IF guest[f] \in {"sending", "waiting"} THEN 1 ELSE 0
<1>1. Pending(Up(f)) \in Nat /\ Pending(Down(f)) \in Nat
    BY PendingTyped, Links
<1>2. a \in Nat /\ b \in Nat
    BY Constants
<1>3. ToGo(f) = Pending(Up(f)) + Pending(Down(f)) + a + b
    BY DEF ToGo
<1> HIDE DEF a, b
<1>4. QED BY <1>1, <1>2, <1>3

(* What a writev takes off the parts left to write it puts on the way, *)
LEMMA WriteShrinks ==
    ASSUME TypeInv, NEW l \in Link,
           NEW m, m.total \in Nat, m.total >= HdrLen, Carries(l, m), WriteSome(l)
    PROVE  Pending(l)' < Pending(l)
<1>1. PICK q \in 0 .. m.total : out[l] = Rest(m, q) /\ msg[l] = m
    BY DEF Carries, Holds
<1>2. LenOf(Rest(m, q)) = m.total - q
    BY RestProperties
<1>3. PICK j \in 1 .. Capacity - Len(wire[l]) :
          /\ j <= LenOf(out[l])
          /\ wire' = [wire EXCEPT ![l] = @ \o Gathered(msg[l], out[l], j)]
          /\ out' = [out EXCEPT ![l] = NextIovec(@, j)]
    BY DEF WriteSome
<1>4. Len(wire[l]) \in Nat /\ Capacity \in Nat
    BY PendingTyped, Constants DEF TypeInv
<1>5. j \in Nat \ {0} /\ j \in 1 .. m.total - q
    BY <1>1, <1>2, <1>3, <1>4
<1>6. Gathered(m, Rest(m, q), j) = Piece(m, q, j) /\ NextIovec(Rest(m, q), j) = Rest(m, q + j)
    BY <1>5, IovecResumes
<1>7. out'[l] = Rest(m, q + j) /\ wire'[l] = wire[l] \o Piece(m, q, j)
    BY <1>1, <1>3, <1>6 DEF TypeInv, TypeOK
<1>8. LenOf(out'[l]) = m.total - (q + j)
    <2>1. q + j \in 0 .. m.total
        BY <1>5
    <2>2. QED BY <1>7, <2>1, RestProperties
<1>9. Len(wire'[l]) = Len(wire[l]) + j
    <2>1. wire[l] \in Seq(Byte) /\ out[l] \in Seq(Part) /\ m \in Message \cup {Garbage}
        BY <1>1 DEF WriteSome, TypeInv, Writing, TypeOK
    <2>2. Piece(m, q, j) \in Seq(Byte)
        BY <1>1, <1>3, <1>5, <1>6, <2>1, WriteTyped
    <2>3. Len(Piece(m, q, j)) = j
        BY <1>5, PieceLength
    <2>4. Len(wire[l] \o Piece(m, q, j)) = Len(wire[l]) + Len(Piece(m, q, j))
        BY <2>1, <2>2, ConcatProperties
    <2>5. QED BY <1>7, <2>3, <2>4
<1>10. QED BY <1>1, <1>2, <1>4, <1>5, <1>8, <1>9 DEF Pending

(* and a read takes off it what it returns. *)
LEMMA ReadShrinks ==
    ASSUME TypeOK, NEW l \in Link, NEW j, NEW t, ReadSome(l, j, t), out'[l] = out[l]
    PROVE  Pending(l)' < Pending(l)
<1>1. /\ j \in 1 .. Len(wire[l])
      /\ wire' = [wire EXCEPT ![l] = SubSeq(@, j + 1, Len(@))]
    BY DEF ReadSome
<1>2. wire[l] \in Seq(Byte) /\ Len(wire[l]) \in Nat /\ LenOf(out[l]) \in Nat
    BY PendingTyped DEF TypeOK
<1>3. wire'[l] = SubSeq(wire[l], j + 1, Len(wire[l]))
    BY <1>1 DEF TypeOK
<1>4. Len(wire'[l]) < Len(wire[l]) /\ Len(wire'[l]) \in Nat
    BY <1>1, <1>2, <1>3
<1>5. QED BY <1>2, <1>4 DEF Pending

(* The parts of ToGo that one step changes. *)
LEMMA ToGoShrinks ==
    ASSUME TypeOK, TypeOK', NEW f \in Conn,
           Pending(Up(f))' + Pending(Down(f))' <= Pending(Up(f)) + Pending(Down(f)),
           given'[f] = given[f],
           \/ /\ guest'[f] \in {"sending", "waiting"} => guest[f] \in {"sending", "waiting"}
              /\ Pending(Up(f))' + Pending(Down(f))' < Pending(Up(f)) + Pending(Down(f))
           \/ guest[f] \in {"sending", "waiting"} /\ guest'[f] \notin {"sending", "waiting"}
    PROVE  ToGo(f)' < ToGo(f)
<1> DEFINE a == IF given[f] = Nothing THEN 2 * HdrLen ELSE 0
           b == IF guest[f] \in {"sending", "waiting"} THEN 1 ELSE 0
           c == IF guest'[f] \in {"sending", "waiting"} THEN 1 ELSE 0
           p == Pending(Up(f)) + Pending(Down(f))
           q == Pending(Up(f))' + Pending(Down(f))'
<1>1. p \in Nat /\ q \in Nat
    BY PendingTyped, Links
<1>2. a \in Nat /\ b \in {0, 1} /\ c \in {0, 1} /\ q <= p /\ ((c <= b /\ q < p) \/ c < b)
    BY Constants
<1>3. ToGo(f) = p + a + b /\ ToGo(f)' = q + a + c
    BY DEF ToGo
<1> HIDE DEF a, b, c, p, q
<1>4. QED BY <1>1, <1>2, <1>3

LEMMA ExchangeShrinks ==
    ASSUME TypeInv, TypeInv', NEW f \in Conn, ExchangeOK(f), Asked(f) \/ Served(f), ~Off(f)',
           Client(f) \/ ClientKilled(f) \/ DaemonReads(f) \/ DaemonWrites(f)
    PROVE  ToGo(f)' < ToGo(f)
<1> USE DEF TypeInv
<1>1. /\ Up(f) \in Link /\ Down(f) \in Link /\ Up(f) # Down(f)
      /\ Pending(Up(f)) \in Nat /\ Pending(Down(f)) \in Nat
      /\ Pending(Up(f))' \in Nat /\ Pending(Down(f))' \in Nat
    BY Links, PendingTyped
<1>2. msg[Up(f)] \in Message
    BY DEF Asked, Served
<1>3. ~Ask(f)
    BY DEF Ask, Runs, Asked, Served
<1>4. CASE GuestWrites(f)
    <2>1. /\ guest[f] = "sending" /\ WriteSome(Up(f)) /\ given' = given
          /\ \E s : wire' = [wire EXCEPT ![Up(f)] = s]
          /\ \E s : out' = [out EXCEPT ![Up(f)] = s]
        BY <1>4 DEF GuestWrites, Runs, historyVars, WriteSome
    <2>2. Pending(Up(f))' < Pending(Up(f))
        BY <1>1, <1>2, <2>1, WriteShrinks, Sized DEF Asked, Served
    <2>3. Pending(Down(f))' = Pending(Down(f))
        BY <1>1, <2>1 DEF TypeOK, Pending
    <2>4. QED BY <1>1, <2>1, <2>2, <2>3, ToGoShrinks
<1>5. CASE PollReturns(f)
    <2>1. /\ guest[f] = "waiting" /\ guest'[f] = "receiving"
          /\ UNCHANGED <<given, out, wire>>
        BY <1>5 DEF PollReturns, Runs, linkVars, historyVars, TypeOK
    <2>2. Pending(Up(f))' = Pending(Up(f)) /\ Pending(Down(f))' = Pending(Down(f))
        BY <2>1 DEF Pending
    <2>3. QED BY <1>1, <2>1, <2>2, ToGoShrinks
<1>6. CASE GuestReads(f)
    <2>1. /\ guest[f] = "receiving" /\ guest'[f] \in {"receiving", "idle"}
          /\ UNCHANGED <<given, out>>
        BY <1>6 DEF GuestReads, Runs, TypeOK
    <2>2. PICK j, t : ReadSome(Down(f), j, t)
        BY <1>6 DEF GuestReads
    <2>3. Pending(Down(f))' < Pending(Down(f))
        BY <1>1, <2>1, <2>2, ReadShrinks
    <2>4. Pending(Up(f))' = Pending(Up(f))
        BY <1>1, <2>1, <2>2 DEF ReadSome, Pending, TypeOK
    <2>5. QED BY <1>1, <2>1, <2>3, <2>4, ToGoShrinks
<1>7. CASE ClientKilled(f)
    <2>1. /\ guest[f] = "sending" /\ guest'[f] = "idle" /\ given' = given
          /\ out' = [out EXCEPT ![Up(f)] = <<>>]
          /\ wire' = wire \/ wire' = [wire EXCEPT ![Down(f)] = <<>>]
        BY <1>7 DEF ClientKilled, Off, TypeOK
    <2>2. Pending(Up(f))' <= Pending(Up(f))
        <3>1. out'[Up(f)] = <<>> /\ wire'[Up(f)] = wire[Up(f)]
            BY <1>1, <2>1 DEF TypeOK
        <3>2. LenOf(out'[Up(f)]) = 0
            BY <3>1 DEF LenOf
        <3>3. QED BY <1>1, <3>1, <3>2, PendingTyped DEF Pending
    <2>3. Pending(Down(f))' <= Pending(Down(f))
        <3>1. out'[Down(f)] = out[Down(f)]
            BY <1>1, <2>1 DEF TypeOK
        <3>2. wire'[Down(f)] = wire[Down(f)] \/ Len(wire'[Down(f)]) = 0
            BY <1>1, <2>1 DEF TypeOK
        <3>3. QED BY <1>1, <3>1, <3>2, PendingTyped DEF Pending
    <2>4. QED BY <1>1, <2>1, <2>2, <2>3, ToGoShrinks
<1>8. CASE DaemonWrites(f)
    <2>1. /\ WriteSome(Down(f)) /\ guest' = guest /\ given' = given
          /\ out[Down(f)] # <<>>
          /\ \E s : wire' = [wire EXCEPT ![Down(f)] = s]
          /\ \E s : out' = [out EXCEPT ![Down(f)] = s]
        BY <1>8 DEF DaemonWrites, historyVars, WriteSome
    <2>2. Carries(Down(f), Reply(msg[Up(f)]))
        BY <2>1 DEF Asked, Served, Clear
    <2>3. Pending(Down(f))' < Pending(Down(f))
        BY <1>1, <1>2, <2>1, <2>2, WriteShrinks, Sized
    <2>4. Pending(Up(f))' = Pending(Up(f))
        BY <1>1, <2>1 DEF TypeOK, Pending
    <2>5. QED BY <1>1, <2>1, <2>3, <2>4, ToGoShrinks
<1>9. CASE DaemonReads(f)
    <2>1. guest' = guest /\ out[Down(f)] = <<>>
        BY <1>9 DEF DaemonReads, Reading
    <2>2. PICK j, t :
            /\ ReadSome(Up(f), j, t)
            /\ IF Len(Extended(Up(f), j)) = t
               THEN /\ given' = [given EXCEPT ![f] = Decoded(Extended(Up(f), j))]
                    /\ out' = [out EXCEPT ![Down(f)] = Parts(Reply(Decoded(Extended(Up(f), j))))]
               ELSE UNCHANGED <<given, out>>
        BY <1>9 DEF DaemonReads
    <2>3. Pending(Up(f))' < Pending(Up(f)) /\ wire'[Down(f)] = wire[Down(f)]
        <3>1. out'[Up(f)] = out[Up(f)] /\ wire'[Down(f)] = wire[Down(f)]
            BY <1>1, <2>2 DEF ReadSome, TypeOK
        <3>2. QED BY <1>1, <2>2, <3>1, ReadShrinks
    <2>4. CASE Len(Extended(Up(f), j)) # t
        <3>1. Pending(Down(f))' = Pending(Down(f)) /\ given' = given
            BY <2>2, <2>3, <2>4 DEF Pending
        <3>2. QED BY <1>1, <2>1, <2>3, <3>1, ToGoShrinks
    <2>5. CASE Len(Extended(Up(f), j)) = t
        <3>1. wire[Up(f)] # <<>>
            BY <1>1, <2>2 DEF ReadSome
        <3>2. given[f] = Nothing /\ Carries(Up(f), msg[Up(f)])
            BY <3>1 DEF Asked, Served, Clear
        <3>3. PICK m \in Message : msg[Up(f)] = m
            BY <1>2
        <3>4. m.total \in Nat /\ m.total >= HdrLen /\ m # Nothing /\ Reply(m).total = HdrLen
            BY Sized, Messages DEF Reply
        <3>5. Decoded(Extended(Up(f), j)) = m
            <4>1. PICK q \in 0 .. m.total : \E p \in 0 .. q : p < m.total /\ Holds(Up(f), m, p, q)
                BY <3>2, <3>3 DEF Carries
            <4>2. PICK p \in 0 .. q : p < m.total /\ Holds(Up(f), m, p, q)
                BY <4>1
            <4>3. QED BY <1>1, <2>2, <2>5, <3>4, <4>2, ReadsAll
        <3>6. given'[f] = m /\ out'[Down(f)] = Parts(Reply(m))
            BY <1>1, <2>2, <2>5, <3>5 DEF TypeOK
        <3>7. LenOf(out'[Down(f)]) = HdrLen /\ LenOf(out[Down(f)]) = 0
            <4>1. LenOf(Parts(Reply(m))) = HdrLen + (Reply(m).total - HdrLen)
                BY DEF LenOf, Parts
            <4>2. QED BY <2>1, <3>4, <3>6, <4>1, Constants DEF LenOf
        <3>8. Pending(Down(f))' = Pending(Down(f)) + 2 * HdrLen
            <4>1. \A n, k \in Nat : 2 * n + k = 2 * 0 + k + 2 * n
                OBVIOUS
            <4>2. Len(wire[Down(f)]) \in Nat
                BY <1>1, PendingTyped
            <4>3. QED BY <2>3, <3>7, <4>1, <4>2, Constants DEF Pending
        <3> DEFINE b == IF guest[f] \in {"sending", "waiting"} THEN 1 ELSE 0
        <3>9. /\ ToGo(f) = Pending(Up(f)) + Pending(Down(f)) + 2 * HdrLen + b
              /\ ToGo(f)' = Pending(Up(f))' + Pending(Down(f))' + 0 + b
            BY <2>1, <3>2, <3>4, <3>6 DEF ToGo
        <3>10. b \in Nat
            OBVIOUS
        <3> HIDE DEF b
        <3>11. QED BY <1>1, <2>3, <3>8, <3>9, <3>10, Constants
    <2>6. QED BY <2>4, <2>5
<1>10. QED BY <1>3, <1>4, <1>5, <1>6, <1>7, <1>8, <1>9 DEF Client

(* An exchange never starts over and never stands: every step that touches it *)
(* leaves less of it to go, however writev and read cut the messages and      *)
(* whatever the other connections do, unless it breaks off.                   *)
THEOREM ExchangesShrink ==
    Spec => /\ [](\A f \in Conn : ToGo(f) \in Nat)
            /\ [][\A f \in Conn : Phase(f) \in {"asked", "served"} =>
                      \/ ToGo(f)' < ToGo(f)
                      \/ Still(f)
                      \/ Off(f)']_vars
<1> DEFINE Shrinks(f) == \/ ToGo(f)' < ToGo(f)
                         \/ Still(f)
                         \/ Off(f)'
<1>1. ASSUME TypeInv, TypeInv', Exchanges, [Next]_vars,
             NEW f \in Conn, Phase(f) \in {"asked", "served"}
      PROVE  Shrinks(f)
    <2>1. ~Off(f) /\ guest[f] # "idle"
        BY <1>1 DEF Phase
    <2>2. ExchangeOK(f) /\ (Asked(f) \/ Served(f))
        BY <1>1, <2>1 DEF Exchanges, ExchangeOK, Resting
    <2>3. ASSUME NEW S \in SUBSET Conn, Reset(S) PROVE Shrinks(f)
        BY <1>1, <2>3, ResetExchange
    <2>4. ASSUME UNCHANGED <<guest, linkVars, historyVars>> PROVE Shrinks(f)
        BY <2>4 DEF Still, linkVars, historyVars
    <2>5. ASSUME NEW g \in Conn, Client(g) \/ ClientKilled(g) \/ DaemonReads(g) \/ DaemonWrites(g)
          PROVE  Shrinks(f)
        <3>1. CASE g = f
            BY <1>1, <2>2, <2>5, <3>1, ExchangeShrinks
        <3>2. CASE g # f
            <4>1. ExchangeOK(g)
                BY <1>1 DEF Exchanges
            <4>2. OthersStill(g)
                BY <1>1, <2>5, <4>1, AskExchange, GuestWritesExchange, PollExchange,
                   GuestReadsExchange, ClientKilledExchange, DaemonReadsExchange,
                   DaemonWritesExchange DEF Client
            <4>3. QED BY <3>2, <4>2 DEF OthersStill
        <3>3. QED BY <3>1, <3>2
    <2>6. ASSUME NEW g \in Conn, PollInterrupted(g) \/ VmCloses(g) \/ Reopen(g)
          PROVE  Shrinks(f)
        <3>1. CASE g = f
            BY <1>1, <2>1, <2>6, <3>1
               DEF PollInterrupted, VmCloses, Reopen, Off, TypeInv, TypeOK
        <3>2. CASE g # f
            <4>1. ExchangeOK(g)
                BY <1>1 DEF Exchanges
            <4>2. OthersStill(g)
                BY <1>1, <2>6, <4>1, PollExchange, ReopenExchange
            <4>3. QED BY <3>2, <4>2 DEF OthersStill
        <3>3. QED BY <3>1, <3>2
    <2>7. ASSUME NEW g \in Conn, Stop(g) \/ Resume(g) \/ Ready(g) PROVE Shrinks(f)
        BY <2>4, <2>7 DEF Stop, Resume, Ready
    <2>8. ASSUME Die PROVE Shrinks(f)
        BY <2>3, <2>8 DEF Die
    <2>9. ASSUME NEW g \in Conn, DaemonEof(g) \/ SigPipe(g) \/ HandlerCrashes(g) PROVE Shrinks(f)
        BY <2>3, <2>8, <2>9 DEF DaemonEof, SigPipe, HandlerCrashes
    <2>10. CASE UNCHANGED vars
        BY <2>4, <2>10 DEF vars
    <2> HIDE DEF Shrinks
    <2>11. QED BY <1>1, <2>5, <2>6, <2>7, <2>8, <2>9, <2>10 DEF Next, Callback, Killed
<1>2. TypeInv /\ TypeInv' /\ Exchanges /\ [Next]_vars
      => [\A f \in Conn : Phase(f) \in {"asked", "served"} => Shrinks(f)]_vars
    BY <1>1
<1>3. TypeInv => \A f \in Conn : ToGo(f) \in Nat
    BY ToGoTyped DEF TypeInv
<1>4. IInv => TypeInv
    BY DEF IInv
<1>5. TypeInv /\ Exchanges /\ [Next]_vars => Exchanges'
    BY EveryStep
<1>6. QED BY <1>2, <1>3, <1>4, <1>5, Invariance, InitExchanges, PTL DEF Spec

=============================================================================
