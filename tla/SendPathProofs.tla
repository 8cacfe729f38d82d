--------------------------- MODULE SendPathProofs ---------------------------
(***************************************************************************)
(* The send path for every choice of sizes and limits: the command queue   *)
(* through any number of partial drains, the bandwidth window, and the     *)
(* search for the path MTU with probes that are lost, late or batched with *)
(* data.                                                                   *)
(***************************************************************************)
EXTENDS SendPath, SequenceTheorems, TLAPS

AddSize(n, c) == n + c.size
AddData(n, c) == n + c.data

Sizes == INSTANCE SequenceFold WITH Op <- AddSize
Datas == INSTANCE SequenceFold WITH Op <- AddData
News == INSTANCE SequenceFold WITH Op <- EnqueueNew
Requeues == INSTANCE SequenceFold WITH Op <- EnqueueCommand

CommandRecord ==
    [type : {"control", "data", "probe"}, size : Nat, data : Nat, serial : Nat,
     token : Nat, target : Nat]

-----------------------------------------------------------------------------
(* Sums over the queue. *)

(* The folds of the specification are those of the instances.               *)
LEMMA SizeIsFold ==
    ASSUME NEW q
    PROVE  SizeOf(q) = PacketOverhead + Sizes!Folded(0, q)
BY DEF SizeOf, Sizes!Folded, AddSize, FoldLeft, MapThenFoldSet, Max, Sizes!Largest

(* The payload bytes of a queue.                                            *)
DataOf(q) == FoldLeft(LAMBDA n, c : n + c.data, 0, q)

(* Likewise for the fold that total_waiting_data is compared with ...       *)
LEMMA DataIsFold ==
    ASSUME NEW q
    PROVE  DataOf(q) = Datas!Folded(0, q)
BY DEF DataOf, Datas!Folded, AddData, FoldLeft, MapThenFoldSet, Max, Datas!Largest

(* ... for queueing the commands of a payload ...                           *)
LEMMA NewsIsFold ==
    ASSUME NEW o, NEW q
    PROVE  FoldLeft(EnqueueNew, o, q) = News!Folded(o, q)
BY DEF News!Folded, FoldLeft, MapThenFoldSet, Max, News!Largest

(* ... and for queueing again what a datagram had no room for.              *)
LEMMA RequeuesIsFold ==
    ASSUME NEW o, NEW q
    PROVE  FoldLeft(EnqueueCommand, o, q) = Requeues!Folded(o, q)
BY DEF Requeues!Folded, FoldLeft, MapThenFoldSet, Max, Requeues!Largest

(* The total of a queue from the totals of its prefixes.                    *)
LEMMA DataPrefixes ==
    ASSUME NEW q, NEW n \in Nat, DOMAIN q = 1 .. n
    PROVE  \E f : /\ f[0] = 0
                  /\ \A i \in 0 .. n - 1 : f[i + 1] = f[i] + q[i + 1].data
                  /\ DataOf(q) = f[n]
BY Datas!FoldPrefixes, DataIsFold DEF AddData

(* Likewise the bytes of the commands of a datagram.                        *)
LEMMA SizePrefixes ==
    ASSUME NEW q, NEW n \in Nat, DOMAIN q = 1 .. n
    PROVE  \E f : /\ f[0] = 0
                  /\ \A i \in 0 .. n - 1 : f[i + 1] = f[i] + q[i + 1].size
                  /\ SizeOf(q) = PacketOverhead + f[n]
BY Sizes!FoldPrefixes, SizeIsFold DEF AddSize

(* Any such function computes the total.                                    *)
LEMMA DataComputed ==
    ASSUME NEW q, NEW n \in Nat, DOMAIN q = 1 .. n, NEW f, f[0] = 0,
           \A i \in 0 .. n - 1 : f[i + 1] = f[i] + q[i + 1].data
    PROVE  DataOf(q) = f[n]
<1>1. \A i \in 0 .. n - 1 : f[i + 1] = AddData(f[i], q[i + 1])
  BY DEF AddData
<1>2. Datas!Folded(0, q) = f[n]
  BY <1>1, Datas!FoldComputed DEF AddData
<1>. QED
  BY <1>2, DataIsFold

(* Sums of natural numbers are natural numbers and never decrease.          *)
LEMMA PrefixSums ==
    ASSUME NEW n \in Nat, NEW v, \A i \in 1 .. n : v[i] \in Nat, NEW f, f[0] = 0,
           \A i \in 0 .. n - 1 : f[i + 1] = f[i] + v[i + 1]
    PROVE  /\ \A i \in 0 .. n : f[i] \in Nat
           /\ \A i, j \in 0 .. n : i <= j => f[i] <= f[j]
<1>1. \A i \in 0 .. n : f[i] \in Nat
  <2>. DEFINE S == {i \in Nat : i <= n => f[i] \in Nat}
  <2>1. 0 \in S
    OBVIOUS
  <2>2. ASSUME NEW i \in Nat, i \in S PROVE i + 1 \in S
    <3>. SUFFICES ASSUME i + 1 <= n PROVE f[i + 1] \in Nat
      OBVIOUS
    <3>1. i \in 0 .. n - 1 /\ i + 1 \in 1 .. n /\ f[i] \in Nat
      BY <2>2
    <3>. QED
      BY <3>1
  <2>3. Nat \subseteq S
    <3>. HIDE DEF S
    <3>. QED
      BY <2>1, <2>2, Sizes!SetInduction
  <2>. QED
    BY <2>3
<1>2. \A j \in 0 .. n : \A i \in 0 .. j : f[i] <= f[j]
  <2>. DEFINE S == {j \in Nat : j <= n => \A i \in 0 .. j : f[i] <= f[j]}
  <2>1. 0 \in S
    BY <1>1
  <2>2. ASSUME NEW j \in Nat, j \in S PROVE j + 1 \in S
    <3>. SUFFICES ASSUME j + 1 <= n, NEW i \in 0 .. j + 1 PROVE f[i] <= f[j + 1]
      OBVIOUS
    <3>1. j \in 0 .. n - 1 /\ j + 1 \in 1 .. n /\ i \in 0 .. n /\ j \in 0 .. n
      OBVIOUS
    <3>2. f[j + 1] = f[j] + v[j + 1] /\ v[j + 1] \in Nat /\ f[j] \in Nat /\ f[i] \in Nat
      BY <1>1, <3>1
    <3>3. CASE i = j + 1
      BY <3>2, <3>3
    <3>4. CASE i \in 0 .. j
      <4>1. f[i] <= f[j]
        BY <2>2, <3>1, <3>4
      <4>. QED
        BY <4>1, <3>2
    <3>. QED
      BY <3>3, <3>4
  <2>3. Nat \subseteq S
    <3>. HIDE DEF S
    <3>. QED
      BY <2>1, <2>2, Sizes!SetInduction
  <2>. QED
    BY <2>3
<1>. QED
  BY <1>1, <1>2

-----------------------------------------------------------------------------
(* The queue. *)

(* Sets of commands that a serial number does not take a command out of.    *)
Closed(G) ==
    /\ G \subseteq CommandRecord
    /\ \A c \in G, n \in Nat : [c EXCEPT !.serial = n] \in G

(* What holds of the queue and its total, for commands of a set G when t    *)
(* commands have been sent.                                                 *)
Box(t, G) ==
    {o \in [queue : Seq(G), waiting : Nat] :
        /\ o.waiting = DataOf(o.queue)
        /\ MaxWaitingData > 0 => o.waiting <= MaxWaitingData
        /\ \A i \in DOMAIN o.queue : o.queue[i].serial = t + i}

(* The total of a queue that grows by one command.                          *)
LEMMA DataOfAppend ==
    ASSUME NEW G, Closed(G), NEW q \in Seq(G), NEW c \in G
    PROVE  DataOf(Append(q, c)) = DataOf(q) + c.data
<1>. DEFINE s == Append(q, c)
            n == Len(q)
<1>1. /\ n \in Nat /\ DOMAIN s = 1 .. n + 1 /\ DOMAIN q = 1 .. n
      /\ \A i \in 1 .. n : q[i] = s[i]
      /\ s[n + 1] = c
  OBVIOUS
<1>. HIDE DEF s, n
<1>2. Datas!Folded(0, s) = AddData(Datas!Folded(0, q), s[n + 1])
  BY <1>1, Datas!FoldLast DEF AddData
<1>3. Datas!Folded(0, s) = DataOf(s) /\ Datas!Folded(0, q) = DataOf(q)
  BY DataIsFold
<1>. QED
  BY <1>1, <1>2, <1>3 DEF AddData, s

(* enqueue_command with a new command keeps all of it, whether it takes the *)
(* command or drops it.                                                     *)
LEMMA EnqueueNewKeeps ==
    ASSUME NEW G, Closed(G), NEW o \in Box(transmitted, G), NEW c \in G,
           transmitted \in Nat, MaxWaitingData \in Nat
    PROVE  EnqueueNew(o, c) \in Box(transmitted, G)
<1>. DEFINE d == [c EXCEPT !.serial = transmitted + Len(o.queue) + 1]
            q == Append(o.queue, d)
<1>1. /\ o.queue \in Seq(G) /\ o.waiting \in Nat /\ o.waiting = DataOf(o.queue)
      /\ \A i \in DOMAIN o.queue : o.queue[i].serial = transmitted + i
  BY DEF Box
<1>2. d \in G /\ d.data = c.data /\ d.data \in Nat
      /\ d.serial = transmitted + Len(o.queue) + 1
  <2>1. transmitted + Len(o.queue) + 1 \in Nat
    BY <1>1
  <2>2. d \in G
    BY <2>1 DEF Closed
  <2>3. c \in CommandRecord
    BY DEF Closed
  <2>. QED
    BY <2>2, <2>3 DEF CommandRecord
<1>3. EnqueueNew(o, c) = EnqueueCommand(o, d)
  BY DEF EnqueueNew
<1>4. CASE MaxWaitingData > 0 /\ o.waiting + d.data > MaxWaitingData
  BY <1>3, <1>4 DEF EnqueueCommand
<1>5. CASE ~ (MaxWaitingData > 0 /\ o.waiting + d.data > MaxWaitingData)
  <2>1. EnqueueNew(o, c) = [queue |-> q, waiting |-> o.waiting + d.data]
    BY <1>3, <1>5 DEF EnqueueCommand
  <2>. HIDE DEF d
  <2>2. q \in Seq(G) /\ o.waiting + d.data \in Nat
    BY <1>1, <1>2
  <2>3. o.waiting + d.data = DataOf(q)
    BY <1>1, <1>2, DataOfAppend
  <2>4. ASSUME NEW i \in DOMAIN q PROVE q[i].serial = transmitted + i
    <3>1. i \in 1 .. Len(o.queue) + 1
      BY <1>1, <1>2
    <3>2. CASE i = Len(o.queue) + 1
      <4>1. q[i] = d
        BY <1>1, <3>2
      <4>. QED
        BY <4>1, <1>1, <1>2, <3>2
    <3>3. CASE i \in DOMAIN o.queue
      <4>1. q[i] = o.queue[i]
        BY <1>1, <3>3
      <4>. QED
        BY <4>1, <1>1, <3>3
    <3>. QED
      BY <1>1, <3>1, <3>2, <3>3
  <2>5. MaxWaitingData > 0 => o.waiting + d.data <= MaxWaitingData
    BY <1>1, <1>2, <1>5
  <2>. HIDE DEF q
  <2>. QED
    BY <2>1, <2>2, <2>3, <2>4, <2>5 DEF Box
<1>. QED
  BY <1>4, <1>5

(* The commands of a whole payload, queued one after the other.             *)
LEMMA EnqueueAllKeeps ==
    ASSUME NEW G, Closed(G), NEW o \in Box(transmitted, G), NEW cs \in Seq(G),
           transmitted \in Nat, MaxWaitingData \in Nat
    PROVE  FoldLeft(EnqueueNew, o, cs) \in Box(transmitted, G)
<1>1. Len(cs) \in Nat /\ DOMAIN cs = 1 .. Len(cs) /\ \A i \in 1 .. Len(cs) : cs[i] \in G
  OBVIOUS
<1>2. \A x \in Box(transmitted, G), i \in 1 .. Len(cs) : EnqueueNew(x, cs[i]) \in Box(transmitted, G)
  BY <1>1, EnqueueNewKeeps
<1>3. News!Folded(o, cs) \in Box(transmitted, G)
  BY <1>1, <1>2, News!FoldType
<1>. QED
  BY <1>3, NewsIsFold

(* Sequences: a function on 1 .. k is one, and so is one element.           *)
LEMMA FunctionIsSeq ==
    ASSUME NEW S, NEW k \in Nat, NEW f \in [1 .. k -> S]
    PROVE  f \in Seq(S)
BY SeqDef

LEMMA SeqElement ==
    ASSUME NEW S, NEW s \in Seq(S), NEW i \in DOMAIN s
    PROVE  s[i] \in S
OBVIOUS

LEMMA OneIsSeq ==
    ASSUME NEW S, NEW x \in S
    PROVE  <<x>> \in Seq(S)
OBVIOUS

(* What drain_commands takes and what it leaves.                            *)
Taken(q, n) == SubSeq(q, 1, n)
Left(q, n) == SubSeq(q, n + 1, Len(q))

IsCut(S, q, n) ==
    /\ Taken(q, n) \in Seq(S) /\ DOMAIN Taken(q, n) = 1 .. n
    /\ Left(q, n) \in Seq(S) /\ DOMAIN Left(q, n) = 1 .. Len(q) - n
    /\ \A i \in 1 .. n : Taken(q, n)[i] = q[i] /\ Taken(q, n)[i] \in S
    /\ \A i \in 1 .. Len(q) - n : Left(q, n)[i] = q[n + i] /\ Left(q, n)[i] \in S

(* A queue is what drain_commands takes from it, followed by what it        *)
(* leaves.                                                                  *)
LEMMA CutInTwo ==
    ASSUME NEW S, NEW q \in Seq(S), NEW n \in 0 .. Len(q)
    PROVE  IsCut(S, q, n)
<1>. DEFINE p == SubSeq(q, 1, n)
            r == SubSeq(q, n + 1, Len(q))
            m == Len(q) - n
<1>1. Len(q) \in Nat /\ n \in Nat /\ m \in Nat /\ DOMAIN q = 1 .. Len(q)
  OBVIOUS
<1>2. p \in Seq(S) /\ Len(p) = n /\ \A i \in 1 .. n : p[i] = q[i]
  OBVIOUS
<1>3. r \in Seq(S) /\ Len(r) = m
  OBVIOUS
<1>4. \A i \in 1 .. m : r[i] = q[n + i]
  OBVIOUS
<1>. HIDE DEF p, r
<1>5. DOMAIN p = 1 .. n /\ \A i \in 1 .. n : p[i] \in S
  BY <1>2
<1>6. DOMAIN r = 1 .. m /\ \A i \in 1 .. m : r[i] \in S
  BY <1>3
<1>7. Taken(q, n) = p /\ Left(q, n) = r
  BY DEF Taken, Left, p, r
<1>. QED
  BY <1>2, <1>3, <1>4, <1>5, <1>6, <1>7 DEF IsCut

(* Queueing again what a datagram had no room for, through enqueue_command, *)
(* gives back exactly that, in order: the limit on waiting data, which the  *)
(* whole queue respected, drops none of it.                                 *)
LEMMA RequeuedIsSuffix ==
    ASSUME NEW G, Closed(G), Outbox \in Box(transmitted, G), NEW n \in 0 .. Len(command_queue),
           MaxWaitingData \in Nat
    PROVE  LET rest == Left(command_queue, n)
           IN  /\ Requeued(n) = [queue |-> rest, waiting |-> DataOf(rest)]
               /\ DataOf(rest) \in Nat
               /\ MaxWaitingData > 0 => DataOf(rest) <= MaxWaitingData
<1>. DEFINE q == command_queue
            l == Len(q)
            rest == Left(q, n)
            m == l - n
<1>1. /\ q \in Seq(G) /\ l \in Nat /\ m \in Nat /\ DOMAIN q = 1 .. l
      /\ total_waiting_data = DataOf(q)
      /\ MaxWaitingData > 0 => DataOf(q) <= MaxWaitingData
  BY DEF Outbox, Box
<1>2. /\ rest \in Seq(G) /\ DOMAIN rest = 1 .. m
      /\ \A i \in 1 .. m : rest[i] = q[n + i]
  <2>1. q \in Seq(G) /\ n \in 0 .. Len(q)
    BY <1>1
  <2>. HIDE DEF q
  <2>2. IsCut(G, q, n)
    BY <2>1, CutInTwo
  <2>. QED
    BY <2>2 DEF IsCut
<1>3. PICK f : /\ f[0] = 0
               /\ \A i \in 0 .. l - 1 : f[i + 1] = f[i] + q[i + 1].data
               /\ DataOf(q) = f[l]
  <2>1. l \in Nat /\ DOMAIN q = 1 .. l
    BY <1>1
  <2>. HIDE DEF q, l
  <2>. QED
    BY <2>1, DataPrefixes
<1>4. \A i \in 1 .. l : q[i].data \in Nat
  BY <1>1 DEF Closed, CommandRecord
<1>5. /\ \A i \in 0 .. l : f[i] \in Nat
      /\ \A i, j \in 0 .. l : i <= j => f[i] <= f[j]
  <2>. DEFINE v == [i \in 1 .. l |-> q[i].data]
  <2>1. \A i \in 1 .. l : v[i] \in Nat
    BY <1>4
  <2>2. ASSUME NEW i \in 0 .. l - 1 PROVE f[i + 1] = f[i] + v[i + 1]
    <3>1. i + 1 \in 1 .. l
      BY <1>1
    <3>2. v[i + 1] = q[i + 1].data
      BY <3>1
    <3>. HIDE DEF v, q, l
    <3>. QED
      BY <1>3, <3>2
  <2>. HIDE DEF v
  <2>. QED
    BY <1>1, <1>3, <2>1, <2>2, PrefixSums
<1>. DEFINE g == [i \in 0 .. m |-> f[n + i] - f[n]]
            e == [i \in 0 .. m |-> [queue |-> SubSeq(rest, 1, i), waiting |-> g[i]]]
            none == [queue |-> << >>, waiting |-> 0]
<1>. HIDE DEF q, l, rest, m
<1>6. ASSUME NEW i \in 0 .. m - 1 PROVE g[i + 1] = g[i] + rest[i + 1].data
  <2>1. n + i \in 0 .. l - 1 /\ n + i \in 0 .. l /\ (n + i) + 1 = n + (i + 1) /\ n \in 0 .. l
        /\ n + (i + 1) \in 1 .. l /\ i + 1 \in 1 .. m
    BY <1>1 DEF m, l, q
  <2>2. rest[i + 1] = q[n + (i + 1)]
    BY <1>2, <2>1
  <2>3. f[n + (i + 1)] = f[n + i] + q[n + (i + 1)].data
    BY <1>3, <2>1
  <2>4. f[n] \in Nat /\ f[n + i] \in Nat /\ q[n + (i + 1)].data \in Nat
    BY <1>4, <1>5, <2>1
  <2>5. g[i] = f[n + i] - f[n] /\ g[i + 1] = f[n + (i + 1)] - f[n]
    BY <1>1, <2>1
  <2>. HIDE DEF g
  <2>. QED
    BY <2>2, <2>3, <2>4, <2>5
<1>7. g[0] = 0 /\ g[m] = f[l] - f[n]
  BY <1>1, <1>5 DEF m, l, q
<1>8. \A i \in 0 .. m : g[i] \in Nat /\ g[i] <= g[m]
  <2>. SUFFICES ASSUME NEW i \in 0 .. m PROVE g[i] \in Nat /\ g[i] <= g[m]
    OBVIOUS
  <2>1. n \in 0 .. l /\ n + i \in 0 .. l /\ l \in 0 .. l /\ n <= n + i /\ n + i <= l
    BY <1>1 DEF m, l, q
  <2>2. /\ f[n] \in Nat /\ f[n + i] \in Nat /\ f[l] \in Nat
        /\ f[n] <= f[n + i] /\ f[n + i] <= f[l]
    BY <1>5, <2>1
  <2>. QED
    BY <1>7, <2>2
<1>9. g[m] \in Nat /\ g[m] <= f[l]
  <2>1. n \in 0 .. l /\ l \in 0 .. l /\ n <= l
    BY <1>1 DEF l, q
  <2>2. f[n] \in Nat /\ f[l] \in Nat /\ f[n] <= f[l]
    BY <1>5, <2>1
  <2>. QED
    BY <1>7, <2>2
<1>. HIDE DEF g
<1>10. m \in Nat /\ DOMAIN rest = 1 .. m
  BY <1>1, <1>2
<1>11. DataOf(rest) = g[m] /\ DataOf(q) = f[l]
  <2>1. DataOf(rest) = g[m]
    BY <1>6, <1>7, <1>10, DataComputed
  <2>. QED
    BY <1>3, <2>1
<1>12. MaxWaitingData > 0 => g[m] <= MaxWaitingData
  <2>1. f[l] \in Nat
    BY <1>1, <1>5
  <2>. QED
    BY <2>1, <1>1, <1>9, <1>11
<1>13. e[0] = none
  <2>1. SubSeq(rest, 1, 0) = << >>
    BY <1>2
  <2>. QED
    BY <2>1, <1>1, <1>7
<1>14. ASSUME NEW i \in 0 .. m - 1 PROVE e[i + 1] = EnqueueCommand(e[i], rest[i + 1])
  <2>1. i \in 0 .. m /\ i + 1 \in 0 .. m /\ i + 1 \in 1 .. m
    BY <1>1
  <2>2. e[i] = [queue |-> SubSeq(rest, 1, i), waiting |-> g[i]]
    BY <2>1
  <2>3. e[i + 1] = [queue |-> SubSeq(rest, 1, i + 1), waiting |-> g[i + 1]]
    BY <2>1
  <2>4. SubSeq(rest, 1, i + 1) = Append(SubSeq(rest, 1, i), rest[i + 1])
    BY <1>2, <2>1
  <2>5. g[i + 1] = g[i] + rest[i + 1].data
    BY <1>6
  <2>6. ~ (MaxWaitingData > 0 /\ g[i] + rest[i + 1].data > MaxWaitingData)
    BY <1>8, <1>9, <1>12, <2>1, <2>5
  <2>. HIDE DEF e
  <2>7. /\ e[i].queue = SubSeq(rest, 1, i) /\ e[i].waiting = g[i]
    BY <2>2
  <2>8. EnqueueCommand(e[i], rest[i + 1]) =
           [queue |-> Append(SubSeq(rest, 1, i), rest[i + 1]), waiting |-> g[i] + rest[i + 1].data]
    BY <2>6, <2>7 DEF EnqueueCommand
  <2>. QED
    BY <2>3, <2>4, <2>5, <2>8
<1>. HIDE DEF e, none
<1>15. Requeues!Folded(none, rest) = e[m]
  BY <1>10, <1>13, <1>14, Requeues!FoldComputed
<1>16. e[m] = [queue |-> rest, waiting |-> g[m]]
  <2>1. SubSeq(rest, 1, m) = rest
    BY <1>1, <1>2
  <2>. QED
    BY <2>1, <1>1 DEF e
<1>17. Requeued(n) = Requeues!Folded(none, rest)
  BY RequeuesIsFold DEF Requeued, Left, rest, none, q
<1>18. Requeued(n) = [queue |-> rest, waiting |-> DataOf(rest)]
  BY <1>11, <1>15, <1>16, <1>17
<1>. QED
  BY <1>9, <1>11, <1>12, <1>18 DEF rest, q

-----------------------------------------------------------------------------
(* The encoder. *)

(* The size of a datagram covers each of its commands.                      *)
LEMMA SizeBounds ==
    ASSUME NEW s, NEW n \in Nat, DOMAIN s = 1 .. n, \A i \in 1 .. n : s[i].size \in Nat,
           PacketOverhead \in Nat
    PROVE  /\ SizeOf(s) \in Nat
           /\ \A i \in 1 .. n : PacketOverhead + s[i].size <= SizeOf(s)
<1>1. PICK f : /\ f[0] = 0
               /\ \A i \in 0 .. n - 1 : f[i + 1] = f[i] + s[i + 1].size
               /\ SizeOf(s) = PacketOverhead + f[n]
  BY SizePrefixes
<1>3. /\ \A i \in 0 .. n : f[i] \in Nat
      /\ \A i, j \in 0 .. n : i <= j => f[i] <= f[j]
  <2>. DEFINE v == [i \in 1 .. n |-> s[i].size]
  <2>1. \A i \in 1 .. n : v[i] \in Nat
    OBVIOUS
  <2>2. \A i \in 0 .. n - 1 : f[i + 1] = f[i] + v[i + 1]
    BY <1>1
  <2>. HIDE DEF v
  <2>. QED
    BY <1>1, <2>1, <2>2, PrefixSums
<1>4. ASSUME NEW i \in 1 .. n PROVE s[i].size <= f[n]
  <2>1. /\ i - 1 \in 0 .. n - 1 /\ i - 1 \in 0 .. n /\ i \in 0 .. n /\ n \in 0 .. n
        /\ (i - 1) + 1 = i /\ i <= n
    OBVIOUS
  <2>2. f[i] = f[i - 1] + s[i].size
    BY <1>1, <2>1
  <2>3. f[i - 1] \in Nat /\ f[i] \in Nat /\ f[n] \in Nat /\ f[i] <= f[n]
    BY <1>3, <2>1
  <2>4. s[i].size \in Nat
    OBVIOUS
  <2>. QED
    BY <2>2, <2>3, <2>4
<1>5. f[n] \in Nat
  BY <1>3
<1>. QED
  BY <1>1, <1>4, <1>5

(* When the first command fits, encode_queued_commands_bounded takes at     *)
(* least one command and no more than fit the datagram.                     *)
LEMMA SelectedCountFits ==
    ASSUME Len(command_queue) \in Nat, Len(command_queue) > 0, Fits(1)
    PROVE  SelectedCount \in 1 .. Len(command_queue) /\ Fits(SelectedCount)
<1>. DEFINE l == Len(command_queue)
            T == {k \in 1 .. l : k = l \/ ~Fits(k + 1)}
            Good(n) == (n > 0 => Fits(n)) /\ (n < l => ~Fits(n + 1))
<1>1. l \in T /\ T \subseteq Nat
  OBVIOUS
<1>2. PICK n \in T : \A k \in T : n <= k
  <2>. HIDE DEF T
  <2>. QED
    BY <1>1, Sizes!LeastNatural
<1>3. Fits(n)
  <2>1. CASE n = 1
    BY <2>1
  <2>2. CASE n # 1
    <3>1. n \in 1 .. l /\ n - 1 \in 1 .. l /\ (n - 1) + 1 = n
      BY <2>2
    <3>2. n - 1 \notin T
      <4>. HIDE DEF T
      <4>. QED
        BY <1>2, <3>1
    <3>. QED
      BY <3>1, <3>2
  <2>. QED
    BY <2>1, <2>2
<1>4. n \in 0 .. l /\ Good(n)
  BY <1>2, <1>3
<1>5. SelectedCount = CHOOSE k \in 0 .. l : Good(k)
  BY DEF SelectedCount
<1>. HIDE DEF Good
<1>6. SelectedCount \in 0 .. l /\ Good(SelectedCount)
  BY <1>4, <1>5
<1>7. SelectedCount # 0
  BY <1>6 DEF Good
<1>. QED
  BY <1>6, <1>7 DEF Good

-----------------------------------------------------------------------------
(* The fragmenter. *)

(* The pieces before the last leave something for it.                       *)
LEMMA PiecesAreNotEmpty ==
    ASSUME NEW len \in Nat \ {0}, NEW piece \in Nat \ {0}
    PROVE  /\ DivCeil(len, piece) \in Nat \ {0}
           /\ \A i \in 1 .. DivCeil(len, piece) :
                  Minimum(piece, len - (i - 1) * piece) \in 1 .. piece
<1>. DEFINE d == (len + piece - 1) \div piece
<1>1. d \in Nat /\ d * piece <= len + piece - 1 /\ len + piece - 1 < (d + 1) * piece
  OBVIOUS
<1>. HIDE DEF d
<1>2. d # 0
  <2>1. d = 0 => (d + 1) * piece = piece
    OBVIOUS
  <2>. QED
    BY <1>1, <2>1
<1>3. ASSUME NEW i \in 1 .. d PROVE Minimum(piece, len - (i - 1) * piece) \in 1 .. piece
  <2>1. i * piece <= d * piece
    <3>1. (d - i) \in Nat
      BY <1>1
    <3>2. (d - i) * piece \in Nat
      BY <3>1
    <3>3. d * piece = i * piece + (d - i) * piece
      BY <1>1
    <3>4. i * piece \in Int /\ d * piece \in Int
      BY <1>1
    <3>. HIDE DEF d
    <3>. QED
      BY <3>2, <3>3, <3>4
  <2>2. (i - 1) * piece = i * piece - piece /\ i * piece \in Int
    BY <1>1
  <2>3. (i - 1) * piece \in Int /\ (i - 1) * piece <= len - 1
    BY <1>1, <2>1, <2>2
  <2>. QED
    BY <2>3 DEF Minimum
<1>. QED
  BY <1>1, <1>2, <1>3 DEF DivCeil, d

(* The largest datagram a queued data command may have been cut for: a      *)
(* later reply never makes the fragment size smaller, except from the       *)
(* configured size to the lower bound of the search.                        *)
Largest == Minimum(IF fragment_size < FragmentSize THEN FragmentSize ELSE fragment_size,
                   ReceiveBufferMaxSize)

(* An unsequenced payload is cut into pieces of one byte when there is no   *)
(* room for its header; there is room in the configured fragment size.      *)
Room ==
    "unsequenced" \in Kinds =>
        Minimum(FragmentSize, ReceiveBufferMaxSize) > PacketOverhead + WholeHeader["unsequenced"]

(* The commands that may wait in the queue.                                 *)
Queueable ==
    {c \in CommandRecord :
        /\ c.data \in IF c.type = "data" THEN Nat \ {0} ELSE {0}
        /\ c.type = "data" /\ Room => PacketOverhead + c.size <= Largest
        /\ c.type = "probe" =>
              /\ c.token \in 1 .. probes
              /\ c.target <= PacketOverhead + c.size
              /\ outstanding # NoProbe /\ outstanding.token = c.token
                    => outstanding.size = c.target}

(* What may be queued depends on the fields of a command other than its     *)
(* serial number, which enqueue_command gives it.                           *)
LEMMA QueueableIsClosed == Closed(Queueable)
BY DEF Closed, Queueable, CommandRecord

(* Every command the fragmenter makes of a payload may be queued.           *)
LEMMA PieceIsQueueable ==
    ASSUME SendPathAssumption, fragment_size \in Nat, NEW header \in Nat, NEW data \in Nat \ {0},
           Room => PacketOverhead + header + data <= Largest
    PROVE  Command("data", header, data) \in Queueable
BY DEF Command, Queueable, CommandRecord, SendPathAssumption

(* The fragmenter's payload budget and a header fit a datagram.             *)
LEMMA BudgetFits ==
    ASSUME SendPathAssumption, fragment_size \in Nat, NEW header \in Nat
    PROVE  /\ Budget(header) \in Nat
           /\ Budget(header) > 0 => PacketOverhead + header + Budget(header) <= Largest
BY DEF Budget, DatagramCap, Minimum, Largest, SendPathAssumption

(* Every fragment of a reliable payload may be queued ...                   *)
LEMMA PiecesAreQueueable ==
    ASSUME SendPathAssumption, fragment_size \in Nat, NEW header \in Nat,
           NEW len \in Nat \ {0}, NEW piece \in Nat \ {0},
           Room => PacketOverhead + header + piece <= Largest
    PROVE  /\ Pieces("data", header, len, piece) \in Seq(Queueable)
           /\ 1 \in DOMAIN Pieces("data", header, len, piece)
<1>. DEFINE d == DivCeil(len, piece)
            part(i) == Minimum(piece, len - (i - 1) * piece)
<1>1. d \in Nat \ {0} /\ \A i \in 1 .. d : part(i) \in 1 .. piece
  BY PiecesAreNotEmpty
<1>2. Largest \in Nat /\ PacketOverhead \in Nat
  BY DEF Largest, Minimum, SendPathAssumption
<1>3. Pieces("data", header, len, piece) = [i \in 1 .. d |-> Command("data", header, part(i))]
  BY DEF Pieces
<1>. HIDE DEF d, part
<1>4. ASSUME NEW i \in 1 .. d PROVE Command("data", header, part(i)) \in Queueable
  <2>1. part(i) \in 1 .. piece
    BY <1>1
  <2>2. Room => PacketOverhead + header + part(i) <= Largest
    BY <1>2, <2>1
  <2>. QED
    BY <2>1, <2>2, PieceIsQueueable
<1>. DEFINE cut(i) == Command("data", header, part(i))
            s == [i \in 1 .. d |-> cut(i)]
<1>5. \A i \in 1 .. d : cut(i) \in Queueable
  BY <1>4
<1>. HIDE DEF cut
<1>6. s \in Seq(Queueable) /\ 1 \in DOMAIN s
  <2>1. d \in Nat /\ 1 \in 1 .. d
    BY <1>1
  <2>2. s \in [1 .. d -> Queueable] /\ DOMAIN s = 1 .. d
    BY <1>5
  <2>. HIDE DEF s
  <2>3. s \in Seq(Queueable)
    <3>. HIDE DEF d
    <3>. QED
      BY <2>1, <2>2, FunctionIsSeq
  <2>. QED
    BY <2>1, <2>2, <2>3
<1>7. Pieces("data", header, len, piece) = s
  BY <1>3 DEF cut
<1>. QED
  BY <1>6, <1>7

(* The cases in which a payload is cut.                                     *)
LEMMA CommandsCases ==
    ASSUME NEW kind, NEW len \in Nat, NEW whole \in Nat, whole = Budget(WholeHeader[kind]),
           kind # "unsequenced"
    PROVE  /\ whole < 1 => Commands(kind, len) = << >>
           /\ whole >= 1 /\ len <= whole =>
                 Commands(kind, len) = <<Command("data", WholeHeader[kind], len)>>
           /\ whole >= 1 /\ ~ (len <= whole) => Commands(kind, len) = Fragments(kind, len)
BY DEF Commands

(* ... and so may every command that process_event makes of a payload, in   *)
(* one piece or in fragments.                                               *)
LEMMA CommandsAreQueueable ==
    ASSUME SendPathAssumption, fragment_size \in Nat,
           NEW kind \in Kinds, NEW len \in PayloadSizes
    PROVE  Commands(kind, len) \in Seq(Queueable)
<1>1. /\ WholeHeader[kind] \in Nat /\ FragmentHeader[kind] \in Nat /\ len \in Nat \ {0}
      /\ PacketOverhead \in Nat /\ Largest \in Nat
  BY DEF SendPathAssumption, Largest, Minimum
<1>. DEFINE whole == Budget(WholeHeader[kind])
            piece == Budget(FragmentHeader[kind])
<1>2. /\ whole \in Nat /\ piece \in Nat
      /\ whole > 0 => PacketOverhead + WholeHeader[kind] + whole <= Largest
      /\ piece > 0 => PacketOverhead + FragmentHeader[kind] + piece <= Largest
  BY <1>1, BudgetFits
<1>. HIDE DEF whole, piece
<1>3. CASE kind = "unsequenced"
  <2>. DEFINE p == IF whole < 1 THEN 1 ELSE whole
  <2>1. Commands(kind, len) = Pieces("data", WholeHeader[kind], len, p)
    BY <1>3 DEF Commands, whole
  <2>2. p \in Nat \ {0} /\ (Room => PacketOverhead + WholeHeader[kind] + p <= Largest)
    <3>1. CASE whole > 0
      BY <3>1, <1>2
    <3>2. CASE whole = 0
      BY <3>2, <1>1, <1>3 DEF Room, Largest, Minimum, SendPathAssumption
    <3>. QED
      BY <3>1, <3>2, <1>2
  <2>. HIDE DEF p
  <2>3. Pieces("data", WholeHeader[kind], len, p) \in Seq(Queueable)
    BY <1>1, <2>2, PiecesAreQueueable
  <2>. QED
    BY <2>1, <2>3
<1>4. CASE kind # "unsequenced" /\ whole < 1
  <2>1. Commands(kind, len) = << >>
    BY <1>1, <1>2, <1>4, CommandsCases DEF whole
  <2>. QED
    BY <2>1
<1>5. CASE kind # "unsequenced" /\ whole >= 1 /\ len <= whole
  <2>1. Commands(kind, len) = <<Command("data", WholeHeader[kind], len)>>
    BY <1>1, <1>2, <1>5, CommandsCases DEF whole
  <2>2. Command("data", WholeHeader[kind], len) \in Queueable
    BY <1>1, <1>2, <1>5, PieceIsQueueable
  <2>. QED
    BY <2>1, <2>2
<1>6. CASE kind # "unsequenced" /\ whole >= 1 /\ ~ (len <= whole)
  <2>. DEFINE all == Pieces("data", FragmentHeader[kind], len, piece)
              d == DivCeil(len, piece)
  <2>1. Commands(kind, len) = Fragments(kind, len)
    BY <1>1, <1>2, <1>6, CommandsCases DEF whole
  <2>2. Fragments(kind, len) =
          IF piece < 1 \/ d > FragmentCountMax THEN << >>
          ELSE IF d > MaxFragments THEN <<all[1]>> ELSE all
    BY DEF Fragments, piece
  <2>3. CASE piece < 1
    <3>1. Fragments(kind, len) = << >>
      BY <2>2, <2>3
    <3>. QED
      BY <2>1, <3>1
  <2>4. CASE piece >= 1
    <3>1. all \in Seq(Queueable) /\ 1 \in DOMAIN all
      <4>1. /\ piece \in Nat \ {0}
            /\ Room => PacketOverhead + FragmentHeader[kind] + piece <= Largest
        BY <1>2, <2>4
      <4>. QED
        BY <1>1, <4>1, PiecesAreQueueable
    <3>. HIDE DEF all, d
    <3>2. << >> \in Seq(Queueable) /\ <<all[1]>> \in Seq(Queueable)
      <4>1. all[1] \in Queueable
        BY <3>1, SeqElement
      <4>. QED
        BY <4>1, OneIsSeq
    <3>. QED
      BY <2>1, <2>2, <3>1, <3>2
  <2>. QED
    BY <1>2, <2>3, <2>4
<1>. QED
  BY <1>2, <1>3, <1>4, <1>5, <1>6

-----------------------------------------------------------------------------
(* The inductive invariant: the queue holds only commands that may be in    *)
(* it, and whatever comes back for a probe that is out, queued or on its    *)
(* way, has the size that was asked for and passed the path.                *)

SearchTypeOK ==
    /\ use_pmtu_discovery \in BOOLEAN /\ may_probe \in BOOLEAN
    /\ fragment_size \in Nat /\ low \in Nat /\ high \in Nat /\ probes \in Nat
    /\ outstanding = NoProbe \/ outstanding \in [size : Nat, token : 1 .. probes]
    /\ replies \subseteq [size : Nat, token : 1 .. probes]

RepliesAreTrue ==
    \A r \in replies :
        /\ r.size <= PathMtu
        /\ outstanding # NoProbe /\ outstanding.token = r.token => outstanding.size = r.size

(* The search never leaves what the receive buffer can hold.                *)
SearchIsBounded ==
    PmtuMin <= Minimum(PmtuMax, ReceiveBufferMaxSize) /\ PmtuConvergeThreshold > 0 =>
        /\ low <= ClampedHigh
        /\ outstanding # NoProbe => outstanding.size \in low + 1 .. ClampedHigh

SendInv ==
    /\ pc \in {"idle", "flush_event", "flush_update", "pmtu"}
    /\ transmitted \in Nat /\ bytes_sent_this_window \in Nat
    /\ SearchTypeOK
    /\ Outbox \in Box(transmitted, Queueable)
    /\ RepliesAreTrue
    /\ fragment_size = FragmentSize \/ fragment_size <= low
    /\ BandwidthOvershoot /\ PmtuIsSound /\ SearchIsBounded

(* A queue of allowed commands stays one when more commands are allowed.    *)
LEMMA BoxGrows ==
    ASSUME NEW t, NEW G, NEW H, G \subseteq H, NEW o \in Box(t, G)
    PROVE  o \in Box(t, H)
<1>1. o.queue \in Seq(H)
  BY SeqMonotonic DEF Box
<1>. QED
  BY <1>1 DEF Box

(* The queue after a step that assigns it is the one assigned.              *)
LEMMA BecomesBox ==
    ASSUME NEW t, NEW G, NEW o \in Box(t, G), Becomes(o)
    PROVE  Outbox' = o
BY DEF Becomes, Outbox, Box

(* Steps that leave the search and the tokens alone leave what may be       *)
(* queued.                                                                  *)
LEMMA QueueableStays ==
    ASSUME UNCHANGED <<fragment_size, outstanding, probes>>
    PROVE  Queueable' = Queueable
BY DEF Queueable, Largest

(* An answer, a Pong or a Ping may be queued.                               *)
LEMMA ControlIsQueueable ==
    ASSUME SendPathAssumption
    PROVE  Control \in Queueable
BY DEF Control, Command, Queueable, CommandRecord, SendPathAssumption

(* A new peer satisfies the invariant.                                      *)
LEMMA InitSendInv ==
    ASSUME SendPathAssumption, Init
    PROVE  SendInv
<1>1. DataOf(<< >>) = 0
  BY DataIsFold, Datas!FoldEmpty
<1>2. Outbox \in Box(transmitted, Queueable)
  <2>1. << >> \in Seq(Queueable) /\ DOMAIN << >> = {} /\ MaxWaitingData \in Nat
    BY DEF SendPathAssumption
  <2>2. Outbox = [queue |-> << >>, waiting |-> 0]
    BY DEF Init, Outbox
  <2>. QED
    BY <1>1, <2>1, <2>2 DEF Box
<1>3. SearchTypeOK /\ RepliesAreTrue
  <2>1. /\ use_pmtu_discovery \in BOOLEAN /\ may_probe \in BOOLEAN
        /\ fragment_size \in Nat /\ low \in Nat /\ high \in Nat /\ probes \in Nat
    BY DEF Init, SendPathAssumption
  <2>2. outstanding = NoProbe /\ replies = {}
    BY DEF Init
  <2>. QED
    BY <2>1, <2>2 DEF SearchTypeOK, RepliesAreTrue
<1>4. BandwidthOvershoot /\ PmtuIsSound
  <2>1. OutgoingLimit \in Nat /\ ReceiveBufferMaxSize \in Nat \ {0} /\ PmtuMin \in Nat
    BY DEF SendPathAssumption
  <2>. QED
    BY <2>1 DEF Init, BandwidthOvershoot, PmtuIsSound
<1>5. SearchIsBounded
  BY DEF Init, SearchIsBounded, ClampedHigh, SendPathAssumption
<1>. QED
  BY <1>2, <1>3, <1>4, <1>5 DEF Init, SendInv, SendPathAssumption

(* The steps that queue something new and leave the search alone.           *)
LEMMA QueueingKeepsInv ==
    ASSUME SendPathAssumption, SendInv, NEW o \in Box(transmitted, Queueable), Becomes(o),
           UNCHANGED <<use_pmtu_discovery, fragment_size, low, high, outstanding>>,
           UNCHANGED <<replies, transmitted, probes>>,
           pc' \in {"idle", "flush_event", "flush_update", "pmtu"},
           may_probe' \in BOOLEAN,
           bytes_sent_this_window' \in {0, bytes_sent_this_window}
    PROVE  SendInv'
<1>1. Outbox' \in Box(transmitted, Queueable)'
  <2>1. Outbox' = o
    BY BecomesBox
  <2>2. Queueable' = Queueable
    BY QueueableStays
  <2>. QED
    BY <2>1, <2>2 DEF Box
<1>2. SearchTypeOK' /\ RepliesAreTrue' /\ SearchIsBounded' /\ PmtuIsSound'
  BY DEF SendInv, SearchTypeOK, RepliesAreTrue, SearchIsBounded, PmtuIsSound, ClampedHigh
<1>3. bytes_sent_this_window' \in Nat /\ BandwidthOvershoot'
  BY DEF SendInv, BandwidthOvershoot, SendPathAssumption
<1>. QED
  BY <1>1, <1>2, <1>3 DEF SendInv

(* process_event queues the commands of a payload.                          *)
LEMMA ProcessEventKeepsInv ==
    ASSUME SendPathAssumption, SendInv, NEW kind \in Kinds, NEW len \in PayloadSizes,
           ProcessEvent(kind, len)
    PROVE  SendInv'
<1>1. Commands(kind, len) \in Seq(Queueable)
  BY CommandsAreQueueable DEF SendInv, SearchTypeOK
<1>2. FoldLeft(EnqueueNew, Outbox, Commands(kind, len)) \in Box(transmitted, Queueable)
  BY <1>1, EnqueueAllKeeps, QueueableIsClosed DEF SendInv, SendPathAssumption
<1>3. may_probe' \in BOOLEAN
  BY DEF ProcessEvent, pmtu, SendInv, SearchTypeOK
<1>. QED
  BY <1>2, <1>3, QueueingKeepsInv DEF ProcessEvent, pmtu

(* An acknowledgement or a Pong is queued in answer to a datagram.          *)
LEMMA QueueAnswerKeepsInv ==
    ASSUME SendPathAssumption, SendInv, QueueAnswer
    PROVE  SendInv'
<1>1. EnqueueNew(Outbox, Control) \in Box(transmitted, Queueable)
  BY EnqueueNewKeeps, QueueableIsClosed, ControlIsQueueable DEF SendInv, SendPathAssumption
<1>2. may_probe' \in BOOLEAN /\ pc' \in {"idle", "flush_event", "flush_update", "pmtu"}
  BY DEF QueueAnswer, pmtu, SendInv, SearchTypeOK
<1>. QED
  BY <1>1, <1>2, QueueingKeepsInv DEF QueueAnswer, pmtu

(* The start of an update opens a bandwidth window and may queue a Ping.    *)
LEMMA BeginUpdateKeepsInv ==
    ASSUME SendPathAssumption, SendInv, NEW expired \in BOOLEAN, NEW ping \in BOOLEAN,
           BeginUpdate(expired, ping)
    PROVE  SendInv'
<1>. DEFINE o == IF ping THEN EnqueueNew(Outbox, Control) ELSE Outbox
<1>1. o \in Box(transmitted, Queueable)
  BY EnqueueNewKeeps, QueueableIsClosed, ControlIsQueueable DEF SendInv, SendPathAssumption
<1>2. may_probe' \in BOOLEAN
  BY DEF BeginUpdate, SendInv, SearchTypeOK
<1>3. Becomes(o)
  BY DEF BeginUpdate
<1>. HIDE DEF o
<1>. QED
  BY <1>1, <1>2, <1>3, QueueingKeepsInv DEF BeginUpdate

(* A flush that ends sends nothing and keeps the queue.                     *)
LEMMA FlushEndsKeepsInv ==
    ASSUME SendPathAssumption, SendInv, FlushEnds
    PROVE  SendInv'
<1>1. Outbox \in Box(transmitted, Queueable) /\ Becomes(Outbox)
  BY DEF SendInv, FlushEnds, Becomes, Outbox
<1>2. may_probe' \in BOOLEAN /\ pc' \in {"idle", "flush_event", "flush_update", "pmtu"}
  BY DEF FlushEnds, pmtu, SendInv, SearchTypeOK
<1>. QED
  BY <1>1, <1>2, QueueingKeepsInv DEF FlushEnds, pmtu, counters

(* One datagram of a flush: a prefix of the queue leaves, the rest is       *)
(* queued again in order, and the counters move on by its size.             *)
LEMMA FlushOneKeepsInv ==
    ASSUME SendPathAssumption, SendInv, FlushOne
    PROVE  SendInv'
<1>. DEFINE n == SelectedCount
            l == Len(command_queue)
            commands == Taken(command_queue, n)
            rest == Left(command_queue, n)
            size == SizeOf(commands)
<1>1. /\ command_queue \in Seq(Queueable) /\ l \in Nat
      /\ \A i \in DOMAIN command_queue : command_queue[i].serial = transmitted + i
      /\ Outbox \in Box(transmitted, Queueable)
  <2>1. Outbox \in Box(transmitted, Queueable)
    BY DEF SendInv
  <2>2. /\ command_queue \in Seq(Queueable)
        /\ \A i \in DOMAIN command_queue : command_queue[i].serial = transmitted + i
    BY <2>1 DEF Outbox, Box
  <2>. QED
    BY <2>1, <2>2
<1>2. n \in 1 .. l /\ size <= MaxSize
  <2>1. l > 0 /\ Fits(1)
    BY <1>1 DEF FlushOne, MaySend
  <2>. QED
    BY <1>1, <2>1, SelectedCountFits DEF Fits, Taken
<1>3. MaxSize \in Nat /\ MaxSize <= ReceiveBufferMaxSize
  <2>1. fragment_size \in Nat /\ ReceiveBufferMaxSize \in Nat
    BY DEF SendInv, SearchTypeOK, SendPathAssumption
  <2>. QED
    BY <2>1 DEF MaxSize, DatagramCap, Minimum
<1>. HIDE DEF n
<1>4. /\ commands \in Seq(Queueable) /\ DOMAIN commands = 1 .. n
      /\ rest \in Seq(Queueable) /\ DOMAIN rest = 1 .. l - n
      /\ \A i \in 1 .. l - n : rest[i] = command_queue[n + i]
      /\ \A i \in 1 .. n : commands[i] \in Queueable
  <2>. DEFINE q == command_queue
  <2>1. n \in 0 .. Len(q) /\ q \in Seq(Queueable)
    BY <1>1, <1>2
  <2>. HIDE DEF q
  <2>2. IsCut(Queueable, q, n)
    BY <2>1, CutInTwo
  <2>3. /\ Taken(q, n) \in Seq(Queueable) /\ DOMAIN Taken(q, n) = 1 .. n
        /\ Left(q, n) \in Seq(Queueable) /\ DOMAIN Left(q, n) = 1 .. Len(q) - n
        /\ \A i \in 1 .. n : Taken(q, n)[i] \in Queueable
        /\ \A i \in 1 .. Len(q) - n : Left(q, n)[i] = q[n + i]
    BY <2>2 DEF IsCut
  <2>. QED
    BY <2>3 DEF q
<1>5. \A i \in 1 .. n : commands[i].size \in Nat
  <2>. HIDE DEF commands
  <2>. QED
    BY <1>4 DEF Queueable, CommandRecord
<1>. HIDE DEF commands, rest
<1>6. size \in Nat /\ \A i \in 1 .. n : PacketOverhead + commands[i].size <= size
  <2>1. n \in Nat /\ DOMAIN commands = 1 .. n /\ PacketOverhead \in Nat
    BY <1>1, <1>2, <1>4 DEF SendPathAssumption
  <2>. QED
    BY <1>5, <2>1, SizeBounds
<1>7. Requeued(n) = [queue |-> rest, waiting |-> DataOf(rest)]
      /\ DataOf(rest) \in Nat /\ (MaxWaitingData > 0 => DataOf(rest) <= MaxWaitingData)
  BY <1>1, <1>2, RequeuedIsSuffix, QueueableIsClosed DEF rest, SendPathAssumption
<1>. HIDE DEF size, l
<1>8. /\ Becomes(Requeued(n)) /\ transmitted' = transmitted + n
      /\ bytes_sent_this_window' = bytes_sent_this_window + size
      /\ replies' = replies \cup RepliesTo(commands, size)
      /\ CanSendWithinBandwidth
      /\ UNCHANGED <<pc, use_pmtu_discovery, fragment_size, low, high, outstanding, may_probe, probes>>
  BY DEF FlushOne, MaySend, pmtu, counters, n, commands, size, Taken
<1>9. Outbox' \in Box(transmitted, Queueable)'
  <2>1. Outbox' = [queue |-> rest, waiting |-> DataOf(rest)]
    BY <1>7, <1>8 DEF Becomes, Outbox
  <2>2. ASSUME NEW i \in DOMAIN rest PROVE rest[i].serial = transmitted' + i
    <3>1. i \in 1 .. l - n /\ n \in 1 .. l /\ l \in Nat
      BY <1>1, <1>2, <1>4
    <3>2. n + i \in 1 .. l /\ n \in Nat /\ i \in Nat
      BY <3>1
    <3>3. rest[i] = command_queue[n + i]
      BY <1>4, <3>1
    <3>a. DOMAIN command_queue = 1 .. l
      BY <1>1 DEF l
    <3>4. rest[i].serial = transmitted + (n + i)
      BY <1>1, <3>2, <3>3, <3>a
    <3>5. transmitted \in Nat
      BY DEF SendInv
    <3>. QED
      BY <1>8, <3>2, <3>4, <3>5
  <2>3. Queueable' = Queueable
    BY <1>8, QueueableStays
  <2>. QED
    BY <1>4, <1>7, <2>1, <2>2, <2>3 DEF Box
<1>10. /\ RepliesTo(commands, size) \subseteq [size : Nat, token : 1 .. probes]
       /\ \A r \in RepliesTo(commands, size) :
             /\ r.size <= PathMtu
             /\ outstanding # NoProbe /\ outstanding.token = r.token => outstanding.size = r.size
  <2>. SUFFICES ASSUME NEW r \in RepliesTo(commands, size)
                PROVE  /\ r \in [size : Nat, token : 1 .. probes]
                       /\ r.size <= PathMtu
                       /\ outstanding # NoProbe /\ outstanding.token = r.token
                             => outstanding.size = r.size
    OBVIOUS
  <2>1. size <= PathMtu
    BY <1>6 DEF RepliesTo, SendPathAssumption
  <2>2. PICK i \in 1 .. n : /\ commands[i].type = "probe"
                            /\ r = [size |-> commands[i].target, token |-> commands[i].token]
    <3>1. PICK c \in ToSet(commands) :
            c.type = "probe" /\ r = [size |-> c.target, token |-> c.token]
      BY DEF RepliesTo
    <3>2. PICK i \in 1 .. n : c = commands[i]
      BY <1>4, <3>1 DEF ToSet
    <3>. QED
      BY <3>1, <3>2
  <2>3. /\ commands[i].token \in 1 .. probes /\ commands[i].target \in Nat
        /\ commands[i].target <= PacketOverhead + commands[i].size
        /\ outstanding # NoProbe /\ outstanding.token = commands[i].token
              => outstanding.size = commands[i].target
    BY <1>4, <2>2 DEF Queueable, CommandRecord
  <2>4. commands[i].target <= PathMtu
    BY <1>5, <1>6, <2>1, <2>3 DEF SendPathAssumption
  <2>. QED
    BY <2>2, <2>3, <2>4
<1>11. SearchTypeOK' /\ RepliesAreTrue' /\ SearchIsBounded' /\ PmtuIsSound'
  <2>1. SearchTypeOK'
    BY <1>8, <1>10 DEF SendInv, SearchTypeOK
  <2>2. RepliesAreTrue'
    BY <1>8, <1>10 DEF SendInv, RepliesAreTrue
  <2>. QED
    BY <1>8, <2>1, <2>2 DEF SendInv, SearchIsBounded, PmtuIsSound, ClampedHigh
<1>12. bytes_sent_this_window' \in Nat /\ BandwidthOvershoot'
  BY <1>2, <1>3, <1>6, <1>8
  DEF SendInv, BandwidthOvershoot, CanSendWithinBandwidth, SendPathAssumption, size
<1>. QED
  BY <1>2, <1>8, <1>9, <1>11, <1>12 DEF SendInv, l

(* A step of the search that raises the fragment size, or lowers it from    *)
(* the configured one, takes no command out of what may be queued; nor does *)
(* a probe with a fresh token.                                              *)
LEMMA QueueableGrows ==
    ASSUME SendPathAssumption, fragment_size \in Nat, fragment_size' \in Nat,
           fragment_size <= fragment_size' \/ fragment_size <= FragmentSize,
           probes \in Nat, probes' \in {probes, probes + 1},
           outstanding' \in {NoProbe, outstanding} \/ outstanding'.token = probes + 1
    PROVE  Queueable \subseteq Queueable'
<1>1. Largest <= Largest' /\ Largest \in Nat /\ Largest' \in Nat
  BY DEF Largest, Minimum, SendPathAssumption
<1>. SUFFICES ASSUME NEW c \in Queueable PROVE c \in Queueable'
  OBVIOUS
<1>2. c \in CommandRecord
  BY DEF Queueable
<1>3. c.data \in IF c.type = "data" THEN Nat \ {0} ELSE {0}
  BY DEF Queueable
<1>4. c.type = "data" /\ Room => PacketOverhead + c.size <= Largest'
  <2>1. c.type = "data" /\ Room => PacketOverhead + c.size <= Largest
    BY DEF Queueable
  <2>2. PacketOverhead \in Nat /\ c.size \in Nat
    BY <1>2 DEF CommandRecord, SendPathAssumption
  <2>. QED
    BY <1>1, <2>1, <2>2
<1>5. c.type = "probe" =>
        /\ c.token \in 1 .. probes'
        /\ c.target <= PacketOverhead + c.size
        /\ outstanding' # NoProbe /\ outstanding'.token = c.token
              => outstanding'.size = c.target
  BY DEF Queueable
<1>. QED
  BY <1>2, <1>3, <1>4, <1>5 DEF Queueable, Room

(* handle_pmtu: a probe that timed out lowers the upper bound, and a new    *)
(* one is queued between the bounds.                                        *)
LEMMA HandlePmtuKeepsInv ==
    ASSUME SendPathAssumption, SendInv, HandlePmtu
    PROVE  SendInv'
<1>1. /\ SearchTypeOK /\ RepliesAreTrue /\ SearchIsBounded /\ PmtuIsSound
      /\ Outbox \in Box(transmitted, Queueable)
      /\ fragment_size = FragmentSize \/ fragment_size <= low
  BY DEF SendInv
<1>2. UNCHANGED <<bytes_sent_this_window, replies, transmitted>> /\ pc' = "idle"
  BY DEF HandlePmtu
<1>a. /\ FragmentSize \in Nat /\ ReceiveBufferMaxSize \in Nat /\ PmtuConvergeThreshold \in Nat
      /\ PacketOverhead \in Nat /\ ProbeHeader \in Nat /\ MaxWaitingData \in Nat
  BY DEF SendPathAssumption
<1>3. SUFFICES /\ Outbox' \in Box(transmitted, Queueable')
               /\ SearchTypeOK' /\ RepliesAreTrue' /\ SearchIsBounded' /\ PmtuIsSound'
               /\ fragment_size' = FragmentSize \/ fragment_size' <= low'
  <2>1. BandwidthOvershoot'
    BY <1>2 DEF SendInv, BandwidthOvershoot
  <2>2. Box(transmitted, Queueable)' = Box(transmitted, Queueable')
    BY <1>2 DEF Box
  <2>. QED
    BY <1>2, <1>3, <2>1, <2>2 DEF SendInv
<1>4. ASSUME UNCHANGED <<command_queue, total_waiting_data>>, Queueable \subseteq Queueable'
      PROVE  Outbox' \in Box(transmitted, Queueable')
  <2>1. Outbox' = Outbox
    BY <1>4 DEF Outbox
  <2>. QED
    BY <1>1, <1>4, <2>1, BoxGrows
<1>5. CASE SkipPmtu
  <2>1. UNCHANGED <<command_queue, total_waiting_data, pmtu, probes>>
    BY <1>5 DEF SkipPmtu
  <2>2. Queueable' = Queueable
    BY <2>1, QueueableStays DEF pmtu
  <2>3. Outbox' \in Box(transmitted, Queueable')
    BY <1>4, <2>1, <2>2
  <2>. QED
    BY <1>1, <1>2, <2>1, <2>3
    DEF pmtu, SearchTypeOK, RepliesAreTrue, SearchIsBounded, PmtuIsSound, ClampedHigh
<1>6. CASE AwaitProbe
  <2>1. /\ UNCHANGED <<command_queue, total_waiting_data, use_pmtu_discovery, fragment_size, low, probes>>
        /\ outstanding # NoProbe /\ outstanding' \in {NoProbe, outstanding}
    BY <1>6 DEF AwaitProbe
  <2>2. Queueable \subseteq Queueable'
    BY <1>1, <2>1, QueueableGrows DEF SearchTypeOK
  <2>3. Outbox' \in Box(transmitted, Queueable')
    BY <1>4, <2>1, <2>2
  <2>4. CASE UNCHANGED <<high, outstanding, may_probe>>
    BY <1>1, <1>2, <2>1, <2>3, <2>4
    DEF SearchTypeOK, RepliesAreTrue, SearchIsBounded, PmtuIsSound, ClampedHigh
  <2>5. CASE /\ high' = IF outstanding.size > 0 THEN Minimum(high, outstanding.size - 1) ELSE high
             /\ outstanding' = NoProbe
             /\ may_probe' = FALSE
    <3>1. outstanding.size \in Nat
      BY <1>1, <2>1 DEF SearchTypeOK
    <3>2. SearchTypeOK'
      <4>1. use_pmtu_discovery' \in BOOLEAN /\ may_probe' \in BOOLEAN
        BY <1>1, <2>1, <2>5 DEF SearchTypeOK
      <4>2. high' \in Nat
        BY <1>1, <2>5, <3>1 DEF SearchTypeOK, Minimum
      <4>. QED
        BY <1>1, <1>2, <2>1, <2>5, <4>1, <4>2 DEF SearchTypeOK
    <3>3. RepliesAreTrue' /\ PmtuIsSound'
      BY <1>1, <1>2, <2>1, <2>5 DEF RepliesAreTrue, PmtuIsSound
    <3>4. SearchIsBounded'
      BY <1>a, <1>1, <2>1, <2>5, <3>1 DEF SearchIsBounded, SearchTypeOK, ClampedHigh, Minimum
    <3>. QED
      BY <1>1, <2>1, <2>3, <3>2, <3>3, <3>4
  <2>. QED
    BY <1>6, <2>4, <2>5 DEF AwaitProbe
<1>7. CASE Converge
  <2>1. /\ UNCHANGED <<command_queue, total_waiting_data, use_pmtu_discovery, low, outstanding, may_probe, probes>>
        /\ high' = ClampedHigh /\ fragment_size' = low
    BY <1>7 DEF Converge
  <2>2. Queueable \subseteq Queueable'
    BY <1>1, <1>a, <2>1, QueueableGrows DEF SearchTypeOK
  <2>3. Outbox' \in Box(transmitted, Queueable')
    BY <1>4, <2>1, <2>2
  <2>4. SearchTypeOK' /\ SearchIsBounded'
    BY <1>1, <1>2, <1>a, <2>1 DEF SearchTypeOK, SearchIsBounded, ClampedHigh, Minimum
  <2>5. RepliesAreTrue' /\ PmtuIsSound'
    BY <1>1, <1>2, <2>1 DEF RepliesAreTrue, PmtuIsSound
  <2>. QED
    BY <1>1, <2>1, <2>3, <2>4, <2>5 DEF SearchTypeOK
<1>8. CASE WaitForInterval
  <2>1. /\ UNCHANGED <<command_queue, total_waiting_data, use_pmtu_discovery, fragment_size, low, outstanding,
                      may_probe, probes>>
        /\ high' = ClampedHigh
    BY <1>8 DEF WaitForInterval
  <2>2. Queueable' = Queueable
    BY <2>1, QueueableStays
  <2>3. Outbox' \in Box(transmitted, Queueable')
    BY <1>4, <2>1, <2>2
  <2>4. SearchTypeOK' /\ SearchIsBounded'
    BY <1>1, <1>2, <1>a, <2>1 DEF SearchTypeOK, SearchIsBounded, ClampedHigh, Minimum
  <2>5. RepliesAreTrue' /\ PmtuIsSound'
    BY <1>1, <1>2, <2>1 DEF RepliesAreTrue, PmtuIsSound
  <2>. QED
    BY <1>1, <2>1, <2>3, <2>4, <2>5
<1>9. CASE SendProbe
  <2>. DEFINE target == (low + ClampedHigh) \div 2
              probe == [Command("probe", ProbeSize(target), 0)
                          EXCEPT !.target = target, !.token = probes + 1]
  <2>1. /\ outstanding = NoProbe /\ ~Converged
        /\ may_probe' = FALSE /\ high' = ClampedHigh /\ probes' = probes + 1
        /\ outstanding' = [size |-> target, token |-> probes + 1]
        /\ UNCHANGED <<use_pmtu_discovery, fragment_size, low>>
        /\ Becomes(EnqueueNew(Outbox, probe))
    BY <1>9 DEF SendProbe
  <2>2. /\ low \in Nat /\ ClampedHigh \in Nat /\ target \in Nat /\ probes \in Nat
        /\ ClampedHigh - low > PmtuConvergeThreshold
        /\ PmtuConvergeThreshold > 0 /\ low <= ClampedHigh => target \in low + 1 .. ClampedHigh
    BY <1>1, <1>a, <2>1 DEF SearchTypeOK, ClampedHigh, Minimum, Converged
  <2>3. ProbeSize(target) \in Nat /\ target <= PacketOverhead + ProbeSize(target)
    <3>. HIDE DEF target
    <3>. QED
      BY <1>a, <2>2 DEF ProbeSize
  <2>4. Queueable \subseteq Queueable'
    <3>1. outstanding'.token = probes + 1
      BY <2>1
    <3>. QED
      BY <1>1, <2>1, <3>1, QueueableGrows DEF SearchTypeOK
  <2>5. probe \in Queueable'
    <3>. HIDE DEF target
    <3>2. outstanding'.size = target
      BY <2>1
    <3>3. Command("probe", ProbeSize(target), 0) \in CommandRecord
      BY <2>2, <2>3 DEF CommandRecord, Command
    <3>4. /\ Command("probe", ProbeSize(target), 0).type = "probe"
          /\ Command("probe", ProbeSize(target), 0).data = 0
          /\ Command("probe", ProbeSize(target), 0).size = ProbeSize(target)
      BY <2>3 DEF Command
    <3>5. probe \in CommandRecord
      <4>. DEFINE plain == Command("probe", ProbeSize(target), 0)
      <4>1. plain \in CommandRecord /\ target \in Nat /\ probes + 1 \in Nat
        BY <2>2, <3>3
      <4>. HIDE DEF plain
      <4>2. [plain EXCEPT !.target = target, !.token = probes + 1] \in CommandRecord
        BY <4>1 DEF CommandRecord
      <4>. QED
        BY <4>2 DEF plain
    <3>6. /\ probe.type = "probe" /\ probe.data = 0 /\ probe.token = probes + 1
          /\ probe.target = target /\ probe.size = ProbeSize(target)
      BY <3>3, <3>4 DEF CommandRecord
    <3>. HIDE DEF probe
    <3>. QED
      BY <2>1, <2>2, <2>3, <3>2, <3>5, <3>6 DEF Queueable
  <2>6. Outbox' \in Box(transmitted, Queueable')
    <3>1. Closed(Queueable')
      BY DEF Closed, Queueable, CommandRecord
    <3>2. Outbox \in Box(transmitted, Queueable')
      BY <1>1, <2>4, BoxGrows
    <3>. HIDE DEF probe
    <3>3. EnqueueNew(Outbox, probe) \in Box(transmitted, Queueable')
      BY <1>a, <2>5, <3>1, <3>2, EnqueueNewKeeps DEF SendInv
    <3>. QED
      BY <2>1, <3>3, BecomesBox
  <2>. HIDE DEF probe, target
  <2>7. SearchTypeOK'
    <3>1. outstanding' \in [size : Nat, token : 1 .. probes']
      BY <2>1, <2>2
    <3>2. replies \subseteq [size : Nat, token : 1 .. probes']
      BY <1>1, <2>1, <2>2 DEF SearchTypeOK
    <3>3. use_pmtu_discovery' \in BOOLEAN /\ may_probe' \in BOOLEAN
      BY <1>1, <2>1 DEF SearchTypeOK
    <3>4. /\ fragment_size' \in Nat /\ low' \in Nat /\ high' \in Nat /\ probes' \in Nat
          /\ replies' = replies
      BY <1>1, <1>2, <2>1, <2>2 DEF SearchTypeOK
    <3>. QED
      BY <3>1, <3>2, <3>3, <3>4 DEF SearchTypeOK
  <2>8. SearchIsBounded'
    <3>1. ClampedHigh' = ClampedHigh
      BY <1>1, <1>a, <2>1 DEF ClampedHigh, Minimum, SearchTypeOK
    <3>2. outstanding'.size = target
      BY <2>1
    <3>. QED
      BY <1>1, <2>1, <2>2, <3>1, <3>2 DEF SearchIsBounded
  <2>9. RepliesAreTrue' /\ PmtuIsSound'
    <3>1. \A r \in replies : r.token # probes + 1
      BY <1>1, <2>2 DEF SearchTypeOK
    <3>2. outstanding'.token = probes + 1
      BY <2>1
    <3>. QED
      BY <1>1, <1>2, <2>1, <3>1, <3>2 DEF RepliesAreTrue, PmtuIsSound
  <2>. QED
    BY <1>1, <2>1, <2>6, <2>7, <2>8, <2>9
<1>. QED
  BY <1>5, <1>6, <1>7, <1>8, <1>9 DEF HandlePmtu

(* A PMTU reply, current, late or for a probe given up, keeps the bounds    *)
(* of the search true to what the path carried.                             *)
LEMMA ReceiveReplyKeepsInv ==
    ASSUME SendPathAssumption, SendInv, NEW r \in replies, ReceiveReply(r)
    PROVE  SendInv'
<1>1. /\ SearchTypeOK /\ RepliesAreTrue /\ SearchIsBounded /\ PmtuIsSound
      /\ Outbox \in Box(transmitted, Queueable)
      /\ fragment_size = FragmentSize \/ fragment_size <= low
  BY DEF SendInv
<1>2. /\ UNCHANGED <<pc, command_queue, total_waiting_data, bytes_sent_this_window, transmitted, probes>>
      /\ replies' = replies \ {r}
  BY DEF ReceiveReply, counters
<1>3. CASE ~ReplyMatches(r)
  <2>1. UNCHANGED <<use_pmtu_discovery, fragment_size, low, high, outstanding, may_probe>>
    BY <1>3 DEF ReceiveReply, pmtu
  <2>2. Queueable' = Queueable
    BY <1>2, <2>1, QueueableStays
  <2>3. Outbox' \in Box(transmitted, Queueable)'
    BY <1>1, <1>2, <2>2 DEF Outbox, Box
  <2>4. SearchTypeOK' /\ RepliesAreTrue'
    BY <1>1, <1>2, <2>1 DEF SearchTypeOK, RepliesAreTrue
  <2>5. SearchIsBounded' /\ PmtuIsSound' /\ BandwidthOvershoot'
    BY <1>2, <2>1 DEF SendInv, SearchIsBounded, PmtuIsSound, BandwidthOvershoot, ClampedHigh
  <2>. QED
    BY <1>2, <2>1, <2>3, <2>4, <2>5 DEF SendInv
<1>4. CASE ReplyMatches(r)
  <2>1. /\ low' = (IF low < r.size THEN r.size ELSE low) /\ fragment_size' = low'
        /\ outstanding' = NoProbe /\ may_probe' = FALSE /\ UNCHANGED <<use_pmtu_discovery, high>>
    BY <1>4 DEF ReceiveReply
  <2>2. /\ r.size \in Nat /\ r.size <= PathMtu /\ outstanding # NoProbe /\ outstanding.size = r.size
        /\ low \in Nat /\ fragment_size \in Nat /\ FragmentSize \in Nat /\ PathMtu \in Nat
    BY <1>1, <1>4 DEF SearchTypeOK, RepliesAreTrue, ReplyMatches, SendPathAssumption
  <2>3. low' \in Nat /\ low <= low' /\ (low <= PathMtu => low' <= PathMtu)
    BY <2>1, <2>2
  <2>4. Queueable \subseteq Queueable'
    BY <1>1, <1>2, <2>1, <2>2, <2>3, QueueableGrows DEF SearchTypeOK
  <2>5. Outbox' \in Box(transmitted, Queueable)'
    <3>1. Outbox' = Outbox /\ Box(transmitted, Queueable)' = Box(transmitted, Queueable')
      BY <1>2 DEF Outbox, Box
    <3>. QED
      BY <1>1, <2>4, <3>1, BoxGrows
  <2>6. SearchTypeOK' /\ RepliesAreTrue'
    BY <1>1, <1>2, <2>1, <2>3 DEF SearchTypeOK, RepliesAreTrue
  <2>7. SearchIsBounded'
    BY <1>1, <2>1, <2>2
    DEF SearchIsBounded, SearchTypeOK, ClampedHigh, Minimum, SendPathAssumption
  <2>8. PmtuIsSound' /\ BandwidthOvershoot'
    BY <1>1, <1>2, <2>3 DEF SendInv, PmtuIsSound, BandwidthOvershoot
  <2>. QED
    BY <1>2, <2>1, <2>3, <2>5, <2>6, <2>7, <2>8 DEF SendInv
<1>. QED
  BY <1>3, <1>4

(* Every step keeps the invariant of the send path.                         *)
LEMMA NextSendInv ==
    ASSUME SendPathAssumption, SendInv, [Next]_vars
    PROVE  SendInv'
<1>1. CASE UNCHANGED vars
  <2>1. Outbox \in Box(transmitted, Queueable) /\ Becomes(Outbox)
    BY <1>1 DEF SendInv, vars, Becomes, Outbox
  <2>2. may_probe' \in BOOLEAN /\ pc' \in {"idle", "flush_event", "flush_update", "pmtu"}
    BY <1>1 DEF vars, pmtu, SendInv, SearchTypeOK
  <2>. QED
    BY <1>1, <2>1, <2>2, QueueingKeepsInv DEF vars, pmtu, counters
<1>2. CASE Next
  BY <1>2, ProcessEventKeepsInv, QueueAnswerKeepsInv, BeginUpdateKeepsInv, FlushOneKeepsInv,
     FlushEndsKeepsInv, HandlePmtuKeepsInv, ReceiveReplyKeepsInv DEF Next
<1>. QED
  BY <1>1, <1>2

(* The invariant of the send path holds in every behaviour.                 *)
LEMMA SpecSendInv == Spec => []SendInv
<1>1. Init => SendInv
  BY SendPathAssumption, InitSendInv
<1>2. SendInv /\ [Next]_vars => SendInv'
  BY SendPathAssumption, NextSendInv
<1>. QED
  BY <1>1, <1>2, PTL DEF Spec

-----------------------------------------------------------------------------
(* What it implies. *)

(* The state of the send path has its types: every queued command has the   *)
(* payload bytes its kind has, the probe that is out has a token given out. *)
THEOREM SendTypes == Spec => []TypeOK
<1>1. SendInv => TypeOK
  <2>. SUFFICES ASSUME SendInv PROVE TypeOK
    OBVIOUS
  <2>1. command_queue \in Seq(Queueable) /\ total_waiting_data \in Nat
    BY DEF SendInv, Outbox, Box
  <2>2. ASSUME NEW i \in DOMAIN command_queue
        PROVE  /\ command_queue[i].size \in Nat
               /\ command_queue[i].data \in IF command_queue[i].type = "data" THEN Nat \ {0} ELSE {0}
    <3>1. command_queue[i] \in Queueable
      BY <2>1
    <3>. QED
      BY <3>1 DEF Queueable, CommandRecord
  <2>3. outstanding = NoProbe \/ (outstanding.size \in Nat /\ outstanding.token \in 1 .. probes)
    BY DEF SendInv, SearchTypeOK
  <2>. QED
    BY <2>1, <2>2, <2>3 DEF TypeOK, SendInv, SearchTypeOK
<1>. QED
  BY <1>1, SpecSendInv, PTL

(* total_waiting_data is exactly the payload waiting in the queue, within   *)
(* max_waiting_data, after any history of sends, drops and partial drains.  *)
THEOREM WaitingDataExact == Spec => []WaitingDataIsExact
<1>1. SendInv => WaitingDataIsExact
  BY DEF SendInv, Outbox, Box, DataOf, WaitingDataIsExact
<1>. QED
  BY <1>1, SpecSendInv, PTL

(* drain_commands and the re-queueing of what did not fit lose, repeat and  *)
(* reorder no command.                                                      *)
THEOREM QueueFifo == Spec => []QueueIsFifo
<1>1. SendInv => QueueIsFifo
  BY DEF SendInv, Outbox, Box, QueueIsFifo
<1>. QED
  BY <1>1, SpecSendInv, PTL

(* The whole queue invariant of the model: with room for the header of an   *)
(* unsequenced command in the configured fragment size, every queued data   *)
(* command can be sent as long as PMTU discovery has not lowered it.        *)
THEOREM SendQueue ==
    ASSUME Room
    PROVE  Spec => []QueueInv
<1>1. SendInv => QueuedDataFits
  <2>. SUFFICES ASSUME SendInv, fragment_size >= FragmentSize, NEW i \in DOMAIN command_queue,
                       command_queue[i].type = "data"
                PROVE  PacketOverhead + command_queue[i].size <= DatagramCap
    BY DEF QueuedDataFits
  <2>1. command_queue \in Seq(Queueable)
    BY DEF SendInv, Outbox, Box
  <2>2. command_queue[i] \in Queueable
    BY <2>1
  <2>3. PacketOverhead + command_queue[i].size <= Largest
    BY <2>2, Room DEF Queueable
  <2>4. Largest = DatagramCap
    BY SendPathAssumption DEF SendInv, SearchTypeOK, Largest, DatagramCap, SendPathAssumption
  <2>. QED
    BY <2>3, <2>4
<1>2. Spec => []QueuedDataFits
  BY <1>1, SpecSendInv, PTL
<1>. QED
  BY <1>2, SendTypes, WaitingDataExact, QueueFifo, PTL DEF QueueInv

(* can_send_within_bandwidth checks before a datagram is built, not after:  *)
(* a window overshoots the limit, but by less than one datagram.            *)
THEOREM BandwidthBounded == Spec => []BandwidthOvershoot
<1>1. SendInv => BandwidthOvershoot
  BY DEF SendInv
<1>. QED
  BY <1>1, SpecSendInv, PTL

(* handle_pmtu and process_reply only ever raise the fragment size to what  *)
(* the path has carried, whatever replies are lost, late or answer probes   *)
(* that travelled in a larger datagram.                                     *)
THEOREM PmtuSound == Spec => []PmtuIsSound
<1>1. SendInv => PmtuIsSound
  BY DEF SendInv
<1>. QED
  BY <1>1, SpecSendInv, PTL

(* The bounds of the PMTU search never cross, and the probe that is out     *)
(* lies between them.                                                       *)
THEOREM SearchBracketed == Spec => []SearchIsBracketed
<1>1. SendInv => SearchIsBracketed
  <2>. SUFFICES ASSUME SendInv PROVE SearchIsBracketed
    OBVIOUS
  <2>1. SearchIsBounded /\ SearchTypeOK
    BY DEF SendInv
  <2>. QED
    BY <2>1, SendPathAssumption
    DEF SearchIsBounded, SearchIsBracketed, SearchTypeOK, ClampedHigh, Minimum, SendPathAssumption
<1>. QED
  BY <1>1, SpecSendInv, PTL

=============================================================================
