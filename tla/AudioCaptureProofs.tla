------------------------- MODULE AudioCaptureProofs -------------------------
(***************************************************************************)
(* The safety of the recorder (AudioCapture), for any number of            *)
(* recordings, samples and slots.                                          *)
(*                                                                         *)
(* The argument is about the capture queue: a stop() goes on only when a   *)
(* job it has queued has run, and whatever was queued before that job has  *)
(* run by then.  So the invariant says of every stop how far it has come   *)
(* and what can no longer wait on the queue (StopsInOrder), and of every   *)
(* sample where it is (TracksFit, SamplesFit); the orders of the queue     *)
(* that this rests on are conjuncts of their own (JobsFollow).             *)
(***************************************************************************)
EXTENDS AudioCapture, FiniteSetTheorems, SequenceTheorems, TLAPS

-----------------------------------------------------------------------------
(* What waits on the capture queue.                                         *)

In(q, S) == \E i \in DOMAIN q : q[i] \in S
Before(q, S, T) == \A i, j \in DOMAIN q : q[i] \in S /\ q[j] \in T => i < j
Once(q, S) == \A i, j \in DOMAIN q : q[i] \in S /\ q[j] \in S => i = j

AudioJobs == {"audio", "microphone"} \X Samples
WriteJobs == {"write"} \X (SUBSET Samples)
ReportJobs == {"report"} \X (1..MaxRecordings)
ResetJobs == {"reset"} \X (1..MaxRecordings)

Waits(what, of) == In(queue, {<<what, of>>})
WaitsOnce(what, of) == Once(queue, {<<what, of>>})
AudioWaits == In(queue, AudioJobs)
WriteWaits == In(queue, WriteJobs)
ResetWaits == In(queue, ResetJobs)
ReportWaits == In(queue, ReportJobs)
IsToPlay(n) == Waits("audio", n) \/ Waits("microphone", n)
IsToBeWritten(n) == In(queue, {"write"} \X {s \in SUBSET Samples : n \in s})

\* The orders that the queue keeps: samples before the barrier that waits for
\* them, writes before the files are closed, a recording's reports before the
\* reset for the next one.
AudioIsFirst == \A c \in Callers : Before(queue, AudioJobs, {<<"barrier", c>>})
WritesAreFirst == \A c \in Callers : Before(queue, WriteJobs, {<<"close", c>>})
ReportsAreFirst == Before(queue, ReportJobs, ResetJobs)
ClosesBefore(d, c) == Before(queue, {<<"close", d>>}, {<<"close", c>>})

-----------------------------------------------------------------------------
(* Jobs on a queue.                                                         *)

\* Where a job put at the end of a queue stands to the others.
LEMMA AppendJob ==
  ASSUME NEW J, NEW q \in Seq(J), NEW e \in J
  PROVE  /\ Append(q, e) \in Seq(J)
         /\ \A S : In(Append(q, e), S) <=> In(q, S) \/ e \in S
         /\ \A S, T : Before(q, S, T) /\ (e \in S => e \notin T /\ ~In(q, T))
                        => Before(Append(q, e), S, T)
         /\ \A S : Once(q, S) /\ (e \in S => ~In(q, S)) => Once(Append(q, e), S)
<1>1. Len(q) \in Nat /\ DOMAIN q = 1 .. Len(q)  OBVIOUS
<1>2. /\ DOMAIN Append(q, e) = 1 .. Len(q) + 1
      /\ \A i \in 1 .. Len(q) : Append(q, e)[i] = q[i]
      /\ Append(q, e)[Len(q) + 1] = e
  OBVIOUS
<1>3. \A i \in 1 .. Len(q) + 1 : i \in 1 .. Len(q) \/ i = Len(q) + 1  BY <1>1
<1>4. ASSUME NEW S PROVE In(Append(q, e), S) <=> In(q, S) \/ e \in S
  BY <1>1, <1>2, <1>3 DEF In
<1>5. ASSUME NEW S, NEW T, Before(q, S, T), e \in S => e \notin T /\ ~In(q, T)
      PROVE  Before(Append(q, e), S, T)
  BY <1>1, <1>2, <1>3, <1>5 DEF In, Before
<1>6. ASSUME NEW S, Once(q, S), e \in S => ~In(q, S)
      PROVE  Once(Append(q, e), S)
  BY <1>1, <1>2, <1>3, <1>6 DEF In, Once
<1>7. Append(q, e) \in Seq(J)  OBVIOUS
<1> QED  BY <1>4, <1>5, <1>6, <1>7

\* Where the others stand when the first job is taken.
LEMMA TailJob ==
  ASSUME NEW J, NEW q \in Seq(J), q # << >>
  PROVE  /\ Tail(q) \in Seq(J)
         /\ Head(q) \in J
         /\ \A S : In(q, S) <=> Head(q) \in S \/ In(Tail(q), S)
         /\ \A S, T : Before(q, S, T)
                        => Before(Tail(q), S, T) /\ (Head(q) \in T => ~In(q, S))
         /\ \A S : Once(q, S)
                     => Once(Tail(q), S) /\ (Head(q) \in S => ~In(Tail(q), S))
<1>1. Len(q) \in Nat \ {0} /\ DOMAIN q = 1 .. Len(q)  BY EmptySeq
<1>2. /\ DOMAIN Tail(q) = 1 .. Len(q) - 1
      /\ \A i \in 1 .. Len(q) - 1 : Tail(q)[i] = q[i + 1]
      /\ Head(q) = q[1] /\ Tail(q) \in Seq(J)
  BY <1>1, HeadTailProperties
<1>3. /\ \A i \in 1 .. Len(q) - 1 : i + 1 \in 1 .. Len(q) /\ i + 1 # 1
      /\ \A i \in 1 .. Len(q) : i = 1 \/ (i - 1 \in 1 .. Len(q) - 1 /\ i = i - 1 + 1)
      /\ 1 \in 1 .. Len(q)
  BY <1>1
<1>4. ASSUME NEW S PROVE In(q, S) <=> Head(q) \in S \/ In(Tail(q), S)
  <2>1. ASSUME NEW i \in 1 .. Len(q), q[i] \in S PROVE Head(q) \in S \/ In(Tail(q), S)
    <3>1. CASE i = 1  BY <1>2, <2>1, <3>1
    <3>2. CASE i # 1
      <4>1. i - 1 \in 1 .. Len(q) - 1 /\ i = i - 1 + 1  BY <1>3, <3>2
      <4>2. Tail(q)[i - 1] \in S  BY <1>2, <2>1, <4>1
      <4> QED  BY <1>2, <4>1, <4>2 DEF In
    <3> QED  BY <3>1, <3>2
  <2>2. ASSUME Head(q) \in S PROVE In(q, S)  BY <1>1, <1>2, <1>3, <2>2 DEF In
  <2>3. ASSUME In(Tail(q), S) PROVE In(q, S)
    <3>1. PICK i \in 1 .. Len(q) - 1 : Tail(q)[i] \in S  BY <1>2, <2>3 DEF In
    <3>2. i + 1 \in 1 .. Len(q) /\ q[i + 1] \in S  BY <1>2, <1>3, <3>1
    <3> QED  BY <1>1, <3>2 DEF In
  <2> QED  BY <1>1, <2>1, <2>2, <2>3 DEF In
<1>5. ASSUME NEW S, NEW T, Before(q, S, T)
      PROVE  Before(Tail(q), S, T) /\ (Head(q) \in T => ~In(q, S))
  BY <1>1, <1>2, <1>3, <1>5 DEF In, Before
<1>6. ASSUME NEW S, Once(q, S)
      PROVE  Once(Tail(q), S) /\ (Head(q) \in S => ~In(Tail(q), S))
  BY <1>1, <1>2, <1>3, <1>6 DEF In, Once
<1>7. Head(q) \in J  BY <1>1, <1>2, <1>3
<1> QED  BY <1>2, <1>4, <1>5, <1>6, <1>7

\* The writes that wait, and how many they are.
Writes(q) == {i \in DOMAIN q : q[i][1] = "write"}

\* The writes on the queue are counted one more when a write is queued.
LEMMA AppendWrite ==
  ASSUME NEW J, NEW q \in Seq(J), NEW e
  PROVE  /\ IsFiniteSet(Writes(q)) /\ Cardinality(Writes(q)) \in Nat
         /\ Cardinality(Writes(Append(q, e)))
              = Cardinality(Writes(q)) + (IF e[1] = "write" THEN 1 ELSE 0)
<1>1. Len(q) \in Nat /\ DOMAIN q = 1 .. Len(q)  OBVIOUS
<1>2. /\ DOMAIN Append(q, e) = 1 .. Len(q) + 1
      /\ \A i \in 1 .. Len(q) : Append(q, e)[i] = q[i]
      /\ Append(q, e)[Len(q) + 1] = e
  OBVIOUS
<1>3. IsFiniteSet(1 .. Len(q))  BY <1>1, FS_Interval
<1>4. IsFiniteSet(Writes(q))  BY <1>1, <1>3, FS_Subset DEF Writes
<1>5. Cardinality(Writes(q)) \in Nat  BY <1>4, FS_CardinalityType
<1>6. CASE e[1] = "write"
  <2>1. Writes(Append(q, e)) = Writes(q) \cup {Len(q) + 1}
    BY <1>1, <1>2, <1>6 DEF Writes
  <2>2. Len(q) + 1 \notin Writes(q)  BY <1>1 DEF Writes
  <2> QED  BY <1>4, <1>5, <1>6, <2>1, <2>2, FS_AddElement
<1>7. CASE e[1] # "write"
  <2>1. Writes(Append(q, e)) = Writes(q)
    BY <1>1, <1>2, <1>7 DEF Writes
  <2> QED  BY <1>4, <1>5, <1>7, <2>1
<1> QED  BY <1>4, <1>5, <1>6, <1>7

\* And one less when a write is taken.
LEMMA TailWrite ==
  ASSUME NEW J, NEW q \in Seq(J), q # << >>
  PROVE  /\ Cardinality(Writes(Tail(q))) \in Nat
         /\ Cardinality(Writes(q))
              = Cardinality(Writes(Tail(q))) + (IF Head(q)[1] = "write" THEN 1 ELSE 0)
<1>1. Len(q) \in Nat \ {0} /\ DOMAIN q = 1 .. Len(q)  BY EmptySeq
<1>2. /\ DOMAIN Tail(q) = 1 .. Len(q) - 1
      /\ \A i \in 1 .. Len(q) - 1 : Tail(q)[i] = q[i + 1]
      /\ Head(q) = q[1] /\ Tail(q) \in Seq(J)
  BY <1>1, HeadTailProperties
<1>3. IsFiniteSet(Writes(q)) /\ Cardinality(Writes(q)) \in Nat  BY AppendWrite
<1>4. IsFiniteSet(Writes(Tail(q))) /\ Cardinality(Writes(Tail(q))) \in Nat
  BY <1>2, AppendWrite
<1> DEFINE later == Writes(q) \ {1}
           shift == [i \in Writes(Tail(q)) |-> i + 1]
<1>5. Cardinality(later) = Cardinality(Writes(Tail(q)))
  <2>1. ASSUME NEW i \in Writes(Tail(q)) PROVE i \in Int /\ i + 1 \in later
    BY <1>1, <1>2 DEF Writes
  <2>2. ASSUME NEW j \in later PROVE j - 1 \in Writes(Tail(q)) /\ j = j - 1 + 1
    BY <1>1, <1>2 DEF Writes
  <2>3. shift \in [Writes(Tail(q)) -> later]  BY <2>1
  <2>4. shift \in Bijection(Writes(Tail(q)), later)
    <3>1. shift \in Injection(Writes(Tail(q)), later)
      BY <2>1, <2>3 DEF Injection, IsInjective
    <3>2. shift \in Surjection(Writes(Tail(q)), later)
      BY <2>2, <2>3 DEF Surjection
    <3> QED  BY <3>1, <3>2 DEF Bijection
  <2>5. ExistsBijection(Writes(Tail(q)), later)  BY <2>4 DEF ExistsBijection
  <2> QED  BY <1>4, <2>5, FS_Bijection
<1>6. 1 \in Writes(q) <=> Head(q)[1] = "write"  BY <1>1, <1>2 DEF Writes
<1>7. Cardinality(later) = IF 1 \in Writes(q) THEN Cardinality(Writes(q)) - 1
                           ELSE Cardinality(Writes(q))
  BY <1>3, FS_RemoveElement
<1> HIDE DEF later
<1> QED  BY <1>3, <1>4, <1>5, <1>6, <1>7

\* What waits on the queue, of one kind or another.
LEMMA JobKinds ==
  ASSUME NEW w, NEW x, <<w, x>> \in Jobs
  PROVE  /\ <<w, x>> \in AudioJobs <=> w \in {"audio", "microphone"}
         /\ <<w, x>> \in WriteJobs <=> w = "write"
         /\ <<w, x>> \in ReportJobs <=> w = "report"
         /\ <<w, x>> \in ResetJobs <=> w = "reset"
         /\ w \in {"audio", "microphone"} => x \in Samples
         /\ w = "write" => x \in SUBSET Samples
         /\ w \in {"report", "reset"} => x \in 1..MaxRecordings
         /\ w \in {"mark", "barrier", "flush", "close"} => x \in Callers
         /\ \A n : <<w, x>> \in {"write"} \X {s \in SUBSET Samples : n \in s}
                     <=> w = "write" /\ n \in x
         /\ w \in {"reset", "report", "audio", "microphone", "write", "mark", "barrier",
                   "flush", "close"}
<1>1. \/ w = "reset" /\ x \in 1..MaxRecordings
      \/ w = "report" /\ x \in 1..MaxRecordings
      \/ w \in {"audio", "microphone"} /\ x \in Samples
      \/ w = "write" /\ x \in SUBSET Samples
      \/ w \in {"mark", "barrier", "flush", "close"} /\ x \in Callers
  BY DEF Jobs
<1>2. \A S, T : <<w, x>> \in S \X T <=> w \in S /\ x \in T  OBVIOUS
<1>3. /\ <<w, x>> \in AudioJobs <=> w \in {"audio", "microphone"} /\ x \in Samples
      /\ <<w, x>> \in WriteJobs <=> w = "write" /\ x \in SUBSET Samples
      /\ <<w, x>> \in ReportJobs <=> w = "report" /\ x \in 1..MaxRecordings
      /\ <<w, x>> \in ResetJobs <=> w = "reset" /\ x \in 1..MaxRecordings
  BY DEF AudioJobs, WriteJobs, ReportJobs, ResetJobs
<1>4. \A n : <<w, x>> \in {"write"} \X {s \in SUBSET Samples : n \in s}
              <=> w = "write" /\ x \in SUBSET Samples /\ n \in x
  BY <1>2
<1> QED  BY <1>1, <1>3, <1>4

\* What waits, and in which order, after a job is queued.
LEMMA Enqueued ==
  ASSUME queue \in Seq(Jobs), NEW w, NEW x, <<w, x>> \in Jobs, enqueue(w, x)
  PROVE  /\ queue' \in Seq(Jobs)
         /\ \A k, y : Waits(k, y)' <=> Waits(k, y) \/ (k = w /\ y = x)
         /\ \A k, y : WaitsOnce(k, y) /\ (k = w /\ y = x => ~Waits(k, y)) => WaitsOnce(k, y)'
         /\ AudioWaits' <=> AudioWaits \/ w \in {"audio", "microphone"}
         /\ WriteWaits' <=> WriteWaits \/ w = "write"
         /\ ReportWaits' <=> ReportWaits \/ w = "report"
         /\ ResetWaits' <=> ResetWaits \/ w = "reset"
         /\ \A n : IsToBeWritten(n)' <=> IsToBeWritten(n) \/ (w = "write" /\ n \in x)
         /\ Once(queue, ResetJobs) /\ (w = "reset" => ~ResetWaits) => Once(queue, ResetJobs)'
         /\ AudioIsFirst
              /\ (w \in {"audio", "microphone"} => \A c \in Callers : ~Waits("barrier", c))
            => AudioIsFirst'
         /\ WritesAreFirst /\ (w = "write" => \A c \in Callers : ~Waits("close", c))
            => WritesAreFirst'
         /\ ReportsAreFirst /\ (w = "report" => ~ResetWaits) => ReportsAreFirst'
         /\ \A c, d : ClosesBefore(d, c)
                        /\ (w = "close" /\ x = d => c # d /\ ~Waits("close", c))
                        => ClosesBefore(d, c)'
         /\ Cardinality(Writes(queue)) \in Nat
         /\ Cardinality(Writes(queue'))
              = Cardinality(Writes(queue)) + (IF w = "write" THEN 1 ELSE 0)
<1> DEFINE e == <<w, x>>
<1>1. /\ queue' = Append(queue, e) /\ e \in Jobs
      /\ queue' \in Seq(Jobs)
      /\ \A S : In(queue', S) <=> In(queue, S) \/ e \in S
      /\ \A S, T : Before(queue, S, T) /\ (e \in S => e \notin T /\ ~In(queue, T))
                     => Before(queue', S, T)
      /\ \A S : Once(queue, S) /\ (e \in S => ~In(queue, S)) => Once(queue', S)
  BY AppendJob DEF enqueue
<1>2. \A k, y : e \in {<<k, y>>} <=> k = w /\ y = x  OBVIOUS
<1>3. /\ e \in AudioJobs <=> w \in {"audio", "microphone"}
      /\ e \in WriteJobs <=> w = "write"
      /\ e \in ReportJobs <=> w = "report"
      /\ e \in ResetJobs <=> w = "reset"
      /\ \A n : e \in {"write"} \X {s \in SUBSET Samples : n \in s} <=> w = "write" /\ n \in x
  BY JobKinds
<1>4. e[1] = w  OBVIOUS
<1> HIDE DEF e
<1>5. \A k, y : Waits(k, y)' <=> Waits(k, y) \/ (k = w /\ y = x)
  BY <1>1, <1>2 DEF Waits
<1>6. \A k, y : WaitsOnce(k, y) /\ (k = w /\ y = x => ~Waits(k, y)) => WaitsOnce(k, y)'
  BY <1>1, <1>2 DEF Waits, WaitsOnce
<1>7. /\ AudioWaits' <=> AudioWaits \/ w \in {"audio", "microphone"}
      /\ WriteWaits' <=> WriteWaits \/ w = "write"
      /\ ReportWaits' <=> ReportWaits \/ w = "report"
      /\ ResetWaits' <=> ResetWaits \/ w = "reset"
      /\ \A n : IsToBeWritten(n)' <=> IsToBeWritten(n) \/ (w = "write" /\ n \in x)
  BY <1>1, <1>3 DEF AudioWaits, WriteWaits, ReportWaits, ResetWaits, IsToBeWritten
<1>8. Once(queue, ResetJobs) /\ (w = "reset" => ~ResetWaits) => Once(queue, ResetJobs)'
  BY <1>1, <1>3 DEF ResetWaits
<1>9. /\ w \in {"audio", "microphone"} => w # "barrier"
      /\ w = "write" => w # "close"
      /\ w = "report" => w # "reset"
  OBVIOUS
<1>10. AudioIsFirst
       /\ (w \in {"audio", "microphone"} => \A c \in Callers : ~Waits("barrier", c))
         => AudioIsFirst'
  BY <1>1, <1>2, <1>3, <1>9 DEF AudioIsFirst, Waits
<1>11. WritesAreFirst /\ (w = "write" => \A c \in Callers : ~Waits("close", c))
         => WritesAreFirst'
  BY <1>1, <1>2, <1>3, <1>9 DEF WritesAreFirst, Waits
<1>12. ReportsAreFirst /\ (w = "report" => ~ResetWaits) => ReportsAreFirst'
  BY <1>1, <1>3, <1>9 DEF ReportsAreFirst, ResetWaits
<1>13. \A c, d : ClosesBefore(d, c) /\ (w = "close" /\ x = d => c # d /\ ~Waits("close", c))
                   => ClosesBefore(d, c)'
  BY <1>1, <1>2 DEF ClosesBefore, Waits
<1>14. /\ Cardinality(Writes(queue)) \in Nat
       /\ Cardinality(Writes(queue'))
            = Cardinality(Writes(queue)) + (IF w = "write" THEN 1 ELSE 0)
  BY <1>1, <1>4, AppendWrite
<1> QED
  BY <1>1, <1>5, <1>6, <1>7, <1>8, <1>10, <1>11, <1>12, <1>13, <1>14

\* The job at the head of the queue, a `w`, is taken off it.
Dequeues(w) == Serving(w) /\ queue' = Tail(queue)

\* What waits, and in which order, after a job is taken.
LEMMA Served ==
  ASSUME queue \in Seq(Jobs), NEW w, Dequeues(w)
  PROVE  /\ queue' \in Seq(Jobs)
         /\ Waits(w, argument)
         /\ w \in {"audio", "microphone"} => argument \in Samples
         /\ w = "write" => argument \in SUBSET Samples
         /\ w \in {"report", "reset"} => argument \in 1..MaxRecordings
         /\ w \in {"mark", "barrier", "flush", "close"} => argument \in Callers
         /\ \A k, y : Waits(k, y) <=> Waits(k, y)' \/ (k = w /\ y = argument)
         /\ \A k, y : WaitsOnce(k, y) => WaitsOnce(k, y)'
         /\ \A y : y = argument /\ WaitsOnce(w, y) => ~Waits(w, y)'
         /\ AudioWaits <=> AudioWaits' \/ w \in {"audio", "microphone"}
         /\ WriteWaits <=> WriteWaits' \/ w = "write"
         /\ ReportWaits <=> ReportWaits' \/ w = "report"
         /\ ResetWaits <=> ResetWaits' \/ w = "reset"
         /\ \A n : IsToBeWritten(n) <=> IsToBeWritten(n)' \/ (w = "write" /\ n \in argument)
         /\ Once(queue, ResetJobs) => Once(queue, ResetJobs)' /\ (w = "reset" => ~ResetWaits')
         /\ AudioIsFirst => AudioIsFirst' /\ (w = "barrier" => ~AudioWaits)
         /\ WritesAreFirst => WritesAreFirst' /\ (w = "close" => ~WriteWaits)
         /\ ReportsAreFirst => ReportsAreFirst' /\ (w = "reset" => ~ReportWaits)
         /\ \A c, d : ClosesBefore(d, c)
                        => /\ ClosesBefore(d, c)'
                           /\ w = "close" /\ argument = c => ~Waits("close", d)
         /\ Cardinality(Writes(queue')) \in Nat
         /\ Cardinality(Writes(queue))
              = Cardinality(Writes(queue')) + (IF w = "write" THEN 1 ELSE 0)
<1> DEFINE x == argument
           e == <<w, x>>
<1>0. queue # << >> /\ Head(queue)[1] = w /\ queue' = Tail(queue)  BY DEF Dequeues, Serving
<1>a. Head(queue) \in Jobs  BY <1>0, TailJob
<1>b. Head(queue) = e  BY <1>0, <1>a DEF Jobs, argument
<1>1. /\ e \in Jobs
      /\ queue' \in Seq(Jobs)
      /\ \A S : In(queue, S) <=> e \in S \/ In(queue', S)
      /\ \A S, T : Before(queue, S, T) => Before(queue', S, T) /\ (e \in T => ~In(queue, S))
      /\ \A S : Once(queue, S) => Once(queue', S) /\ (e \in S => ~In(queue', S))
  <2> HIDE DEF e
  <2> QED  BY <1>0, <1>a, <1>b, TailJob
<1>2. \A k, y : e \in {<<k, y>>} <=> k = w /\ y = x  OBVIOUS
<1>3. /\ e \in AudioJobs <=> w \in {"audio", "microphone"}
      /\ e \in WriteJobs <=> w = "write"
      /\ e \in ReportJobs <=> w = "report"
      /\ e \in ResetJobs <=> w = "reset"
      /\ w \in {"audio", "microphone"} => x \in Samples
      /\ w = "write" => x \in SUBSET Samples
      /\ w \in {"report", "reset"} => x \in 1..MaxRecordings
      /\ w \in {"mark", "barrier", "flush", "close"} => x \in Callers
      /\ \A n : e \in {"write"} \X {s \in SUBSET Samples : n \in s} <=> w = "write" /\ n \in x
  BY <1>1, JobKinds
<1> HIDE DEF e, x
<1>5. \A k, y : Waits(k, y) <=> Waits(k, y)' \/ (k = w /\ y = x)
  BY <1>1, <1>2 DEF Waits
<1>6. /\ \A k, y : WaitsOnce(k, y) => WaitsOnce(k, y)'
      /\ \A y : y = x /\ WaitsOnce(w, y) => ~Waits(w, y)'
  BY <1>1, <1>2 DEF Waits, WaitsOnce
<1>7. /\ AudioWaits <=> AudioWaits' \/ w \in {"audio", "microphone"}
      /\ WriteWaits <=> WriteWaits' \/ w = "write"
      /\ ReportWaits <=> ReportWaits' \/ w = "report"
      /\ ResetWaits <=> ResetWaits' \/ w = "reset"
      /\ \A n : IsToBeWritten(n) <=> IsToBeWritten(n)' \/ (w = "write" /\ n \in x)
  BY <1>1, <1>3 DEF AudioWaits, WriteWaits, ReportWaits, ResetWaits, IsToBeWritten
<1>8. Once(queue, ResetJobs) => Once(queue, ResetJobs)' /\ (w = "reset" => ~ResetWaits')
  BY <1>1, <1>3 DEF ResetWaits
<1>10. AudioIsFirst => AudioIsFirst' /\ (w = "barrier" => ~AudioWaits)
  BY <1>1, <1>2, <1>3 DEF AudioIsFirst, AudioWaits
<1>11. WritesAreFirst => WritesAreFirst' /\ (w = "close" => ~WriteWaits)
  BY <1>1, <1>2, <1>3 DEF WritesAreFirst, WriteWaits
<1>12. ReportsAreFirst => ReportsAreFirst' /\ (w = "reset" => ~ReportWaits)
  BY <1>1, <1>3 DEF ReportsAreFirst, ReportWaits
<1>13. \A c, d : ClosesBefore(d, c)
                   => ClosesBefore(d, c)' /\ (w = "close" /\ x = c => ~Waits("close", d))
  BY <1>1, <1>2 DEF ClosesBefore, Waits
<1>14. /\ Cardinality(Writes(queue')) \in Nat
       /\ Cardinality(Writes(queue))
            = Cardinality(Writes(queue')) + (IF w = "write" THEN 1 ELSE 0)
  BY <1>0, TailWrite
<1>15. Waits(w, x)  BY <1>5
<1> QED
  BY <1>1, <1>3, <1>5, <1>6, <1>7, <1>8, <1>10, <1>11, <1>12, <1>13, <1>14, <1>15 DEF x


\* What a step leaves as it was of the jobs that wait.
AudioKept ==
  /\ AudioWaits' <=> AudioWaits
  /\ \A n : IsToPlay(n)' <=> IsToPlay(n)
  /\ AudioIsFirst => AudioIsFirst'
WritesKept ==
  /\ WriteWaits' <=> WriteWaits
  /\ \A n : IsToBeWritten(n)' <=> IsToBeWritten(n)
  /\ WritesAreFirst => WritesAreFirst'
  /\ Cardinality(Writes(queue)) \in Nat
  /\ Cardinality(Writes(queue')) = Cardinality(Writes(queue))
ResetKept ==
  /\ ResetWaits' <=> ResetWaits
  /\ Once(queue, ResetJobs) => Once(queue, ResetJobs)'
StopJobKept(what) ==
  \A c \in Callers : /\ Waits(what, c)' <=> Waits(what, c)
                     /\ WaitsOnce(what, c) => WaitsOnce(what, c)'
ClosesKept == \A c, d \in Callers : ClosesBefore(d, c) => ClosesBefore(d, c)'

\* The capture queue is as it was.
LEMMA QueueKept ==
  ASSUME queue \in Seq(Jobs), queue' = queue
  PROVE  /\ AudioKept /\ WritesKept /\ ResetKept /\ ClosesKept
         /\ \A k : StopJobKept(k)
         /\ \A r : Waits("report", r)' <=> Waits("report", r)
         /\ ReportsAreFirst' <=> ReportsAreFirst
<1>1. Cardinality(Writes(queue)) \in Nat  BY AppendWrite
<1>2. AudioKept
  BY DEF AudioKept, AudioWaits, IsToPlay, Waits, AudioIsFirst
<1>3. WritesKept
  BY <1>1 DEF WritesKept, WriteWaits, IsToBeWritten, WritesAreFirst
<1>4. ResetKept /\ ClosesKept
  BY DEF ResetKept, ResetWaits, ClosesKept, ClosesBefore
<1>5. \A k : StopJobKept(k)  BY DEF StopJobKept, Waits, WaitsOnce
<1>6. /\ \A r : Waits("report", r)' <=> Waits("report", r)
      /\ ReportsAreFirst' <=> ReportsAreFirst
  BY DEF Waits, ReportsAreFirst
<1> QED  BY <1>2, <1>3, <1>4, <1>5, <1>6

-----------------------------------------------------------------------------
(* The invariant.                                                           *)

\* How far a stop() has come.
PastAwait == {"stopping", "stopped", "barrier", "flush", "flushing", "drain", "draining",
              "tearing", "closing", "returned"}
PastStream == PastAwait \ {"stopping"}
PastBarrier == PastStream \ {"stopped", "barrier"}
PastFlush == PastBarrier \ {"flush", "flushing"}
PastDrain == PastFlush \ {"drain", "draining"}
TornDown == {"closing", "returned"}

\* Before the first recording there is nothing.
Begun ==
  recording = 0 => phase = "idle" /\ queue = << >> /\ startTask = "none" /\ capture = "off"
                   /\ died = {}

\* A stop waits for a job exactly as long as that job is on the queue, and the
\* queue keeps its orders.
JobsFollow ==
  /\ \A c \in Callers :
       /\ Waits("mark", c) <=> call[c] = "marking"
       /\ Waits("barrier", c) <=> call[c] = "barrier"
       /\ Waits("flush", c) <=> call[c] = "flushing"
       /\ Waits("close", c) <=> call[c] = "closing"
       /\ WaitsOnce("mark", c) /\ WaitsOnce("barrier", c) /\ WaitsOnce("flush", c)
       /\ WaitsOnce("close", c)
  /\ ResetWaits <=> phase = "starting"
  /\ Once(queue, ResetJobs)
  /\ AudioIsFirst /\ WritesAreFirst

\* Between two recordings nothing of the last one is left.
BetweenRecordings ==
  phase # "started" =>
    /\ \A c \in Callers : call[c] = "idle"
    /\ startTaskIsOver /\ ~stream /\ engine = "off" /\ ~echo
    /\ ~AudioWaits /\ ~WriteWaits /\ inHand = {}

\* A stream that may capture is the published one.
StreamIsKnown ==
  /\ startTask \in {"starting", "aborting"} => stream
  /\ capture = "on" => stream /\ startTask \in {"aborting", "done"}

\* What a stop has behind it: the start task, the stream, the samples on the
\* queue, the canceller, the engine, the writes.
StopsInOrder ==
  \A c \in Callers :
    /\ call[c] \in PastAwait => startTaskIsOver
    /\ call[c] \in PastStream => ~stream
    /\ call[c] \in PastBarrier => ~AudioWaits
    /\ call[c] \in PastFlush => echoHeld = {} /\ ~echo
    /\ call[c] \in TornDown => engine = "off" /\ inHand = {}
    /\ call[c] = "returned" => ~WriteWaits
    /\ call[c] \notin {"idle", "marking"} => isStopping

\* Only a stop takes the engine down.
EngineRuns ==
  /\ engine = "off" => \A p \in Players : scheduled[p] = {}
  /\ engine = "off" /\ phase = "started" => \E c \in Callers : call[c] \in TornDown

\* A gate that waits has resumed nobody, and the players that left it are empty.
GatesFit ==
  \A c \in Callers :
    /\ resumes[c] <= 1
    /\ gate[c].waiting => /\ call[c] = "draining" /\ resumes[c] = 0
                          /\ \A p \in Players \ gate[c].left : scheduled[p] = {}

\* A stop that says it drained left no player with samples; its diagnostics are
\* the count of drops of the whole recording.
DrainsFit ==
  phase = "started" => \A c \in Callers :
    /\ call[c] \notin PastDrain \cup {"draining"} => resumes[c] = 0
    /\ drained[c] => call[c] \in PastDrain /\ \A p \in Players : scheduled[p] = {}
    /\ call[c] = "returned" => diagnostics[c] = dropped

\* A sample the recorder is through with as far as the tracks go: in its track,
\* in a write that failed, or never readable.
Tracked(n) == n \in tracks \/ n \in trackErrors \/ n \in unreadable
\* A delivered sample is tracked, or with the canceller, or on its way.
TracksFit ==
  phase = "started" => \A n \in delivered :
    /\ Tracked(n) \/ n \in echoHeld \/ IsToPlay(n)
    /\ \A c \in Callers : call[c] \in PastFlush => Tracked(n)

\* A stop that tore down without draining, and closes before any that drained.
Wasted(d) ==
  /\ call[d] \in TornDown /\ ~drained[d]
  /\ \A c \in Callers : drained[c] /\ call[c] \in TornDown
       => call[d] = "returned" \/ (call[c] = "closing" /\ ClosesBefore(d, c))
\* A sample is on its way to the file, in it, in a write that failed, or was
\* never readable.
Somewhere(n) ==
  \/ IsToPlay(n) \/ n \in echoHeld \/ (\E p \in Players : n \in scheduled[p])
  \/ n \in inHand \/ IsToBeWritten(n) \/ n \in file \/ n \in writeErrors
  \/ n \in unreadable
\* If nothing was dropped and no stop gave up draining, no sample is lost.
SamplesFit ==
  phase = "started" =>
    dropped > 0 \/ (\E d \in Callers : Wasted(d)) \/ \A n \in delivered : Somewhere(n)

\* The inductive invariant.
IInv ==
  /\ TypeOK /\ Begun /\ JobsFollow /\ BetweenRecordings /\ StreamIsKnown /\ StopsInOrder
  /\ EngineRuns /\ GatesFit /\ DrainsFit /\ TracksFit /\ SamplesFit /\ SlotsAreInFlight

\* Where a failure is on its way, if the stream's death is reported before the
\* next start.
ReportsFit ==
  /\ \A r \in 1..MaxRecordings : Waits("report", r) =>
       (phase = "started" /\ r = recording) \/ (phase = "starting" /\ isStopping)
  /\ died # {} => phase = "started" /\ died = {recording}
  /\ ReportsAreFirst
  /\ \A i \in DOMAIN reported :
       /\ reported[i][1] = reported[i][2] /\ reported[i][1] <= recording
       /\ reported[i][1] = recording => phase = "started" /\ didReportFailure

\* A release keeps the count of slots at or above zero.
LEMMA ReleasedSlot == \A n \in Nat : Max({0, n - 1}) = IF n = 0 THEN 0 ELSE n - 1
<1> TAKE n \in Nat
<1> DEFINE S == {0, n - 1}
           m == IF n = 0 THEN 0 ELSE n - 1
<1>1. m \in S /\ \A y \in S : m >= y  OBVIOUS
<1>2. \A x \in S : (\A y \in S : x >= y) => x = m  OBVIOUS
<1> QED  BY <1>1, <1>2 DEF Max

\* A sample that is to be played waits on the queue.
LEMMA ToPlayWaits == \A n \in Samples : IsToPlay(n) => AudioWaits
<1>1. ASSUME NEW n \in Samples PROVE /\ <<"audio", n>> \in AudioJobs
                                       /\ <<"microphone", n>> \in AudioJobs
  BY DEF AudioJobs
<1> QED  BY <1>1 DEF IsToPlay, Waits, AudioWaits, In

\* A sample that is to be written waits on the queue, in a block.
LEMMA ToWriteWaits == \A n : IsToBeWritten(n) => WriteWaits
<1>1. ASSUME NEW n, NEW e \in {"write"} \X {s \in SUBSET Samples : n \in s}
      PROVE  e \in WriteJobs
  BY <1>1 DEF WriteJobs
<1> QED  BY <1>1 DEF IsToBeWritten, WriteWaits, In

\* A recording's report waits on the queue.
LEMMA ToReportWaits == \A r \in 1..MaxRecordings : Waits("report", r) => ReportWaits
<1>1. \A r \in 1..MaxRecordings : <<"report", r>> \in ReportJobs  BY DEF ReportJobs
<1> QED  BY <1>1 DEF Waits, ReportWaits, In

\* The writes that wait are counted.
LEMMA WritesCounted ==
  ASSUME queue \in Seq(Jobs)
  PROVE  Cardinality(Writes(queue)) \in Nat /\ (~WriteWaits => Cardinality(Writes(queue)) = 0)
<1>1. Cardinality(Writes(queue)) \in Nat  BY AppendWrite
<1>2. ASSUME ~WriteWaits PROVE Writes(queue) = {}
  <2>1. ASSUME NEW i \in DOMAIN queue, queue[i][1] = "write" PROVE queue[i] \in WriteJobs
    <3>1. queue[i] \in Jobs  OBVIOUS
    <3> QED  BY <2>1, <3>1 DEF Jobs, WriteJobs
  <2> QED  BY <1>2, <2>1 DEF Writes, WriteWaits, In
<1> QED  BY <1>1, <1>2, FS_EmptySet

\* Whether or not its track can be written, a scheduled sample is tracked.
LEMMA Scheduled ==
  ASSUME NEW system \in SUBSET Samples, NEW mic \in SUBSET Samples, schedule(system, mic),
         tracks \subseteq Samples, trackErrors \subseteq Samples, UNCHANGED unreadable
  PROVE  /\ scheduled' = [scheduled EXCEPT !["system"] = @ \cup system, !["mic"] = @ \cup mic]
         /\ tracks' \subseteq Samples /\ trackErrors' \subseteq Samples
         /\ \A n : Tracked(n)' <=> Tracked(n) \/ n \in system \/ n \in mic
<1>1. PICK lost \in FailedTrackWrites(system, mic) :
        /\ tracks' = tracks \cup ((system \cup mic) \ lost)
        /\ trackErrors' = trackErrors \cup lost
  BY DEF schedule
<1>2. lost \subseteq system \cup mic  BY DEF FailedTrackWrites
<1>3. scheduled' = [scheduled EXCEPT !["system"] = @ \cup system, !["mic"] = @ \cup mic]
  BY DEF schedule
<1> QED  BY <1>1, <1>2, <1>3 DEF Tracked

-----------------------------------------------------------------------------
(* Every step preserves the invariant.                                      *)

\* A start only queues the reset and raises the recording number; every stop has returned.
LEMMA StartPreserves ==
  ASSUME IInv, Start
  PROVE  IInv'
<1>1. /\ recording < MaxRecordings
      /\ phase = "idle" \/ (phase = "started" /\ \E c \in Callers : call[c] = "returned")
      /\ \A c \in Callers : call[c] \in {"idle", "returned"}
      /\ phase' = "starting"
      /\ recording' = recording + 1
      /\ enqueue("reset", recording + 1)
      /\ UNCHANGED <<isStopping, didReportFailure, reported, startTask, cancelled, stream,
                     capture, died, delivered, unreadable, echo, echoHeld, tracks,
                     trackErrors, engine, scheduled, inHand, pending, dropped, file,
                     writeErrors, gate, resumes, drained, diagnostics>>
  BY DEF Start, InStop, enqueue, queueVars, startVars, streamVars, echoVars, engineVars,
         mixVars, stopVars
<1>2. <<"reset", recording + 1>> \in Jobs /\ enqueue("reset", recording + 1)
  BY <1>1, BoundsAssumption DEF IInv, TypeOK, Begun, Jobs
<1>3. queue \in Seq(Jobs)  BY DEF IInv, TypeOK
<1>4. AudioKept /\ WritesKept /\ StopJobKept("mark") /\ StopJobKept("barrier") /\
      StopJobKept("flush") /\ StopJobKept("close") /\ ClosesKept
  BY <1>2, <1>3, Enqueued
  DEF AudioKept, WritesKept, StopJobKept, ClosesKept, IsToPlay
<1>5. /\ queue' \in Seq(Jobs)
      /\ ResetWaits'
      /\ Once(queue, ResetJobs) /\ ~ResetWaits => Once(queue, ResetJobs)'
  BY <1>2, <1>3, Enqueued
<1>6. call' = [c \in Callers |-> "idle"]
  BY DEF Start, InStop, enqueue
<1>7. \A d \in Callers : call'[d] = "idle"
  BY <1>6 DEF IInv, TypeOK
<1>8. StreamIsKnown'
  BY <1>1 DEF IInv, StreamIsKnown
<1>9. TypeOK'
  BY <1>1, <1>6, <1>5, BoundsAssumption DEF IInv, TypeOK, Begun
<1>10. Begun'
  BY <1>1, <1>7, <1>4, <1>5 DEF IInv, TypeOK, Begun
<1>11. JobsFollow'
  BY <1>1, <1>7, <1>4, <1>5 DEF IInv, TypeOK, JobsFollow, AudioKept, WritesKept, StopJobKept
<1>12. BetweenRecordings'
  BY <1>1, <1>7, <1>4, <1>5
  DEF IInv, TypeOK, BetweenRecordings, startTaskIsOver, AudioKept, WritesKept, StopsInOrder,
     PastAwait, PastStream, PastBarrier, PastFlush, TornDown
<1>13. StopsInOrder'
  BY <1>1, <1>7, <1>4, <1>5
  DEF IInv, TypeOK, StopsInOrder, startTaskIsOver, PastAwait, PastStream, PastBarrier,
     PastFlush, TornDown, AudioKept, WritesKept
<1>14. EngineRuns'
  BY <1>1, <1>7 DEF IInv, TypeOK, EngineRuns, TornDown
<1>15. GatesFit'
  BY <1>1, <1>7 DEF IInv, TypeOK, GatesFit
<1>16. DrainsFit'
  BY <1>1, <1>7
  DEF IInv, TypeOK, DrainsFit, PastAwait, PastStream, PastBarrier, PastFlush, PastDrain,
     TornDown
<1>17. TracksFit'
  BY <1>1, <1>7, <1>4, <1>5
  DEF IInv, TypeOK, TracksFit, Tracked, PastAwait, PastStream, PastBarrier, PastFlush,
     AudioKept
<1>18. SamplesFit'
  BY <1>1, <1>7, <1>4, <1>5
  DEF IInv, TypeOK, SamplesFit, Somewhere, Wasted, TornDown, AudioKept, WritesKept, ClosesKept
<1>19. SlotsAreInFlight'
  BY <1>1, <1>4, <1>5 DEF IInv, TypeOK, SlotsAreInFlight, Writes, WritesKept
<1> QED
  BY <1>8, <1>9, <1>10, <1>11, <1>12, <1>13, <1>14, <1>15, <1>16, <1>17, <1>18, <1>19
  DEF IInv

\* The reset clears the flags before the recording sets itself up.
LEMMA ResetRunsPreserves ==
  ASSUME IInv, ResetRuns
  PROVE  IInv'
<1>1. /\ Serving("reset")
      /\ queue' = Tail(queue)
      /\ didReportFailure' = FALSE
      /\ isStopping' = FALSE
      /\ phase' = "setup"
      /\ UNCHANGED <<recording, reported, startTask, cancelled, stream, capture, died,
                     delivered, unreadable, echo, echoHeld, tracks, trackErrors, engine,
                     scheduled, inHand, pending, dropped, file, writeErrors, call, gate,
                     resumes, drained, diagnostics>>
  BY DEF ResetRuns, resetFlags, queueVars, startVars, streamVars, echoVars, engineVars,
         mixVars, stopVars
<1>2. Dequeues("reset")  BY <1>1 DEF Dequeues
<1>3. queue \in Seq(Jobs)  BY DEF IInv, TypeOK
<1>4. argument \in 1..MaxRecordings
  BY <1>2, <1>3, Served DEF IInv, JobsFollow
<1>5. AudioKept /\ WritesKept /\ StopJobKept("mark") /\ StopJobKept("barrier") /\
      StopJobKept("flush") /\ StopJobKept("close") /\ ClosesKept
  BY <1>2, <1>3, Served
  DEF AudioKept, WritesKept, StopJobKept, ClosesKept, IsToPlay
<1>6. /\ queue' \in Seq(Jobs)
      /\ ResetWaits
      /\ Once(queue, ResetJobs) => ~ResetWaits' /\ Once(queue, ResetJobs)'
  BY <1>2, <1>3, Served
<1>7. StreamIsKnown' /\ GatesFit'
  BY <1>1 DEF IInv, StreamIsKnown, GatesFit
<1>8. TypeOK'
  BY <1>1, <1>6, <1>4 DEF IInv, TypeOK
<1>9. Begun'
  BY <1>1, <1>5, <1>6, <1>4 DEF IInv, TypeOK, Begun
<1>10. JobsFollow'
  BY <1>1, <1>5, <1>6, <1>4 DEF IInv, TypeOK, JobsFollow, AudioKept, WritesKept, StopJobKept
<1>11. BetweenRecordings'
  BY <1>1, <1>5, <1>6, <1>4
  DEF IInv, TypeOK, BetweenRecordings, startTaskIsOver, AudioKept, WritesKept, JobsFollow
<1>12. StopsInOrder'
  BY <1>1, <1>5, <1>6, <1>4
  DEF IInv, TypeOK, StopsInOrder, startTaskIsOver, PastAwait, PastStream, PastBarrier,
     PastFlush, TornDown, AudioKept, WritesKept, BetweenRecordings, JobsFollow
<1>13. EngineRuns'
  BY <1>1, <1>4 DEF IInv, TypeOK, EngineRuns, TornDown
<1>14. DrainsFit'
  BY <1>1, <1>4
  DEF IInv, TypeOK, DrainsFit, PastAwait, PastStream, PastBarrier, PastFlush, PastDrain,
     TornDown
<1>15. TracksFit'
  BY <1>1, <1>5, <1>6, <1>4
  DEF IInv, TypeOK, TracksFit, Tracked, PastAwait, PastStream, PastBarrier, PastFlush,
     AudioKept
<1>16. SamplesFit'
  BY <1>1, <1>5, <1>6, <1>4
  DEF IInv, TypeOK, SamplesFit, Somewhere, Wasted, TornDown, AudioKept, WritesKept, ClosesKept
<1>17. SlotsAreInFlight'
  BY <1>1, <1>5, <1>6 DEF IInv, TypeOK, SlotsAreInFlight, Writes, WritesKept
<1> QED
  BY <1>7, <1>8, <1>9, <1>10, <1>11, <1>12, <1>13, <1>14, <1>15, <1>16, <1>17
  DEF IInv

\* Setting up empties the books of the last recording; nothing of it is on the queue.
LEMMA StartEnginePreserves ==
  ASSUME IInv, StartEngine
  PROVE  IInv'
<1>1. /\ phase = "setup"
      /\ phase' = "started"
      /\ pending' = 0
      /\ dropped' = 0
      /\ engine' = "on"
      /\ echo' \in BOOLEAN
      /\ echoHeld' = {}
      /\ tracks' = {}
      /\ trackErrors' = {}
      /\ unreadable' = {}
      /\ startTask' = "content"
      /\ cancelled' = FALSE
      /\ capture' = "off"
      /\ delivered' = {}
      /\ file' = {}
      /\ writeErrors' = {}
      /\ UNCHANGED <<recording, queue, isStopping, didReportFailure, reported, stream, died,
                      inHand, call>>
  BY DEF StartEngine, resetBackpressure, queueVars, startVars, streamVars, echoVars,
         engineVars, mixVars, stopVars
<1>2. queue' = queue  BY <1>1
<1>3. queue \in Seq(Jobs)  BY DEF IInv, TypeOK
<1>4. AudioKept /\ WritesKept /\ ResetKept /\ StopJobKept("mark") /\
      StopJobKept("barrier") /\ StopJobKept("flush") /\ StopJobKept("close") /\ ClosesKept
  BY <1>2, <1>3, QueueKept
<1>5. /\ scheduled' = [p \in Players |-> {}]
      /\ resumes' = [c \in Callers |-> 0]
      /\ drained' = [c \in Callers |-> FALSE]
      /\ diagnostics' = [c \in Callers |-> 0]
      /\ gate' = [c \in Callers |-> [left |-> {}, waiting |-> FALSE]]
  BY DEF StartEngine, resetBackpressure
<1>6. /\ \A p \in Players : scheduled'[p] = {}
      /\ \A d \in Callers : resumes'[d] = 0
      /\ \A d \in Callers : drained'[d] = FALSE
      /\ \A d \in Callers : diagnostics'[d] = 0
      /\ \A d \in Callers : ~gate'[d].waiting
  BY <1>5 DEF IInv, TypeOK, Players
<1>7. TypeOK'
  BY <1>1, <1>5 DEF IInv, TypeOK, Players
<1>8. Begun'
  BY <1>1, <1>6, <1>4 DEF IInv, TypeOK, Begun
<1>9. JobsFollow'
  BY <1>1, <1>6, <1>4
  DEF IInv, TypeOK, JobsFollow, AudioKept, WritesKept, ResetKept, StopJobKept
<1>10. BetweenRecordings'
  BY <1>1, <1>6, <1>4
  DEF IInv, TypeOK, BetweenRecordings, startTaskIsOver, AudioKept, WritesKept
<1>11. StreamIsKnown'
  BY <1>1, <1>6 DEF IInv, TypeOK, StreamIsKnown
<1>12. StopsInOrder'
  BY <1>1, <1>6, <1>4
  DEF IInv, TypeOK, StopsInOrder, startTaskIsOver, PastAwait, PastStream, PastBarrier,
     PastFlush, TornDown, AudioKept, WritesKept, BetweenRecordings
<1>13. EngineRuns'
  BY <1>1, <1>6 DEF IInv, TypeOK, EngineRuns, TornDown
<1>14. GatesFit'
  BY <1>1, <1>6 DEF IInv, TypeOK, GatesFit
<1>15. DrainsFit'
  BY <1>1, <1>6
  DEF IInv, TypeOK, DrainsFit, PastAwait, PastStream, PastBarrier, PastFlush, PastDrain,
     TornDown
<1>16. TracksFit'
  BY <1>1, <1>6, <1>4
  DEF IInv, TypeOK, TracksFit, Tracked, PastAwait, PastStream, PastBarrier, PastFlush,
     AudioKept
<1>17. SamplesFit'
  BY <1>1, <1>6, <1>4
  DEF IInv, TypeOK, SamplesFit, Somewhere, Wasted, TornDown, AudioKept, WritesKept, ClosesKept
<1>18. SlotsAreInFlight'
  BY <1>1, <1>4, <1>3, WritesCounted
  DEF IInv, TypeOK, SlotsAreInFlight, Writes, WritesKept, BetweenRecordings, startTaskIsOver
<1> QED
  BY <1>7, <1>8, <1>9, <1>10, <1>11, <1>12, <1>13, <1>14, <1>15, <1>16, <1>17, <1>18
  DEF IInv

\* A set-up that fails leaves the recorder idle.
LEMMA StartFailsPreserves ==
  ASSUME IInv, StartFails
  PROVE  IInv'
<1>1. /\ phase = "setup"
      /\ phase' = "idle"
      /\ pending' = 0
      /\ dropped' = 0
      /\ engine' = "off"
      /\ echo' = FALSE
      /\ UNCHANGED <<recording, queue, isStopping, didReportFailure, reported, startTask,
                     cancelled, stream, capture, died, delivered, unreadable, echoHeld,
                     tracks, trackErrors, inHand, file, writeErrors, call, gate, resumes,
                     drained, diagnostics>>
  BY DEF StartFails, resetBackpressure, queueVars, startVars, streamVars, echoVars,
         engineVars, mixVars, stopVars
<1>2. queue' = queue  BY <1>1
<1>3. queue \in Seq(Jobs)  BY DEF IInv, TypeOK
<1>4. AudioKept /\ WritesKept /\ ResetKept /\ StopJobKept("mark") /\
      StopJobKept("barrier") /\ StopJobKept("flush") /\ StopJobKept("close") /\ ClosesKept
  BY <1>2, <1>3, QueueKept
<1>5. scheduled' = [p \in Players |-> {}]
  BY DEF StartFails, resetBackpressure
<1>6. \A p \in Players : scheduled'[p] = {}
  BY <1>5 DEF IInv, TypeOK, Players
<1>7. StreamIsKnown'
  BY <1>1 DEF IInv, StreamIsKnown
<1>8. TypeOK'
  BY <1>1, <1>5 DEF IInv, TypeOK, Players
<1>9. Begun'
  BY <1>1, <1>6, <1>4 DEF IInv, TypeOK, Begun
<1>10. JobsFollow'
  BY <1>1, <1>6, <1>4
  DEF IInv, TypeOK, JobsFollow, AudioKept, WritesKept, ResetKept, StopJobKept
<1>11. BetweenRecordings'
  BY <1>1, <1>6, <1>4
  DEF IInv, TypeOK, BetweenRecordings, startTaskIsOver, AudioKept, WritesKept
<1>12. StopsInOrder'
  BY <1>1, <1>6, <1>4
  DEF IInv, TypeOK, StopsInOrder, startTaskIsOver, PastAwait, PastStream, PastBarrier,
     PastFlush, TornDown, AudioKept, WritesKept
<1>13. EngineRuns'
  BY <1>1, <1>6 DEF IInv, TypeOK, EngineRuns, TornDown
<1>14. GatesFit'
  BY <1>1, <1>6 DEF IInv, TypeOK, GatesFit
<1>15. DrainsFit'
  BY <1>1, <1>6
  DEF IInv, TypeOK, DrainsFit, PastAwait, PastStream, PastBarrier, PastFlush, PastDrain,
     TornDown
<1>16. TracksFit'
  BY <1>1, <1>6, <1>4
  DEF IInv, TypeOK, TracksFit, Tracked, PastAwait, PastStream, PastBarrier, PastFlush,
     AudioKept
<1>17. SamplesFit'
  BY <1>1, <1>6, <1>4
  DEF IInv, TypeOK, SamplesFit, Somewhere, Wasted, TornDown, AudioKept, WritesKept, ClosesKept
<1>18. SlotsAreInFlight'
  BY <1>1, <1>4, <1>3, WritesCounted
  DEF IInv, TypeOK, SlotsAreInFlight, Writes, WritesKept, BetweenRecordings, startTaskIsOver
<1> QED
  BY <1>7, <1>8, <1>9, <1>10, <1>11, <1>12, <1>13, <1>14, <1>15, <1>16, <1>17, <1>18
  DEF IInv

\* A cancelled start task ends before it has published a stream.
LEMMA ContentGivesUpPreserves ==
  ASSUME IInv, ContentArrives, ~StartTaskThrows, cancelled
  PROVE  IInv'
<1>1. /\ startTask = "content"
      /\ startTask' = "done"
      /\ UNCHANGED <<recording, phase, queue, isStopping, didReportFailure, reported,
                     cancelled, stream, capture, died, delivered, unreadable, echo, echoHeld,
                     tracks, trackErrors, engine, scheduled, inHand, pending, dropped, file,
                     writeErrors, call, gate, resumes, drained, diagnostics>>
  BY DEF ContentArrives, queueVars, startVars, streamVars, echoVars, engineVars, mixVars,
         stopVars
<1>2. queue' = queue  BY <1>1
<1>3. queue \in Seq(Jobs)  BY DEF IInv, TypeOK
<1>4. AudioKept /\ WritesKept /\ ResetKept /\ StopJobKept("mark") /\
      StopJobKept("barrier") /\ StopJobKept("flush") /\ StopJobKept("close") /\ ClosesKept
  BY <1>2, <1>3, QueueKept
<1>5. EngineRuns' /\ GatesFit' /\ DrainsFit'
  BY <1>1 DEF IInv, EngineRuns, GatesFit, DrainsFit
<1>6. JobsFollow' /\ TracksFit' /\ SamplesFit' /\ SlotsAreInFlight'
  BY <1>1, <1>4
  DEF IInv, JobsFollow, TracksFit, Tracked, SamplesFit, SlotsAreInFlight, AudioKept,
     WritesKept, ResetKept, StopJobKept, ClosesKept, Writes, Somewhere, Wasted
<1>7. TypeOK'
  BY <1>1 DEF IInv, TypeOK
<1>8. Begun'
  BY <1>1, <1>4 DEF IInv, TypeOK, Begun
<1>9. BetweenRecordings'
  BY <1>1, <1>4 DEF IInv, TypeOK, BetweenRecordings, startTaskIsOver, AudioKept, WritesKept
<1>10. StreamIsKnown'
  BY <1>1 DEF IInv, TypeOK, StreamIsKnown
<1>11. StopsInOrder'
  BY <1>1, <1>4
  DEF IInv, TypeOK, StopsInOrder, startTaskIsOver, PastAwait, PastStream, PastBarrier,
     PastFlush, TornDown, AudioKept, WritesKept
<1> QED  BY <1>5, <1>6, <1>7, <1>8, <1>9, <1>10, <1>11 DEF IInv

\* The stream is published while the start task runs.
LEMMA ContentPublishesPreserves ==
  ASSUME IInv, ContentArrives, ~StartTaskThrows, ~cancelled
  PROVE  IInv'
<1>1. /\ startTask = "content"
      /\ startTask' = "starting"
      /\ stream'
      /\ UNCHANGED <<recording, phase, queue, isStopping, didReportFailure, reported,
                     cancelled, capture, died, delivered, unreadable, echo, echoHeld, tracks,
                     trackErrors, engine, scheduled, inHand, pending, dropped, file,
                     writeErrors, call, gate, resumes, drained, diagnostics>>
  BY DEF ContentArrives, queueVars, startVars, streamVars, echoVars, engineVars, mixVars,
         stopVars
<1>2. queue' = queue  BY <1>1
<1>3. queue \in Seq(Jobs)  BY DEF IInv, TypeOK
<1>4. AudioKept /\ WritesKept /\ ResetKept /\ StopJobKept("mark") /\
      StopJobKept("barrier") /\ StopJobKept("flush") /\ StopJobKept("close") /\ ClosesKept
  BY <1>2, <1>3, QueueKept
<1>5. EngineRuns' /\ GatesFit' /\ DrainsFit'
  BY <1>1 DEF IInv, EngineRuns, GatesFit, DrainsFit
<1>6. JobsFollow' /\ TracksFit' /\ SamplesFit' /\ SlotsAreInFlight'
  BY <1>1, <1>4
  DEF IInv, JobsFollow, TracksFit, Tracked, SamplesFit, SlotsAreInFlight, AudioKept,
     WritesKept, ResetKept, StopJobKept, ClosesKept, Writes, Somewhere, Wasted
<1>7. TypeOK'
  BY <1>1 DEF IInv, TypeOK
<1>8. Begun'
  BY <1>1, <1>4 DEF IInv, TypeOK, Begun
<1>9. BetweenRecordings'
  BY <1>1, <1>4 DEF IInv, TypeOK, BetweenRecordings, startTaskIsOver, AudioKept, WritesKept
<1>10. StreamIsKnown'
  BY <1>1 DEF IInv, TypeOK, StreamIsKnown
<1>11. StopsInOrder'
  BY <1>1, <1>4
  DEF IInv, TypeOK, StopsInOrder, startTaskIsOver, PastAwait, PastStream, PastBarrier,
     PastFlush, TornDown, AudioKept, WritesKept
<1> QED  BY <1>5, <1>6, <1>7, <1>8, <1>9, <1>10, <1>11 DEF IInv

\* A failed query for content ends the start task and queues a report.
LEMMA ContentThrowsPreserves ==
  ASSUME IInv, ContentArrives, StartTaskThrows
  PROVE  IInv'
<1>1. /\ startTask = "content"
      /\ startTask' = "done"
      /\ enqueue("report", recording)
      /\ UNCHANGED <<recording, phase, isStopping, didReportFailure, reported, cancelled,
                     stream, capture, died, delivered, unreadable, echo, echoHeld, tracks,
                     trackErrors, engine, scheduled, inHand, pending, dropped, file,
                     writeErrors, call, gate, resumes, drained, diagnostics>>
  BY DEF ContentArrives, StartTaskThrows, enqueue, queueVars, startVars, streamVars,
         echoVars, engineVars, mixVars, stopVars
<1>2. <<"report", recording>> \in Jobs /\ enqueue("report", recording)
  BY <1>1, BoundsAssumption DEF IInv, TypeOK, Begun, Jobs
<1>3. queue \in Seq(Jobs)  BY DEF IInv, TypeOK
<1>4. AudioKept /\ WritesKept /\ ResetKept /\ StopJobKept("mark") /\
      StopJobKept("barrier") /\ StopJobKept("flush") /\ StopJobKept("close") /\ ClosesKept
  BY <1>2, <1>3, Enqueued
  DEF AudioKept, WritesKept, ResetKept, StopJobKept, ClosesKept, IsToPlay
<1>5. queue' \in Seq(Jobs)
  BY <1>2, <1>3, Enqueued
<1>6. EngineRuns' /\ GatesFit' /\ DrainsFit'
  BY <1>1 DEF IInv, EngineRuns, GatesFit, DrainsFit
<1>7. TypeOK'
  BY <1>1, <1>5 DEF IInv, TypeOK
<1>8. Begun'
  BY <1>1, <1>4, <1>5 DEF IInv, TypeOK, Begun
<1>9. JobsFollow'
  BY <1>1, <1>4, <1>5
  DEF IInv, TypeOK, JobsFollow, AudioKept, WritesKept, ResetKept, StopJobKept
<1>10. BetweenRecordings'
  BY <1>1, <1>4, <1>5
  DEF IInv, TypeOK, BetweenRecordings, startTaskIsOver, AudioKept, WritesKept
<1>11. StreamIsKnown'
  BY <1>1 DEF IInv, TypeOK, StreamIsKnown
<1>12. StopsInOrder'
  BY <1>1, <1>4, <1>5
  DEF IInv, TypeOK, StopsInOrder, startTaskIsOver, PastAwait, PastStream, PastBarrier,
     PastFlush, TornDown, AudioKept, WritesKept
<1>13. TracksFit'
  BY <1>1, <1>4, <1>5
  DEF IInv, TypeOK, TracksFit, Tracked, PastAwait, PastStream, PastBarrier, PastFlush,
     AudioKept
<1>14. SamplesFit'
  BY <1>1, <1>4, <1>5
  DEF IInv, TypeOK, SamplesFit, Somewhere, Wasted, TornDown, AudioKept, WritesKept, ClosesKept
<1>15. SlotsAreInFlight'
  BY <1>1, <1>4, <1>5 DEF IInv, TypeOK, SlotsAreInFlight, Writes, WritesKept
<1> QED  BY <1>6, <1>7, <1>8, <1>9, <1>10, <1>11, <1>12, <1>13, <1>14, <1>15 DEF IInv

\* Capture begins with the stream published; a cancelled start task goes on to abort it.
LEMMA CaptureStartsPreserves ==
  ASSUME IInv, CaptureStarts, ~StartTaskThrows
  PROVE  IInv'
<1>1. /\ startTask = "starting"
      /\ capture' = "on"
      /\ startTask' \in {"aborting", "done"}
      /\ UNCHANGED <<recording, phase, queue, isStopping, didReportFailure, reported,
                     cancelled, stream, died, delivered, unreadable, echo, echoHeld, tracks,
                     trackErrors, engine, scheduled, inHand, pending, dropped, file,
                     writeErrors, call, gate, resumes, drained, diagnostics>>
  BY DEF CaptureStarts, afterStartCapture, queueVars, startVars, streamVars, echoVars,
         engineVars, mixVars, stopVars
<1>2. queue' = queue  BY <1>1
<1>3. queue \in Seq(Jobs)  BY DEF IInv, TypeOK
<1>4. AudioKept /\ WritesKept /\ ResetKept /\ StopJobKept("mark") /\
      StopJobKept("barrier") /\ StopJobKept("flush") /\ StopJobKept("close") /\ ClosesKept
  BY <1>2, <1>3, QueueKept
<1>5. EngineRuns' /\ GatesFit' /\ DrainsFit'
  BY <1>1 DEF IInv, EngineRuns, GatesFit, DrainsFit
<1>6. JobsFollow' /\ TracksFit' /\ SamplesFit' /\ SlotsAreInFlight'
  BY <1>1, <1>4
  DEF IInv, JobsFollow, TracksFit, Tracked, SamplesFit, SlotsAreInFlight, AudioKept,
     WritesKept, ResetKept, StopJobKept, ClosesKept, Writes, Somewhere, Wasted
<1>7. TypeOK'
  BY <1>1 DEF IInv, TypeOK
<1>8. Begun'
  BY <1>1, <1>4 DEF IInv, TypeOK, Begun
<1>9. BetweenRecordings'
  BY <1>1, <1>4 DEF IInv, TypeOK, BetweenRecordings, startTaskIsOver, AudioKept, WritesKept
<1>10. StreamIsKnown'
  BY <1>1 DEF IInv, TypeOK, StreamIsKnown
<1>11. StopsInOrder'
  BY <1>1, <1>4
  DEF IInv, TypeOK, StopsInOrder, startTaskIsOver, PastAwait, PastStream, PastBarrier,
     PastFlush, TornDown, AudioKept, WritesKept
<1> QED  BY <1>5, <1>6, <1>7, <1>8, <1>9, <1>10, <1>11 DEF IInv

\* A failed start of the capture ends the start task and queues a report.
LEMMA CaptureThrowsPreserves ==
  ASSUME IInv, CaptureStarts, StartTaskThrows
  PROVE  IInv'
<1>1. /\ startTask = "starting"
      /\ startTask' = "done"
      /\ enqueue("report", recording)
      /\ died' \in {died, died \cup {recording}}
      /\ UNCHANGED <<recording, phase, isStopping, didReportFailure, reported, cancelled,
                     stream, capture, delivered, unreadable, echo, echoHeld, tracks,
                     trackErrors, engine, scheduled, inHand, pending, dropped, file,
                     writeErrors, call, gate, resumes, drained, diagnostics>>
  BY DEF CaptureStarts, StartTaskThrows, enqueue, afterStartCapture, queueVars, startVars,
         streamVars, echoVars, engineVars, mixVars, stopVars
<1>2. <<"report", recording>> \in Jobs /\ enqueue("report", recording)
  BY <1>1, BoundsAssumption DEF IInv, TypeOK, Begun, Jobs
<1>3. queue \in Seq(Jobs)  BY DEF IInv, TypeOK
<1>4. AudioKept /\ WritesKept /\ ResetKept /\ StopJobKept("mark") /\
      StopJobKept("barrier") /\ StopJobKept("flush") /\ StopJobKept("close") /\ ClosesKept
  BY <1>2, <1>3, Enqueued
  DEF AudioKept, WritesKept, ResetKept, StopJobKept, ClosesKept, IsToPlay
<1>5. queue' \in Seq(Jobs)
  BY <1>2, <1>3, Enqueued
<1>6. EngineRuns' /\ GatesFit' /\ DrainsFit'
  BY <1>1 DEF IInv, EngineRuns, GatesFit, DrainsFit
<1>7. TypeOK'
  BY <1>1, <1>5, BoundsAssumption DEF IInv, TypeOK, Begun
<1>8. Begun'
  BY <1>1, <1>4, <1>5 DEF IInv, TypeOK, Begun
<1>9. JobsFollow'
  BY <1>1, <1>4, <1>5
  DEF IInv, TypeOK, JobsFollow, AudioKept, WritesKept, ResetKept, StopJobKept
<1>10. BetweenRecordings'
  BY <1>1, <1>4, <1>5
  DEF IInv, TypeOK, BetweenRecordings, startTaskIsOver, AudioKept, WritesKept
<1>11. StreamIsKnown'
  BY <1>1 DEF IInv, TypeOK, StreamIsKnown
<1>12. StopsInOrder'
  BY <1>1, <1>4, <1>5
  DEF IInv, TypeOK, StopsInOrder, startTaskIsOver, PastAwait, PastStream, PastBarrier,
     PastFlush, TornDown, AudioKept, WritesKept
<1>13. TracksFit'
  BY <1>1, <1>4, <1>5
  DEF IInv, TypeOK, TracksFit, Tracked, PastAwait, PastStream, PastBarrier, PastFlush,
     AudioKept
<1>14. SamplesFit'
  BY <1>1, <1>4, <1>5
  DEF IInv, TypeOK, SamplesFit, Somewhere, Wasted, TornDown, AudioKept, WritesKept, ClosesKept
<1>15. SlotsAreInFlight'
  BY <1>1, <1>4, <1>5 DEF IInv, TypeOK, SlotsAreInFlight, Writes, WritesKept
<1> QED  BY <1>6, <1>7, <1>8, <1>9, <1>10, <1>11, <1>12, <1>13, <1>14, <1>15 DEF IInv

\* A start task that aborts takes its stream back.
LEMMA StartAbortedPreserves ==
  ASSUME IInv, StartAborted
  PROVE  IInv'
<1>1. /\ startTask = "aborting"
      /\ startTask' = "done"
      /\ stream' = FALSE
      /\ capture' = IF capture = "on" THEN "off" ELSE capture
      /\ UNCHANGED <<recording, phase, queue, isStopping, didReportFailure, reported,
                     cancelled, died, delivered, unreadable, echo, echoHeld, tracks,
                     trackErrors, engine, scheduled, inHand, pending, dropped, file,
                     writeErrors, call, gate, resumes, drained, diagnostics>>
  BY DEF StartAborted, queueVars, startVars, streamVars, echoVars, engineVars, mixVars,
         stopVars
<1>2. queue' = queue  BY <1>1
<1>3. queue \in Seq(Jobs)  BY DEF IInv, TypeOK
<1>4. AudioKept /\ WritesKept /\ ResetKept /\ StopJobKept("mark") /\
      StopJobKept("barrier") /\ StopJobKept("flush") /\ StopJobKept("close") /\ ClosesKept
  BY <1>2, <1>3, QueueKept
<1>5. EngineRuns' /\ GatesFit' /\ DrainsFit'
  BY <1>1 DEF IInv, EngineRuns, GatesFit, DrainsFit
<1>6. JobsFollow' /\ TracksFit' /\ SamplesFit' /\ SlotsAreInFlight'
  BY <1>1, <1>4
  DEF IInv, JobsFollow, TracksFit, Tracked, SamplesFit, SlotsAreInFlight, AudioKept,
     WritesKept, ResetKept, StopJobKept, ClosesKept, Writes, Somewhere, Wasted
<1>7. TypeOK'
  BY <1>1 DEF IInv, TypeOK
<1>8. Begun'
  BY <1>1, <1>4 DEF IInv, TypeOK, Begun
<1>9. BetweenRecordings'
  BY <1>1, <1>4 DEF IInv, TypeOK, BetweenRecordings, startTaskIsOver, AudioKept, WritesKept
<1>10. StreamIsKnown'
  BY <1>1 DEF IInv, TypeOK, StreamIsKnown
<1>11. StopsInOrder'
  BY <1>1, <1>4
  DEF IInv, TypeOK, StopsInOrder, startTaskIsOver, PastAwait, PastStream, PastBarrier,
     PastFlush, TornDown, AudioKept, WritesKept
<1> QED  BY <1>5, <1>6, <1>7, <1>8, <1>9, <1>10, <1>11 DEF IInv

\* A sample is delivered only while the stream is live, so no stop is past its barrier.
LEMMA DeliverPreserves ==
  ASSUME IInv, NEW n \in Samples, NEW kind \in {"audio", "microphone"}, Deliver(n, kind)
  PROVE  IInv'
<1>1. /\ capture = "on"
      /\ delivered' = delivered \cup {n}
      /\ enqueue(kind, n)
      /\ UNCHANGED <<recording, phase, isStopping, didReportFailure, reported, startTask,
                      cancelled, stream, capture, died, unreadable, echo, echoHeld, tracks,
                      trackErrors, engine, scheduled, inHand, pending, dropped, file,
                      writeErrors, call, gate, resumes, drained, diagnostics>>
  BY DEF Deliver, queueVars, startVars, streamVars, echoVars, engineVars, mixVars, stopVars
<1>2. <<kind, n>> \in Jobs /\ enqueue(kind, n)
  BY <1>1, BoundsAssumption DEF IInv, TypeOK, Begun, Jobs
<1>3. queue \in Seq(Jobs)  BY DEF IInv, TypeOK
<1>4. WritesKept /\ ResetKept /\ StopJobKept("mark") /\ StopJobKept("barrier") /\
      StopJobKept("flush") /\ StopJobKept("close") /\ ClosesKept
  BY <1>2, <1>3, Enqueued
  DEF WritesKept, ResetKept, StopJobKept, ClosesKept
<1>5. /\ queue' \in Seq(Jobs)
      /\ AudioWaits'
      /\ \A m : IsToPlay(m)' <=> IsToPlay(m) \/ m = n
      /\ AudioIsFirst /\ (\A d \in Callers : ~Waits("barrier", d)) => AudioIsFirst'
  BY <1>2, <1>3, Enqueued DEF IsToPlay
<1>6. StreamIsKnown' /\ EngineRuns' /\ GatesFit' /\ DrainsFit'
  BY <1>1 DEF IInv, StreamIsKnown, EngineRuns, GatesFit, DrainsFit
<1>7. TypeOK'
  BY <1>1, <1>5 DEF IInv, TypeOK
<1>8. Begun'
  BY <1>1, <1>4, <1>5 DEF IInv, TypeOK, Begun
<1>9. JobsFollow'
  BY <1>1, <1>4, <1>5
  DEF IInv, TypeOK, JobsFollow, WritesKept, ResetKept, StopJobKept, StreamIsKnown,
     StopsInOrder, PastAwait, PastStream, PastBarrier, PastFlush, TornDown
<1>10. BetweenRecordings'
  BY <1>1, <1>4, <1>5
  DEF IInv, TypeOK, BetweenRecordings, startTaskIsOver, WritesKept, StreamIsKnown
<1>11. StopsInOrder'
  BY <1>1, <1>4, <1>5
  DEF IInv, TypeOK, StopsInOrder, startTaskIsOver, PastAwait, PastStream, PastBarrier,
     PastFlush, TornDown, WritesKept, StreamIsKnown
<1>12. TracksFit'
  BY <1>1, <1>4, <1>5
  DEF IInv, TypeOK, TracksFit, Tracked, PastAwait, PastStream, PastBarrier, PastFlush,
     StreamIsKnown, StopsInOrder
<1>13. SamplesFit'
  BY <1>1, <1>4, <1>5
  DEF IInv, TypeOK, SamplesFit, Somewhere, Wasted, TornDown, WritesKept, ClosesKept
<1>14. SlotsAreInFlight'
  BY <1>1, <1>4, <1>5 DEF IInv, TypeOK, SlotsAreInFlight, Writes, WritesKept
<1> QED  BY <1>6, <1>7, <1>8, <1>9, <1>10, <1>11, <1>12, <1>13, <1>14 DEF IInv

\* A stream that dies delivers nothing more.
LEMMA StreamDiesPreserves ==
  ASSUME IInv, StreamDies
  PROVE  IInv'
<1>1. /\ capture = "on"
      /\ capture' = "dead"
      /\ died' = died \cup {recording}
      /\ UNCHANGED <<recording, phase, queue, isStopping, didReportFailure, reported,
                     startTask, cancelled, stream, delivered, unreadable, echo, echoHeld,
                     tracks, trackErrors, engine, scheduled, inHand, pending, dropped, file,
                     writeErrors, call, gate, resumes, drained, diagnostics>>
  BY DEF StreamDies, queueVars, startVars, streamVars, echoVars, engineVars, mixVars,
         stopVars
<1>2. queue' = queue  BY <1>1
<1>3. queue \in Seq(Jobs)  BY DEF IInv, TypeOK
<1>4. AudioKept /\ WritesKept /\ ResetKept /\ StopJobKept("mark") /\
      StopJobKept("barrier") /\ StopJobKept("flush") /\ StopJobKept("close") /\ ClosesKept
  BY <1>2, <1>3, QueueKept
<1>5. EngineRuns' /\ GatesFit' /\ DrainsFit'
  BY <1>1 DEF IInv, EngineRuns, GatesFit, DrainsFit
<1>6. /\ JobsFollow' /\ BetweenRecordings' /\ StopsInOrder' /\ TracksFit' /\ SamplesFit'
      /\ SlotsAreInFlight'
  BY <1>1, <1>4
  DEF IInv, JobsFollow, BetweenRecordings, StopsInOrder, TracksFit, Tracked, SamplesFit,
     SlotsAreInFlight, AudioKept, WritesKept, ResetKept, StopJobKept, ClosesKept, Writes,
     startTaskIsOver, Somewhere, Wasted
<1>7. TypeOK'
  BY <1>1, BoundsAssumption DEF IInv, TypeOK, Begun
<1>8. Begun'
  BY <1>1, <1>4 DEF IInv, TypeOK, Begun
<1>9. StreamIsKnown'
  BY <1>1 DEF IInv, TypeOK, StreamIsKnown
<1> QED  BY <1>5, <1>6, <1>7, <1>8, <1>9 DEF IInv

\* The delegate's report is queued behind what was delivered.
LEMMA DidStopPreserves ==
  ASSUME IInv, NEW r \in died, DidStopWithError(r)
  PROVE  IInv'
<1>1. /\ died' = died \ {r}
      /\ enqueue("report", r)
      /\ UNCHANGED <<recording, phase, isStopping, didReportFailure, reported, startTask,
                     cancelled, stream, capture, delivered, unreadable, echo, echoHeld,
                     tracks, trackErrors, engine, scheduled, inHand, pending, dropped, file,
                     writeErrors, call, gate, resumes, drained, diagnostics>>
  BY DEF DidStopWithError, queueVars, startVars, streamVars, echoVars, engineVars, mixVars,
         stopVars
<1>2. <<"report", r>> \in Jobs /\ enqueue("report", r)
  BY <1>1, BoundsAssumption DEF IInv, TypeOK, Begun, Jobs
<1>3. queue \in Seq(Jobs)  BY DEF IInv, TypeOK
<1>4. AudioKept /\ WritesKept /\ ResetKept /\ StopJobKept("mark") /\
      StopJobKept("barrier") /\ StopJobKept("flush") /\ StopJobKept("close") /\ ClosesKept
  BY <1>2, <1>3, Enqueued
  DEF AudioKept, WritesKept, ResetKept, StopJobKept, ClosesKept, IsToPlay
<1>5. queue' \in Seq(Jobs)
  BY <1>2, <1>3, Enqueued
<1>6. StreamIsKnown' /\ EngineRuns' /\ GatesFit' /\ DrainsFit'
  BY <1>1 DEF IInv, StreamIsKnown, EngineRuns, GatesFit, DrainsFit
<1>7. TypeOK'
  BY <1>1, <1>5, BoundsAssumption DEF IInv, TypeOK, Begun
<1>8. Begun'
  BY <1>1, <1>4, <1>5 DEF IInv, TypeOK, Begun
<1>9. JobsFollow'
  BY <1>1, <1>4, <1>5
  DEF IInv, TypeOK, JobsFollow, AudioKept, WritesKept, ResetKept, StopJobKept
<1>10. BetweenRecordings'
  BY <1>1, <1>4, <1>5
  DEF IInv, TypeOK, BetweenRecordings, startTaskIsOver, AudioKept, WritesKept
<1>11. StopsInOrder'
  BY <1>1, <1>4, <1>5
  DEF IInv, TypeOK, StopsInOrder, startTaskIsOver, PastAwait, PastStream, PastBarrier,
     PastFlush, TornDown, AudioKept, WritesKept
<1>12. TracksFit'
  BY <1>1, <1>4, <1>5
  DEF IInv, TypeOK, TracksFit, Tracked, PastAwait, PastStream, PastBarrier, PastFlush,
     AudioKept
<1>13. SamplesFit'
  BY <1>1, <1>4, <1>5
  DEF IInv, TypeOK, SamplesFit, Somewhere, Wasted, TornDown, AudioKept, WritesKept, ClosesKept
<1>14. SlotsAreInFlight'
  BY <1>1, <1>4, <1>5 DEF IInv, TypeOK, SlotsAreInFlight, Writes, WritesKept
<1> QED  BY <1>6, <1>7, <1>8, <1>9, <1>10, <1>11, <1>12, <1>13, <1>14 DEF IInv

\* A report that finds a stop or an earlier failure changes nothing.
LEMMA ReportIgnoredPreserves ==
  ASSUME IInv, ReportRuns, isStopping \/ didReportFailure
  PROVE  IInv'
<1>1. /\ Serving("report")
      /\ queue' = Tail(queue)
      /\ UNCHANGED <<recording, phase, isStopping, didReportFailure, reported, startTask,
                     cancelled, stream, capture, died, delivered, unreadable, echo, echoHeld,
                     tracks, trackErrors, engine, scheduled, inHand, pending, dropped, file,
                     writeErrors, call, gate, resumes, drained, diagnostics>>
  BY DEF ReportRuns, reportCaptureFailure, queueVars, startVars, streamVars, echoVars,
         engineVars, mixVars, stopVars
<1>2. Dequeues("report")  BY <1>1 DEF Dequeues
<1>3. queue \in Seq(Jobs)  BY DEF IInv, TypeOK
<1>4. argument \in 1..MaxRecordings
  BY <1>2, <1>3, Served DEF IInv, JobsFollow
<1>5. AudioKept /\ WritesKept /\ ResetKept /\ StopJobKept("mark") /\
      StopJobKept("barrier") /\ StopJobKept("flush") /\ StopJobKept("close") /\ ClosesKept
  BY <1>2, <1>3, Served
  DEF AudioKept, WritesKept, ResetKept, StopJobKept, ClosesKept, IsToPlay
<1>6. queue' \in Seq(Jobs)
  BY <1>2, <1>3, Served
<1>7. StreamIsKnown' /\ EngineRuns' /\ GatesFit' /\ DrainsFit'
  BY <1>1 DEF IInv, StreamIsKnown, EngineRuns, GatesFit, DrainsFit
<1>8. TypeOK'
  BY <1>1, <1>6, <1>4 DEF IInv, TypeOK
<1>9. Begun'
  BY <1>1, <1>5, <1>6, <1>4 DEF IInv, TypeOK, Begun
<1>10. JobsFollow'
  BY <1>1, <1>5, <1>6, <1>4
  DEF IInv, TypeOK, JobsFollow, AudioKept, WritesKept, ResetKept, StopJobKept
<1>11. BetweenRecordings'
  BY <1>1, <1>5, <1>6, <1>4
  DEF IInv, TypeOK, BetweenRecordings, startTaskIsOver, AudioKept, WritesKept
<1>12. StopsInOrder'
  BY <1>1, <1>5, <1>6, <1>4
  DEF IInv, TypeOK, StopsInOrder, startTaskIsOver, PastAwait, PastStream, PastBarrier,
     PastFlush, TornDown, AudioKept, WritesKept
<1>13. TracksFit'
  BY <1>1, <1>5, <1>6, <1>4
  DEF IInv, TypeOK, TracksFit, Tracked, PastAwait, PastStream, PastBarrier, PastFlush,
     AudioKept
<1>14. SamplesFit'
  BY <1>1, <1>5, <1>6, <1>4
  DEF IInv, TypeOK, SamplesFit, Somewhere, Wasted, TornDown, AudioKept, WritesKept, ClosesKept
<1>15. SlotsAreInFlight'
  BY <1>1, <1>5, <1>6 DEF IInv, TypeOK, SlotsAreInFlight, Writes, WritesKept
<1> QED  BY <1>7, <1>8, <1>9, <1>10, <1>11, <1>12, <1>13, <1>14, <1>15 DEF IInv

\* A report that is passed on changes only the books of reports.
LEMMA ReportDeliveredPreserves ==
  ASSUME IInv, ReportRuns, ~(isStopping \/ didReportFailure)
  PROVE  IInv'
<1>1. /\ Serving("report")
      /\ queue # << >>
      /\ queue' = Tail(queue)
      /\ didReportFailure'
      /\ reported' = Append(reported, <<recording, argument>>)
      /\ UNCHANGED <<recording, phase, isStopping, startTask, cancelled, stream, capture,
                     died, delivered, unreadable, echo, echoHeld, tracks, trackErrors,
                     engine, scheduled, inHand, pending, dropped, file, writeErrors, call,
                     gate, resumes, drained, diagnostics>>
  BY DEF ReportRuns, reportCaptureFailure, Serving, queueVars, startVars, streamVars,
         echoVars, engineVars, mixVars, stopVars
<1>2. Dequeues("report")  BY <1>1 DEF Dequeues
<1>3. queue \in Seq(Jobs)  BY DEF IInv, TypeOK
<1>4. argument \in 1..MaxRecordings
  BY <1>2, <1>3, Served DEF IInv, JobsFollow
<1>5. AudioKept /\ WritesKept /\ ResetKept /\ StopJobKept("mark") /\
      StopJobKept("barrier") /\ StopJobKept("flush") /\ StopJobKept("close") /\ ClosesKept
  BY <1>2, <1>3, Served
  DEF AudioKept, WritesKept, ResetKept, StopJobKept, ClosesKept, IsToPlay
<1>6. queue' \in Seq(Jobs)
  BY <1>2, <1>3, Served
<1>7. StreamIsKnown' /\ EngineRuns' /\ GatesFit' /\ DrainsFit'
  BY <1>1 DEF IInv, StreamIsKnown, EngineRuns, GatesFit, DrainsFit
<1>8. TypeOK'
  BY <1>1, <1>6, <1>4 DEF IInv, TypeOK, Begun
<1>9. Begun'
  BY <1>1, <1>5, <1>6, <1>4 DEF IInv, TypeOK, Begun
<1>10. JobsFollow'
  BY <1>1, <1>5, <1>6, <1>4
  DEF IInv, TypeOK, JobsFollow, AudioKept, WritesKept, ResetKept, StopJobKept
<1>11. BetweenRecordings'
  BY <1>1, <1>5, <1>6, <1>4
  DEF IInv, TypeOK, BetweenRecordings, startTaskIsOver, AudioKept, WritesKept
<1>12. StopsInOrder'
  BY <1>1, <1>5, <1>6, <1>4
  DEF IInv, TypeOK, StopsInOrder, startTaskIsOver, PastAwait, PastStream, PastBarrier,
     PastFlush, TornDown, AudioKept, WritesKept
<1>13. TracksFit'
  BY <1>1, <1>5, <1>6, <1>4
  DEF IInv, TypeOK, TracksFit, Tracked, PastAwait, PastStream, PastBarrier, PastFlush,
     AudioKept
<1>14. SamplesFit'
  BY <1>1, <1>5, <1>6, <1>4
  DEF IInv, TypeOK, SamplesFit, Somewhere, Wasted, TornDown, AudioKept, WritesKept, ClosesKept
<1>15. SlotsAreInFlight'
  BY <1>1, <1>5, <1>6 DEF IInv, TypeOK, SlotsAreInFlight, Writes, WritesKept
<1> QED  BY <1>7, <1>8, <1>9, <1>10, <1>11, <1>12, <1>13, <1>14, <1>15 DEF IInv

\* A sample that cannot be read is counted as such and gets no further.
LEMMA UnreadableSampleRunsPreserves ==
  ASSUME IInv, UnreadableSampleRuns, NEW kind \in {"audio", "microphone"}, Serving(kind)
  PROVE  IInv'
<1>1. /\ queue' = Tail(queue)
      /\ unreadable' = unreadable \cup {argument}
      /\ UNCHANGED <<recording, phase, isStopping, didReportFailure, reported, startTask,
                      cancelled, stream, capture, died, delivered, echo, echoHeld, tracks,
                      trackErrors, engine, scheduled, inHand, pending, dropped, file,
                      writeErrors, call, gate, resumes, drained, diagnostics>>
  BY DEF UnreadableSampleRuns, queueVars, startVars, streamVars, echoVars, engineVars,
         mixVars, stopVars
<1>2. Dequeues(kind)  BY <1>1 DEF Dequeues
<1>3. queue \in Seq(Jobs)  BY DEF IInv, TypeOK
<1>4. argument \in Samples
  BY <1>2, <1>3, Served DEF IInv, JobsFollow
<1>5. WritesKept /\ ResetKept /\ StopJobKept("mark") /\ StopJobKept("barrier") /\
      StopJobKept("flush") /\ StopJobKept("close") /\ ClosesKept
  BY <1>2, <1>3, Served
  DEF WritesKept, ResetKept, StopJobKept, ClosesKept
<1>6. /\ queue' \in Seq(Jobs)
      /\ AudioWaits
      /\ \A m : IsToPlay(m) <=> IsToPlay(m)' \/ m = argument
      /\ AudioWaits' => AudioWaits
      /\ AudioIsFirst => AudioIsFirst'
  BY <1>2, <1>3, Served DEF IsToPlay
<1>7. StreamIsKnown' /\ EngineRuns' /\ GatesFit' /\ DrainsFit'
  BY <1>1 DEF IInv, StreamIsKnown, EngineRuns, GatesFit, DrainsFit
<1>8. TypeOK'
  BY <1>1, <1>6, <1>4 DEF IInv, TypeOK
<1>9. Begun' /\ SlotsAreInFlight'
  <2>1. Begun'  BY <1>1, <1>5, <1>6, <1>4 DEF IInv, TypeOK, Begun
  <2>2. SlotsAreInFlight'
    BY <1>1, <1>5, <1>6 DEF IInv, TypeOK, SlotsAreInFlight, Writes, WritesKept
  <2> QED  BY <2>1, <2>2
<1>10. JobsFollow'
  BY <1>1, <1>5, <1>6, <1>4
  DEF IInv, TypeOK, JobsFollow, WritesKept, ResetKept, StopJobKept
<1>11. BetweenRecordings'
  BY <1>1, <1>5, <1>6
  DEF IInv, TypeOK, BetweenRecordings, startTaskIsOver, WritesKept
<1>12. StopsInOrder'
  BY <1>1, <1>5, <1>6
  DEF IInv, TypeOK, StopsInOrder, startTaskIsOver, PastAwait, PastStream, PastBarrier,
     PastFlush, TornDown, WritesKept
<1>13. TracksFit'
  BY <1>1, <1>6 DEF IInv, TracksFit, Tracked
<1>14. SamplesFit'
  <2> SUFFICES ASSUME phase' = "started", ~(dropped' > 0), NEW n \in delivered',
                      \A d \in Callers : ~Wasted(d)'
               PROVE  Somewhere(n)'
    BY DEF SamplesFit
  <2>1. ASSUME NEW d \in Callers, Wasted(d) PROVE Wasted(d)'
    BY <2>1, <1>1, <1>5, <1>6 DEF Wasted, ClosesKept
  <2>2. Somewhere(n)  BY <1>1, <2>1 DEF IInv, SamplesFit
  <2> QED  BY <2>2, <1>1, <1>5, <1>6 DEF Somewhere, WritesKept
<1> QED
  BY <1>7, <1>8, <1>9, <1>10, <1>11, <1>12, <1>13, <1>14 DEF IInv

\* A system sample is scheduled and written to its track, with what the canceller lets go.
LEMMA SystemSampleRunsPreserves ==
  ASSUME IInv, SystemSampleRuns, NEW cleaned, cleaned \in {{}, echoHeld},
         schedule({argument}, cleaned), echoHeld' = echoHeld \ cleaned
  PROVE  IInv'
<1>1. /\ Serving("audio")
      /\ queue' = Tail(queue)
      /\ cleaned \in {{}, echoHeld}
      /\ echoHeld' = echoHeld \ cleaned
      /\ UNCHANGED <<recording, phase, isStopping, didReportFailure, reported, startTask,
                     cancelled, stream, capture, died, delivered, unreadable, echo, engine,
                     inHand, pending, dropped, file, writeErrors, call, gate, resumes,
                     drained, diagnostics>>
  BY DEF SystemSampleRuns, queueVars, startVars, streamVars, echoVars,
         engineVars, mixVars, stopVars
<1>2. Dequeues("audio")  BY <1>1 DEF Dequeues
<1>3. queue \in Seq(Jobs)  BY DEF IInv, TypeOK
<1>4. /\ argument \in Samples
      /\ tracks' \subseteq Samples /\ trackErrors' \subseteq Samples
      /\ \A n : Tracked(n)' <=> Tracked(n) \/ n = argument \/ n \in cleaned
  <2>1. argument \in Samples  BY <1>2, <1>3, Served DEF IInv, JobsFollow
  <2>2. {argument} \in SUBSET Samples /\ cleaned \in SUBSET Samples
    BY <1>1, <2>1 DEF IInv, TypeOK
  <2>3. tracks \subseteq Samples /\ trackErrors \subseteq Samples  BY DEF IInv, TypeOK
  <2>4. \A n : Tracked(n)' <=> Tracked(n) \/ n \in {argument} \/ n \in cleaned
    BY <1>1, <2>2, <2>3, Scheduled
  <2>5. tracks' \subseteq Samples /\ trackErrors' \subseteq Samples
    BY <1>1, <2>2, <2>3, Scheduled
  <2> QED  BY <2>1, <2>4, <2>5
<1>5. WritesKept /\ ResetKept /\ StopJobKept("mark") /\ StopJobKept("barrier") /\
      StopJobKept("flush") /\ StopJobKept("close") /\ ClosesKept
  BY <1>2, <1>3, Served
  DEF WritesKept, ResetKept, StopJobKept, ClosesKept
<1>6. /\ queue' \in Seq(Jobs)
      /\ AudioWaits
      /\ \A m : IsToPlay(m) <=> IsToPlay(m)' \/ m = argument
      /\ AudioIsFirst => AudioIsFirst'
  BY <1>2, <1>3, Served DEF IsToPlay
<1>7. scheduled' = [scheduled EXCEPT !["system"] = @ \cup {argument},
                                   !["mic"] = @ \cup cleaned]
  BY DEF schedule
<1>8. /\ scheduled'["system"] = scheduled["system"] \cup {argument}
      /\ scheduled'["mic"] = scheduled["mic"] \cup cleaned
  BY <1>7, <1>4 DEF IInv, TypeOK, Players
<1>9. StreamIsKnown'
  BY <1>1 DEF IInv, StreamIsKnown
<1>10. TypeOK'
  BY <1>1, <1>7, <1>6, <1>4 DEF IInv, TypeOK, Players
<1>11. Begun'
  BY <1>1, <1>8, <1>5, <1>6, <1>4 DEF IInv, TypeOK, Begun
<1>12. JobsFollow'
  BY <1>1, <1>8, <1>5, <1>6, <1>4
  DEF IInv, TypeOK, JobsFollow, WritesKept, ResetKept, StopJobKept
<1>13. BetweenRecordings'
  BY <1>1, <1>8, <1>5, <1>6, <1>4
  DEF IInv, TypeOK, BetweenRecordings, startTaskIsOver, WritesKept
<1>14. StopsInOrder'
  BY <1>1, <1>8, <1>5, <1>6, <1>4
  DEF IInv, TypeOK, StopsInOrder, startTaskIsOver, PastAwait, PastStream, PastBarrier,
     PastFlush, TornDown, WritesKept
<1>15. EngineRuns'
  BY <1>1, <1>8, <1>4, <1>6
  DEF IInv, TypeOK, EngineRuns, TornDown, StopsInOrder, PastAwait, PastStream, PastBarrier,
     PastFlush, BetweenRecordings, startTaskIsOver
<1>16. GatesFit'
  BY <1>1, <1>8, <1>4, <1>6
  DEF IInv, TypeOK, GatesFit, StopsInOrder, PastAwait, PastStream, PastBarrier, PastFlush,
     TornDown
<1>17. DrainsFit'
  BY <1>1, <1>8, <1>4, <1>6
  DEF IInv, TypeOK, DrainsFit, PastAwait, PastStream, PastBarrier, PastFlush, PastDrain,
     TornDown, StopsInOrder
<1>18. TracksFit'
  BY <1>1, <1>8, <1>5, <1>6, <1>4
  DEF IInv, TypeOK, TracksFit, PastAwait, PastStream, PastBarrier, PastFlush
<1>19. SamplesFit'
  <2> SUFFICES ASSUME phase' = "started", ~(dropped' > 0), NEW n \in delivered',
                      \A d \in Callers : ~Wasted(d)'
               PROVE  Somewhere(n)'
    BY DEF SamplesFit
  <2>1. ASSUME NEW d \in Callers, Wasted(d) PROVE Wasted(d)'
    BY <2>1, <1>1, <1>5, <1>6 DEF Wasted, ClosesKept
  <2>2. Somewhere(n)  BY <1>1, <2>1 DEF IInv, SamplesFit
  <2> QED
    BY <2>2, <1>1, <1>5, <1>6, <1>8, <1>4
    DEF Somewhere, Players, IInv, TypeOK, WritesKept
<1>20. SlotsAreInFlight'
  BY <1>1, <1>5, <1>6 DEF IInv, TypeOK, SlotsAreInFlight, Writes, WritesKept
<1> QED
  BY <1>9, <1>10, <1>11, <1>12, <1>13, <1>14, <1>15, <1>16, <1>17, <1>18, <1>19, <1>20
  DEF IInv

\* A microphone sample is held by the canceller or scheduled.
LEMMA MicSampleRunsPreserves ==
  ASSUME IInv, MicSampleRuns, NEW held, held \subseteq echoHeld \cup {argument},
         ~echo => held = {argument} /\ echoHeld' = echoHeld,
         echo => echoHeld' = (echoHeld \cup {argument}) \ held, schedule({}, held)
  PROVE  IInv'
<1>1. /\ Serving("microphone")
      /\ queue' = Tail(queue)
      /\ held \subseteq echoHeld \cup {argument}
      /\ ~echo => held = {argument} /\ echoHeld' = echoHeld
      /\ echo => echoHeld' = (echoHeld \cup {argument}) \ held
      /\ UNCHANGED <<recording, phase, isStopping, didReportFailure, reported, startTask,
                     cancelled, stream, capture, died, delivered, unreadable, echo, engine,
                     inHand, pending, dropped, file, writeErrors, call, gate, resumes,
                     drained, diagnostics>>
  BY DEF MicSampleRuns, queueVars, startVars, streamVars, echoVars, engineVars,
         mixVars, stopVars
<1>2. Dequeues("microphone")  BY <1>1 DEF Dequeues
<1>3. queue \in Seq(Jobs)  BY DEF IInv, TypeOK
<1>4. /\ argument \in Samples
      /\ tracks' \subseteq Samples /\ trackErrors' \subseteq Samples
      /\ \A n : Tracked(n)' <=> Tracked(n) \/ n \in held
  <2>1. argument \in Samples  BY <1>2, <1>3, Served DEF IInv, JobsFollow
  <2>2. {} \in SUBSET Samples /\ held \in SUBSET Samples
    BY <1>1, <2>1 DEF IInv, TypeOK
  <2>3. tracks \subseteq Samples /\ trackErrors \subseteq Samples  BY DEF IInv, TypeOK
  <2>4. \A n : Tracked(n)' <=> Tracked(n) \/ n \in {} \/ n \in held
    BY <1>1, <2>2, <2>3, Scheduled
  <2>5. tracks' \subseteq Samples /\ trackErrors' \subseteq Samples
    BY <1>1, <2>2, <2>3, Scheduled
  <2> QED  BY <2>1, <2>4, <2>5
<1>5. WritesKept /\ ResetKept /\ StopJobKept("mark") /\ StopJobKept("barrier") /\
      StopJobKept("flush") /\ StopJobKept("close") /\ ClosesKept
  BY <1>2, <1>3, Served
  DEF WritesKept, ResetKept, StopJobKept, ClosesKept
<1>6. /\ queue' \in Seq(Jobs)
      /\ AudioWaits
      /\ \A m : IsToPlay(m) <=> IsToPlay(m)' \/ m = argument
      /\ AudioIsFirst => AudioIsFirst'
  BY <1>2, <1>3, Served DEF IsToPlay
<1>7. scheduled' = [scheduled EXCEPT !["system"] = @ \cup {}, !["mic"] = @ \cup held]
  BY DEF schedule
<1>8. /\ scheduled'["system"] = scheduled["system"] \cup {}
      /\ scheduled'["mic"] = scheduled["mic"] \cup held
  BY <1>7, <1>4 DEF IInv, TypeOK, Players
<1>9. StreamIsKnown'
  BY <1>1 DEF IInv, StreamIsKnown
<1>10. TypeOK'
  BY <1>1, <1>7, <1>6, <1>4 DEF IInv, TypeOK, Players
<1>11. Begun'
  BY <1>1, <1>8, <1>5, <1>6, <1>4 DEF IInv, TypeOK, Begun
<1>12. JobsFollow'
  BY <1>1, <1>8, <1>5, <1>6, <1>4
  DEF IInv, TypeOK, JobsFollow, WritesKept, ResetKept, StopJobKept
<1>13. BetweenRecordings'
  BY <1>1, <1>8, <1>5, <1>6, <1>4
  DEF IInv, TypeOK, BetweenRecordings, startTaskIsOver, WritesKept
<1>14. StopsInOrder'
  BY <1>1, <1>8, <1>5, <1>6, <1>4
  DEF IInv, TypeOK, StopsInOrder, startTaskIsOver, PastAwait, PastStream, PastBarrier,
     PastFlush, TornDown, WritesKept
<1>15. EngineRuns'
  BY <1>1, <1>8, <1>4, <1>6
  DEF IInv, TypeOK, EngineRuns, TornDown, StopsInOrder, PastAwait, PastStream, PastBarrier,
     PastFlush, BetweenRecordings, startTaskIsOver
<1>16. GatesFit'
  BY <1>1, <1>8, <1>4, <1>6
  DEF IInv, TypeOK, GatesFit, StopsInOrder, PastAwait, PastStream, PastBarrier, PastFlush,
     TornDown
<1>17. DrainsFit'
  BY <1>1, <1>8, <1>4, <1>6
  DEF IInv, TypeOK, DrainsFit, PastAwait, PastStream, PastBarrier, PastFlush, PastDrain,
     TornDown, StopsInOrder
<1>18. TracksFit'
  BY <1>1, <1>8, <1>5, <1>6, <1>4
  DEF IInv, TypeOK, TracksFit, PastAwait, PastStream, PastBarrier, PastFlush
<1>19. SamplesFit'
  <2> SUFFICES ASSUME phase' = "started", ~(dropped' > 0), NEW n \in delivered',
                      \A d \in Callers : ~Wasted(d)'
               PROVE  Somewhere(n)'
    BY DEF SamplesFit
  <2>1. ASSUME NEW d \in Callers, Wasted(d) PROVE Wasted(d)'
    BY <2>1, <1>1, <1>5, <1>6 DEF Wasted, ClosesKept
  <2>2. Somewhere(n)  BY <1>1, <2>1 DEF IInv, SamplesFit
  <2> QED
    BY <2>2, <1>1, <1>5, <1>6, <1>8, <1>4
    DEF Somewhere, Players, IInv, TypeOK, WritesKept
<1>20. SlotsAreInFlight'
  BY <1>1, <1>5, <1>6 DEF IInv, TypeOK, SlotsAreInFlight, Writes, WritesKept
<1> QED
  BY <1>9, <1>10, <1>11, <1>12, <1>13, <1>14, <1>15, <1>16, <1>17, <1>18, <1>19, <1>20
  DEF IInv

\* The poll lets go of all the canceller holds.
LEMMA EchoPollPreserves ==
  ASSUME IInv, EchoPoll
  PROVE  IInv'
<1>1. /\ echo
      /\ echoHeld' = {}
      /\ UNCHANGED <<recording, phase, queue, isStopping, didReportFailure, reported,
                     startTask, cancelled, stream, capture, died, delivered, unreadable,
                     echo, engine, inHand, pending, dropped, file, writeErrors, call, gate,
                     resumes, drained, diagnostics>>
  BY DEF EchoPoll, queueVars, startVars, streamVars, echoVars, engineVars,
         mixVars, stopVars
<1>2. queue' = queue  BY <1>1
<1>3. queue \in Seq(Jobs)  BY DEF IInv, TypeOK
<1>4. AudioKept /\ WritesKept /\ ResetKept /\ StopJobKept("mark") /\
      StopJobKept("barrier") /\ StopJobKept("flush") /\ StopJobKept("close") /\ ClosesKept
  BY <1>2, <1>3, QueueKept
<1>5. scheduled' = [scheduled EXCEPT !["system"] = @ \cup {}, !["mic"] = @ \cup echoHeld]
  BY DEF EchoPoll, schedule
<1>6. /\ scheduled'["system"] = scheduled["system"] \cup {}
      /\ scheduled'["mic"] = scheduled["mic"] \cup echoHeld
      /\ tracks' \subseteq Samples /\ trackErrors' \subseteq Samples
      /\ \A n : Tracked(n)' <=> Tracked(n) \/ n \in echoHeld
  <2>1. schedule({}, echoHeld)  BY DEF EchoPoll
  <2>2. {} \in SUBSET Samples /\ echoHeld \in SUBSET Samples
        /\ tracks \subseteq Samples /\ trackErrors \subseteq Samples
    BY DEF IInv, TypeOK
  <2>3. \A n : Tracked(n)' <=> Tracked(n) \/ n \in {} \/ n \in echoHeld
    BY <1>1, <2>1, <2>2, Scheduled
  <2>4. tracks' \subseteq Samples /\ trackErrors' \subseteq Samples
    BY <1>1, <2>1, <2>2, Scheduled
  <2> QED  BY <1>5, <2>3, <2>4 DEF IInv, TypeOK, Players
<1>7. StreamIsKnown'
  BY <1>1 DEF IInv, StreamIsKnown
<1>8. Begun' /\ JobsFollow' /\ BetweenRecordings' /\ SlotsAreInFlight'
  BY <1>1, <1>4
  DEF IInv, Begun, JobsFollow, BetweenRecordings, SlotsAreInFlight, AudioKept, WritesKept,
     ResetKept, StopJobKept, Writes, startTaskIsOver
<1>9. TypeOK'
  BY <1>1, <1>5, <1>6 DEF IInv, TypeOK, Players
<1>10. StopsInOrder'
  BY <1>1, <1>6, <1>4
  DEF IInv, TypeOK, StopsInOrder, startTaskIsOver, PastAwait, PastStream, PastBarrier,
     PastFlush, TornDown, AudioKept, WritesKept
<1>11. EngineRuns'
  BY <1>1, <1>6
  DEF IInv, TypeOK, EngineRuns, TornDown, StopsInOrder, PastAwait, PastStream, PastBarrier,
     PastFlush, BetweenRecordings, startTaskIsOver
<1>12. GatesFit'
  BY <1>1, <1>6
  DEF IInv, TypeOK, GatesFit, StopsInOrder, PastAwait, PastStream, PastBarrier, PastFlush,
     TornDown
<1>13. DrainsFit'
  BY <1>1, <1>6
  DEF IInv, TypeOK, DrainsFit, PastAwait, PastStream, PastBarrier, PastFlush, PastDrain,
     TornDown, StopsInOrder
<1>14. TracksFit'
  BY <1>1, <1>6, <1>4
  DEF IInv, TypeOK, TracksFit, PastAwait, PastStream, PastBarrier, PastFlush, AudioKept
<1>15. SamplesFit'
  <2> SUFFICES ASSUME phase' = "started", ~(dropped' > 0), NEW n \in delivered',
                      \A d \in Callers : ~Wasted(d)'
               PROVE  Somewhere(n)'
    BY DEF SamplesFit
  <2>1. ASSUME NEW d \in Callers, Wasted(d) PROVE Wasted(d)'
    BY <2>1, <1>1, <1>4 DEF Wasted, ClosesKept
  <2>2. Somewhere(n)  BY <1>1, <2>1 DEF IInv, SamplesFit
  <2> QED  BY <2>2, <1>1, <1>4, <1>6 DEF Somewhere, Players, AudioKept, WritesKept
<1> QED  BY <1>7, <1>8, <1>9, <1>10, <1>11, <1>12, <1>13, <1>14, <1>15 DEF IInv

\* What the tap is given leaves the players; it is counted in a slot or dropped.
LEMMA RenderPreserves ==
  ASSUME IInv, NEW ps \in (SUBSET Players) \ {{}}, Render(ps)
  PROVE  IInv'
<1>1. /\ engine = "on" /\ inHand = {}
      /\ \/ dropped' = dropped + 1 /\ inHand' = inHand /\ pending' = pending 
         \/ /\ pending' = pending + 1 /\ dropped' = dropped
            /\ inHand' = UNION {scheduled[p] : p \in ps}
      /\ \A p \in ps : scheduled[p] # {}
      /\ UNCHANGED <<recording, phase, queue, isStopping, didReportFailure, reported,
                     startTask, cancelled, stream, capture, died, delivered, unreadable,
                     echo, echoHeld, tracks, trackErrors, engine, file, writeErrors, call,
                     gate, resumes, drained, diagnostics>>
  BY DEF Render, queueVars, startVars, streamVars, echoVars, engineVars, mixVars, stopVars
<1>2. queue' = queue  BY <1>1
<1>3. queue \in Seq(Jobs)  BY DEF IInv, TypeOK
<1>4. AudioKept /\ WritesKept /\ ResetKept /\ StopJobKept("mark") /\
      StopJobKept("barrier") /\ StopJobKept("flush") /\ StopJobKept("close") /\ ClosesKept
  BY <1>2, <1>3, QueueKept
<1>5. scheduled' = [p \in Players |-> IF p \in ps THEN {} ELSE scheduled[p]]
  BY DEF Render
<1>6. \A p \in Players : scheduled'[p] = IF p \in ps THEN {} ELSE scheduled[p]
  BY <1>5 DEF IInv, TypeOK, Players
<1>7. StreamIsKnown'
  BY <1>1 DEF IInv, StreamIsKnown
<1>8. Begun' /\ JobsFollow' /\ TracksFit'
  BY <1>1, <1>4
  DEF IInv, Begun, JobsFollow, TracksFit, Tracked, AudioKept, WritesKept, ResetKept,
     StopJobKept
<1>9. TypeOK'
  <2>1. inHand' \subseteq Samples  BY <1>1 DEF IInv, TypeOK
  <2>2. pending' \in Nat /\ dropped' \in Nat  BY <1>1 DEF IInv, TypeOK
  <2>3. scheduled' \in [Players -> SUBSET Samples]  BY <1>5 DEF IInv, TypeOK
  <2> QED  BY <1>1, <2>1, <2>2, <2>3 DEF IInv, TypeOK
<1>10. BetweenRecordings'
  BY <1>1, <1>6, <1>4
  DEF IInv, TypeOK, BetweenRecordings, startTaskIsOver, AudioKept, WritesKept
<1>11. StopsInOrder'
  BY <1>1, <1>6, <1>4
  DEF IInv, TypeOK, StopsInOrder, startTaskIsOver, PastAwait, PastStream, PastBarrier,
     PastFlush, TornDown, AudioKept, WritesKept
<1>12. EngineRuns'
  BY <1>1, <1>6 DEF IInv, TypeOK, EngineRuns, TornDown
<1>13. GatesFit'
  BY <1>1, <1>6 DEF IInv, TypeOK, GatesFit
<1>14. DrainsFit'
  BY <1>1, <1>6
  DEF IInv, TypeOK, DrainsFit, PastAwait, PastStream, PastBarrier, PastFlush, PastDrain,
     TornDown, StopsInOrder
<1>15. SamplesFit'
  <2> SUFFICES ASSUME phase' = "started", ~(dropped' > 0), NEW n \in delivered',
                      \A d \in Callers : ~Wasted(d)'
               PROVE  Somewhere(n)'
    BY DEF SamplesFit
  <2>1. ASSUME NEW d \in Callers, Wasted(d) PROVE Wasted(d)'
    BY <2>1, <1>1, <1>4 DEF Wasted, ClosesKept
  <2>2. dropped' = dropped /\ inHand' = UNION {scheduled[p] : p \in ps}
    BY <1>1 DEF IInv, TypeOK
  <2>3. Somewhere(n)  BY <1>1, <2>1, <2>2 DEF IInv, SamplesFit
  <2>4. ASSUME NEW p \in Players, n \in scheduled[p]
        PROVE  n \in inHand' \/ n \in scheduled'[p]
    BY <1>6, <2>2, <2>4
  <2> QED  BY <1>1, <1>4, <2>3, <2>4 DEF Somewhere, AudioKept, WritesKept
<1>16. SlotsAreInFlight'
  <2>1. PICK p \in ps : scheduled[p] # {}  BY <1>1
  <2>2. UNION {scheduled[q] : q \in ps} # {}  BY <2>1
  <2>3. Cardinality(Writes(queue)) \in Nat /\ Writes(queue') = Writes(queue)
    BY <1>1, <1>3, QueueKept DEF Writes, WritesKept
  <2>4. pending = Cardinality(Writes(queue)) /\ inHand = {}
    BY <1>1, <2>3 DEF IInv, SlotsAreInFlight, Writes
  <2>5. pending' = Cardinality(Writes(queue)) + (IF inHand' = {} THEN 0 ELSE 1)
    BY <1>1, <2>2, <2>3, <2>4
  <2> QED  BY <1>1, <2>5 DEF SlotsAreInFlight, Writes
<1> QED  BY <1>7, <1>8, <1>9, <1>10, <1>11, <1>12, <1>13, <1>14, <1>15, <1>16 DEF IInv

\* The block in the tap's hand goes to the queue with its slot; the engine runs, so no
\* stop has queued its close.
LEMMA TapEnqueuesPreserves ==
  ASSUME IInv, TapEnqueues
  PROVE  IInv'
<1>1. /\ inHand # {}
      /\ enqueue("write", inHand)
      /\ inHand' = {}
      /\ UNCHANGED <<recording, phase, isStopping, didReportFailure, reported, startTask,
                     cancelled, stream, capture, died, delivered, unreadable, echo, echoHeld,
                     tracks, trackErrors, engine, scheduled, pending, dropped, file,
                     writeErrors, call, gate, resumes, drained, diagnostics>>
  BY DEF TapEnqueues, queueVars, startVars, streamVars, echoVars, engineVars, mixVars,
         stopVars
<1>2. <<"write", inHand>> \in Jobs /\ enqueue("write", inHand)
  BY <1>1, BoundsAssumption DEF IInv, TypeOK, Begun, Jobs
<1>3. queue \in Seq(Jobs)  BY DEF IInv, TypeOK
<1>4. AudioKept /\ ResetKept /\ StopJobKept("mark") /\ StopJobKept("barrier") /\
      StopJobKept("flush") /\ StopJobKept("close") /\ ClosesKept
  BY <1>2, <1>3, Enqueued
  DEF AudioKept, ResetKept, StopJobKept, ClosesKept, IsToPlay
<1>5. /\ queue' \in Seq(Jobs)
      /\ WriteWaits'
      /\ \A m : IsToBeWritten(m)' <=> IsToBeWritten(m) \/ m \in inHand
      /\ WritesAreFirst /\ (\A d \in Callers : ~Waits("close", d)) => WritesAreFirst'
      /\ Cardinality(Writes(queue)) \in Nat /\ Cardinality(Writes(queue')) \in Nat
      /\ Cardinality(Writes(queue')) = Cardinality(Writes(queue)) + 1
  BY <1>2, <1>3, Enqueued
<1>6. StreamIsKnown' /\ EngineRuns' /\ GatesFit' /\ DrainsFit'
  BY <1>1 DEF IInv, StreamIsKnown, EngineRuns, GatesFit, DrainsFit
<1>7. TypeOK'
  BY <1>1, <1>5 DEF IInv, TypeOK
<1>8. Begun'
  BY <1>1, <1>4, <1>5 DEF IInv, TypeOK, Begun, BetweenRecordings, startTaskIsOver
<1>9. JobsFollow'
  BY <1>1, <1>4, <1>5
  DEF IInv, TypeOK, JobsFollow, AudioKept, ResetKept, StopJobKept, StopsInOrder, PastAwait,
     PastStream, PastBarrier, PastFlush, TornDown
<1>10. BetweenRecordings'
  BY <1>1, <1>4, <1>5 DEF IInv, TypeOK, BetweenRecordings, startTaskIsOver, AudioKept
<1>11. StopsInOrder'
  BY <1>1, <1>4, <1>5
  DEF IInv, TypeOK, StopsInOrder, startTaskIsOver, PastAwait, PastStream, PastBarrier,
     PastFlush, TornDown, AudioKept
<1>12. TracksFit'
  BY <1>1, <1>4, <1>5
  DEF IInv, TypeOK, TracksFit, Tracked, PastAwait, PastStream, PastBarrier, PastFlush,
     AudioKept
<1>13. SamplesFit'
  BY <1>1, <1>4, <1>5
  DEF IInv, TypeOK, SamplesFit, Somewhere, Wasted, TornDown, AudioKept, ClosesKept
<1>14. SlotsAreInFlight'
  BY <1>1, <1>4, <1>5 DEF IInv, TypeOK, SlotsAreInFlight, Writes
<1> QED  BY <1>6, <1>7, <1>8, <1>9, <1>10, <1>11, <1>12, <1>13, <1>14 DEF IInv

\* A block that cannot be copied frees its slot and counts as dropped.
LEMMA CopyFailsPreserves ==
  ASSUME IInv, CopyFails
  PROVE  IInv'
<1>1. /\ inHand # {}
      /\ pending' = Max({0, pending - 1})
      /\ dropped' = dropped + 1
      /\ inHand' = {}
      /\ UNCHANGED <<recording, phase, queue, isStopping, didReportFailure, reported,
                     startTask, cancelled, stream, capture, died, delivered, unreadable,
                     echo, echoHeld, tracks, trackErrors, engine, scheduled, file,
                     writeErrors, call, gate, resumes, drained, diagnostics>>
  BY DEF CopyFails, releaseDropping, releaseSlot, queueVars, startVars, streamVars,
         echoVars, engineVars, mixVars, stopVars
<1>2. queue' = queue  BY <1>1
<1>3. queue \in Seq(Jobs)  BY DEF IInv, TypeOK
<1>4. AudioKept /\ WritesKept /\ ResetKept /\ StopJobKept("mark") /\
      StopJobKept("barrier") /\ StopJobKept("flush") /\ StopJobKept("close") /\ ClosesKept
  BY <1>2, <1>3, QueueKept
<1>5. pending' \in Nat /\ pending' = IF pending = 0 THEN 0 ELSE pending - 1
  <2>1. pending \in Nat  BY DEF IInv, TypeOK
  <2>2. pending' = Max({0, pending - 1})  BY <1>1
  <2>3. Max({0, pending - 1}) = IF pending = 0 THEN 0 ELSE pending - 1
    BY ONLY <2>1, ReleasedSlot
  <2> QED  BY <2>1, <2>2, <2>3
<1>6. StreamIsKnown' /\ EngineRuns' /\ GatesFit'
  BY <1>1 DEF IInv, StreamIsKnown, EngineRuns, GatesFit
<1>7. Begun' /\ JobsFollow' /\ TracksFit'
  BY <1>1, <1>4
  DEF IInv, Begun, JobsFollow, TracksFit, Tracked, AudioKept, WritesKept, ResetKept,
     StopJobKept
<1>8. TypeOK'
  BY <1>1, <1>5 DEF IInv, TypeOK
<1>9. BetweenRecordings'
  BY <1>1, <1>4 DEF IInv, TypeOK, BetweenRecordings, startTaskIsOver, AudioKept, WritesKept
<1>10. StopsInOrder'
  BY <1>1, <1>4
  DEF IInv, TypeOK, StopsInOrder, startTaskIsOver, PastAwait, PastStream, PastBarrier,
     PastFlush, TornDown, AudioKept, WritesKept
<1>11. DrainsFit'
  BY <1>1
  DEF IInv, TypeOK, DrainsFit, PastAwait, PastStream, PastBarrier, PastFlush, PastDrain,
     TornDown, StopsInOrder
<1>12. SamplesFit'
  BY <1>1, <1>4
  DEF IInv, TypeOK, SamplesFit, Somewhere, Wasted, TornDown, AudioKept, WritesKept, ClosesKept
<1>13. SlotsAreInFlight'
  BY <1>1, <1>4, <1>5 DEF IInv, TypeOK, SlotsAreInFlight, Writes, WritesKept
<1> QED  BY <1>6, <1>7, <1>8, <1>9, <1>10, <1>11, <1>12, <1>13 DEF IInv

\* A write frees its slot; its samples are in the file or the write is an error.
LEMMA WriteRunsPreserves ==
  ASSUME IInv, WriteRuns
  PROVE  IInv'
<1>1. /\ Serving("write")
      /\ queue' = Tail(queue)
      /\ pending' = Max({0, pending - 1})
      /\ \/ file' = file \cup argument /\ writeErrors' = writeErrors
         \/ writeErrors' = writeErrors \cup argument /\ file' = file
      /\ UNCHANGED <<recording, phase, isStopping, didReportFailure, reported, startTask,
                     cancelled, stream, capture, died, delivered, unreadable, echo, echoHeld,
                     tracks, trackErrors, engine, scheduled, inHand, dropped, call, gate,
                     resumes, drained, diagnostics>>
  BY DEF WriteRuns, releaseSlot, queueVars, startVars, streamVars, echoVars, engineVars,
         mixVars, stopVars
<1>2. Dequeues("write")  BY <1>1 DEF Dequeues
<1>3. queue \in Seq(Jobs)  BY DEF IInv, TypeOK
<1>4. argument \in SUBSET Samples
  BY <1>2, <1>3, Served DEF IInv, JobsFollow
<1>5. AudioKept /\ ResetKept /\ StopJobKept("mark") /\ StopJobKept("barrier") /\
      StopJobKept("flush") /\ StopJobKept("close") /\ ClosesKept
  BY <1>2, <1>3, Served
  DEF AudioKept, ResetKept, StopJobKept, ClosesKept, IsToPlay
<1>6. /\ queue' \in Seq(Jobs)
      /\ WriteWaits
      /\ \A m : IsToBeWritten(m) <=> IsToBeWritten(m)' \/ m \in argument
      /\ WritesAreFirst => WritesAreFirst'
      /\ Cardinality(Writes(queue)) \in Nat /\ Cardinality(Writes(queue')) \in Nat
      /\ Cardinality(Writes(queue)) = Cardinality(Writes(queue')) + 1
  BY <1>2, <1>3, Served
<1>7. pending' \in Nat /\ pending' = IF pending = 0 THEN 0 ELSE pending - 1
  <2>1. pending \in Nat  BY DEF IInv, TypeOK
  <2>2. pending' = Max({0, pending - 1})  BY <1>1
  <2>3. Max({0, pending - 1}) = IF pending = 0 THEN 0 ELSE pending - 1
    BY ONLY <2>1, ReleasedSlot
  <2> QED  BY <2>1, <2>2, <2>3
<1>8. StreamIsKnown' /\ EngineRuns' /\ GatesFit' /\ DrainsFit'
  BY <1>1 DEF IInv, StreamIsKnown, EngineRuns, GatesFit, DrainsFit
<1>9. TypeOK'
  BY <1>1, <1>6, <1>4, <1>7 DEF IInv, TypeOK
<1>10. Begun'
  BY <1>1, <1>5, <1>6, <1>4 DEF IInv, TypeOK, Begun
<1>11. JobsFollow'
  BY <1>1, <1>5, <1>6, <1>4 DEF IInv, TypeOK, JobsFollow, AudioKept, ResetKept, StopJobKept
<1>12. BetweenRecordings'
  BY <1>1, <1>5, <1>6, <1>4 DEF IInv, TypeOK, BetweenRecordings, startTaskIsOver, AudioKept
<1>13. StopsInOrder'
  BY <1>1, <1>5, <1>6, <1>4
  DEF IInv, TypeOK, StopsInOrder, startTaskIsOver, PastAwait, PastStream, PastBarrier,
     PastFlush, TornDown, AudioKept
<1>14. TracksFit'
  BY <1>1, <1>5, <1>6, <1>4
  DEF IInv, TypeOK, TracksFit, Tracked, PastAwait, PastStream, PastBarrier, PastFlush,
     AudioKept
<1>15. SamplesFit'
  <2> SUFFICES ASSUME phase' = "started", ~(dropped' > 0), NEW n \in delivered',
                      \A d \in Callers : ~Wasted(d)'
               PROVE  Somewhere(n)'
    BY DEF SamplesFit
  <2>1. ASSUME NEW d \in Callers, Wasted(d) PROVE Wasted(d)'
    BY <2>1, <1>1, <1>5, <1>6 DEF Wasted, ClosesKept
  <2>2. Somewhere(n)  BY <1>1, <2>1 DEF IInv, SamplesFit
  <2> QED  BY <2>2, <1>1, <1>5, <1>6 DEF Somewhere, AudioKept
<1>16. SlotsAreInFlight'
  <2>1. pending = Cardinality(Writes(queue)) + (IF inHand = {} THEN 0 ELSE 1)
    BY DEF IInv, SlotsAreInFlight, Writes
  <2>2. /\ Cardinality(Writes(queue')) \in Nat
        /\ Cardinality(Writes(queue)) = Cardinality(Writes(queue')) + 1
    BY <1>5, <1>6
  <2>3. inHand' = inHand  BY <1>1
  <2>4. pending' = Cardinality(Writes(queue')) + (IF inHand' = {} THEN 0 ELSE 1)
    BY <1>7, <2>1, <2>2, <2>3
  <2> QED  BY <2>4 DEF SlotsAreInFlight, Writes
<1> QED  BY <1>8, <1>9, <1>10, <1>11, <1>12, <1>13, <1>14, <1>15, <1>16 DEF IInv

\* An engine that stops by itself keeps what is scheduled.
LEMMA EngineStopsPreserves ==
  ASSUME IInv, EngineStops
  PROVE  IInv'
<1>1. /\ engine = "on"
      /\ engine' = "stopped"
      /\ UNCHANGED <<recording, phase, queue, isStopping, didReportFailure, reported,
                     startTask, cancelled, stream, capture, died, delivered, unreadable,
                     echo, echoHeld, tracks, trackErrors, scheduled, inHand, pending,
                     dropped, file, writeErrors, call, gate, resumes, drained, diagnostics>>
  BY DEF EngineStops, queueVars, startVars, streamVars, echoVars, engineVars, mixVars,
         stopVars
<1>2. queue' = queue  BY <1>1
<1>3. queue \in Seq(Jobs)  BY DEF IInv, TypeOK
<1>4. AudioKept /\ WritesKept /\ ResetKept /\ StopJobKept("mark") /\
      StopJobKept("barrier") /\ StopJobKept("flush") /\ StopJobKept("close") /\ ClosesKept
  BY <1>2, <1>3, QueueKept
<1>5. StreamIsKnown' /\ GatesFit' /\ DrainsFit'
  BY <1>1 DEF IInv, StreamIsKnown, GatesFit, DrainsFit
<1>6. Begun' /\ JobsFollow' /\ TracksFit' /\ SamplesFit' /\ SlotsAreInFlight'
  BY <1>1, <1>4
  DEF IInv, Begun, JobsFollow, TracksFit, Tracked, SamplesFit, SlotsAreInFlight, AudioKept,
     WritesKept, ResetKept, StopJobKept, ClosesKept, Writes, Somewhere, Wasted
<1>7. TypeOK'
  BY <1>1 DEF IInv, TypeOK
<1>8. BetweenRecordings'
  BY <1>1, <1>4 DEF IInv, TypeOK, BetweenRecordings, startTaskIsOver, AudioKept, WritesKept
<1>9. StopsInOrder'
  BY <1>1, <1>4
  DEF IInv, TypeOK, StopsInOrder, startTaskIsOver, PastAwait, PastStream, PastBarrier,
     PastFlush, TornDown, AudioKept, WritesKept
<1>10. EngineRuns'
  BY <1>1 DEF IInv, TypeOK, EngineRuns, TornDown
<1> QED  BY <1>5, <1>6, <1>7, <1>8, <1>9, <1>10 DEF IInv

\* A stop queues its mark.
LEMMA StopPreserves ==
  ASSUME IInv, NEW c \in Callers, Stop(c)
  PROVE  IInv'
<1>1. /\ call[c] = "idle"
      /\ phase = "started"
      /\ enqueue("mark", c)
      /\ UNCHANGED <<recording, phase, isStopping, didReportFailure, reported, startTask,
                     cancelled, stream, capture, died, delivered, unreadable, echo, echoHeld,
                     tracks, trackErrors, engine, scheduled, inHand, pending, dropped, file,
                     writeErrors, gate, resumes, drained, diagnostics>>
  BY DEF Stop, MayStop, Goes, queueVars, startVars, streamVars, echoVars, engineVars,
         mixVars, stopVars
<1>2. <<"mark", c>> \in Jobs /\ enqueue("mark", c)
  BY <1>1, BoundsAssumption DEF IInv, TypeOK, Begun, Jobs
<1>3. queue \in Seq(Jobs)  BY DEF IInv, TypeOK
<1>4. AudioKept /\ WritesKept /\ ResetKept /\ StopJobKept("barrier") /\
      StopJobKept("flush") /\ StopJobKept("close") /\ ClosesKept
  BY <1>2, <1>3, Enqueued
  DEF AudioKept, WritesKept, ResetKept, StopJobKept, ClosesKept, IsToPlay
<1>5. /\ queue' \in Seq(Jobs)
      /\ \A d \in Callers : Waits("mark", d)' <=> Waits("mark", d) \/ d = c
      /\ \A d \in Callers : WaitsOnce("mark", d) /\ (d = c => ~Waits("mark", d))
                           => WaitsOnce("mark", d)'
  BY <1>2, <1>3, Enqueued
<1>6. call' = [call EXCEPT ![c] = "marking"]
  BY DEF Stop, MayStop, Goes
<1>7. \A d \in Callers : call'[d] = IF d = c THEN "marking" ELSE call[d]
  BY <1>6 DEF IInv, TypeOK
<1>8. StreamIsKnown'
  BY <1>1 DEF IInv, StreamIsKnown
<1>9. TypeOK'
  BY <1>1, <1>6, <1>5 DEF IInv, TypeOK
<1>10. Begun'
  BY <1>1, <1>7, <1>4, <1>5 DEF IInv, TypeOK, Begun
<1>11. JobsFollow'
  BY <1>1, <1>7, <1>4, <1>5
  DEF IInv, TypeOK, JobsFollow, AudioKept, WritesKept, ResetKept, StopJobKept
<1>12. BetweenRecordings'
  BY <1>1, <1>7, <1>4, <1>5
  DEF IInv, TypeOK, BetweenRecordings, startTaskIsOver, AudioKept, WritesKept
<1>13. StopsInOrder'
  BY <1>1, <1>7, <1>4, <1>5
  DEF IInv, TypeOK, StopsInOrder, startTaskIsOver, PastAwait, PastStream, PastBarrier,
     PastFlush, TornDown, AudioKept, WritesKept
<1>14. EngineRuns'
  BY <1>1, <1>7 DEF IInv, TypeOK, EngineRuns, TornDown
<1>15. GatesFit'
  BY <1>1, <1>7 DEF IInv, TypeOK, GatesFit
<1>16. DrainsFit'
  BY <1>1, <1>7
  DEF IInv, TypeOK, DrainsFit, PastAwait, PastStream, PastBarrier, PastFlush, PastDrain,
     TornDown
<1>17. TracksFit'
  BY <1>1, <1>7, <1>4, <1>5
  DEF IInv, TypeOK, TracksFit, Tracked, PastAwait, PastStream, PastBarrier, PastFlush,
     AudioKept
<1>18. SamplesFit'
  BY <1>1, <1>7, <1>4, <1>5
  DEF IInv, TypeOK, SamplesFit, Somewhere, Wasted, TornDown, AudioKept, WritesKept, ClosesKept
<1>19. SlotsAreInFlight'
  BY <1>1, <1>4, <1>5 DEF IInv, TypeOK, SlotsAreInFlight, Writes, WritesKept
<1> QED
  BY <1>8, <1>9, <1>10, <1>11, <1>12, <1>13, <1>14, <1>15, <1>16, <1>17, <1>18, <1>19
  DEF IInv

\* The mark raises isStopping before the stop goes on.
LEMMA MarkRunsPreserves ==
  ASSUME IInv, MarkRuns
  PROVE  IInv'
<1>1. /\ Serving("mark")
      /\ queue' = Tail(queue)
      /\ isStopping' = TRUE
      /\ UNCHANGED <<recording, phase, didReportFailure, reported, startTask, cancelled,
                     stream, capture, died, delivered, unreadable, echo, echoHeld, tracks,
                     trackErrors, engine, scheduled, inHand, pending, dropped, file,
                     writeErrors, gate, resumes, drained, diagnostics>>
  BY DEF MarkRuns, Goes, queueVars, startVars, streamVars, echoVars, engineVars, mixVars,
         stopVars
<1>2. Dequeues("mark")  BY <1>1 DEF Dequeues
<1>3. queue \in Seq(Jobs)  BY DEF IInv, TypeOK
<1>4. /\ argument \in Callers /\ Waits("mark", argument) /\ call[argument] = "marking"
      /\ WaitsOnce("mark", argument)
  BY <1>2, <1>3, Served DEF IInv, JobsFollow
<1>5. AudioKept /\ WritesKept /\ ResetKept /\ StopJobKept("barrier") /\
      StopJobKept("flush") /\ StopJobKept("close") /\ ClosesKept
  BY <1>2, <1>3, Served
  DEF AudioKept, WritesKept, ResetKept, StopJobKept, ClosesKept, IsToPlay
<1>6. /\ queue' \in Seq(Jobs)
      /\ \A d \in Callers : Waits("mark", d)' <=> Waits("mark", d) /\ d # argument
      /\ \A d \in Callers : WaitsOnce("mark", d) => WaitsOnce("mark", d)'
  BY <1>2, <1>3, Served, <1>4
<1>7. call' = [call EXCEPT ![argument] = "cancelling"]
  BY DEF MarkRuns, Goes
<1>8. \A d \in Callers : call'[d] = IF d = argument THEN "cancelling" ELSE call[d]
  BY <1>7, <1>4 DEF IInv, TypeOK
<1>9. StreamIsKnown'
  BY <1>1 DEF IInv, StreamIsKnown
<1>10. TypeOK'
  BY <1>1, <1>7, <1>6, <1>4 DEF IInv, TypeOK
<1>11. Begun'
  BY <1>1, <1>8, <1>5, <1>6, <1>4 DEF IInv, TypeOK, Begun
<1>12. JobsFollow'
  BY <1>1, <1>8, <1>5, <1>6, <1>4
  DEF IInv, TypeOK, JobsFollow, AudioKept, WritesKept, ResetKept, StopJobKept
<1>13. BetweenRecordings'
  BY <1>1, <1>8, <1>5, <1>6, <1>4
  DEF IInv, TypeOK, BetweenRecordings, startTaskIsOver, AudioKept, WritesKept
<1>14. StopsInOrder'
  BY <1>1, <1>8, <1>5, <1>6, <1>4
  DEF IInv, TypeOK, StopsInOrder, startTaskIsOver, PastAwait, PastStream, PastBarrier,
     PastFlush, TornDown, AudioKept, WritesKept
<1>15. EngineRuns'
  BY <1>1, <1>8, <1>4 DEF IInv, TypeOK, EngineRuns, TornDown
<1>16. GatesFit'
  BY <1>1, <1>8, <1>4 DEF IInv, TypeOK, GatesFit
<1>17. DrainsFit'
  BY <1>1, <1>8, <1>4
  DEF IInv, TypeOK, DrainsFit, PastAwait, PastStream, PastBarrier, PastFlush, PastDrain,
     TornDown
<1>18. TracksFit'
  BY <1>1, <1>8, <1>5, <1>6, <1>4
  DEF IInv, TypeOK, TracksFit, Tracked, PastAwait, PastStream, PastBarrier, PastFlush,
     AudioKept
<1>19. SamplesFit'
  BY <1>1, <1>8, <1>5, <1>6, <1>4
  DEF IInv, TypeOK, SamplesFit, Somewhere, Wasted, TornDown, AudioKept, WritesKept, ClosesKept
<1>20. SlotsAreInFlight'
  BY <1>1, <1>5, <1>6 DEF IInv, TypeOK, SlotsAreInFlight, Writes, WritesKept
<1> QED
  BY <1>9, <1>10, <1>11, <1>12, <1>13, <1>14, <1>15, <1>16, <1>17, <1>18, <1>19, <1>20
  DEF IInv

\* Cancelling changes nothing but the flag of the start task.
LEMMA CancelStartPreserves ==
  ASSUME IInv, NEW c \in Callers, CancelStart(c)
  PROVE  IInv'
<1>1. /\ call[c] = "cancelling"
      /\ cancelled' = (cancelled \/ startTask # "none")
      /\ UNCHANGED <<recording, phase, queue, isStopping, didReportFailure, reported,
                     startTask, stream, capture, died, delivered, unreadable, echo, echoHeld,
                     tracks, trackErrors, engine, scheduled, inHand, pending, dropped, file,
                     writeErrors, gate, resumes, drained, diagnostics>>
  BY DEF CancelStart, Goes, queueVars, startVars, streamVars, echoVars, engineVars,
         mixVars, stopVars
<1>2. queue' = queue  BY <1>1
<1>3. queue \in Seq(Jobs)  BY DEF IInv, TypeOK
<1>4. AudioKept /\ WritesKept /\ ResetKept /\ StopJobKept("mark") /\
      StopJobKept("barrier") /\ StopJobKept("flush") /\ StopJobKept("close") /\ ClosesKept
  BY <1>2, <1>3, QueueKept
<1>5. call' = [call EXCEPT ![c] = "awaiting"]
  BY DEF CancelStart, Goes
<1>6. \A d \in Callers : call'[d] = IF d = c THEN "awaiting" ELSE call[d]
  BY <1>5 DEF IInv, TypeOK
<1>7. StreamIsKnown'
  BY <1>1 DEF IInv, StreamIsKnown
<1>8. Begun' /\ SlotsAreInFlight'
  BY <1>1, <1>4 DEF IInv, Begun, SlotsAreInFlight, WritesKept, Writes
<1>9. TypeOK'
  BY <1>1, <1>5 DEF IInv, TypeOK
<1>10. JobsFollow'
  BY <1>1, <1>6, <1>4
  DEF IInv, TypeOK, JobsFollow, AudioKept, WritesKept, ResetKept, StopJobKept
<1>11. BetweenRecordings'
  BY <1>1, <1>6, <1>4
  DEF IInv, TypeOK, BetweenRecordings, startTaskIsOver, AudioKept, WritesKept
<1>12. StopsInOrder'
  BY <1>1, <1>6, <1>4
  DEF IInv, TypeOK, StopsInOrder, startTaskIsOver, PastAwait, PastStream, PastBarrier,
     PastFlush, TornDown, AudioKept, WritesKept
<1>13. EngineRuns'
  BY <1>1, <1>6 DEF IInv, TypeOK, EngineRuns, TornDown
<1>14. GatesFit'
  BY <1>1, <1>6 DEF IInv, TypeOK, GatesFit
<1>15. DrainsFit'
  BY <1>1, <1>6
  DEF IInv, TypeOK, DrainsFit, PastAwait, PastStream, PastBarrier, PastFlush, PastDrain,
     TornDown
<1>16. TracksFit'
  BY <1>1, <1>6, <1>4
  DEF IInv, TypeOK, TracksFit, Tracked, PastAwait, PastStream, PastBarrier, PastFlush,
     AudioKept
<1>17. SamplesFit'
  BY <1>1, <1>6, <1>4
  DEF IInv, TypeOK, SamplesFit, Somewhere, Wasted, TornDown, AudioKept, WritesKept, ClosesKept
<1> QED
  BY <1>7, <1>8, <1>9, <1>10, <1>11, <1>12, <1>13, <1>14, <1>15, <1>16, <1>17
  DEF IInv

\* The stop goes on only when the start task is over.
LEMMA StartTaskOverPreserves ==
  ASSUME IInv, NEW c \in Callers, StartTaskOver(c)
  PROVE  IInv'
<1>1. /\ call[c] = "awaiting"
      /\ startTask \in {"none", "done"}
      /\ UNCHANGED <<recording, phase, queue, isStopping, didReportFailure, reported,
                     startTask, cancelled, stream, capture, died, delivered, unreadable,
                     echo, echoHeld, tracks, trackErrors, engine, scheduled, inHand, pending,
                     dropped, file, writeErrors, gate, resumes, drained, diagnostics>>
  BY DEF StartTaskOver, startTaskIsOver, Goes, queueVars, startVars, streamVars, echoVars,
         engineVars, mixVars, stopVars
<1>2. queue' = queue  BY <1>1
<1>3. queue \in Seq(Jobs)  BY DEF IInv, TypeOK
<1>4. AudioKept /\ WritesKept /\ ResetKept /\ StopJobKept("mark") /\
      StopJobKept("barrier") /\ StopJobKept("flush") /\ StopJobKept("close") /\ ClosesKept
  BY <1>2, <1>3, QueueKept
<1>5. call' = [call EXCEPT ![c] = IF stream THEN "stopping" ELSE "stopped"]
  BY DEF StartTaskOver, startTaskIsOver, Goes
<1>6. \A d \in Callers :
        call'[d] = IF d = c THEN IF stream THEN "stopping" ELSE "stopped" ELSE call[d]
  BY <1>5 DEF IInv, TypeOK
<1>7. StreamIsKnown'
  BY <1>1 DEF IInv, StreamIsKnown
<1>8. Begun' /\ SlotsAreInFlight'
  BY <1>1, <1>4 DEF IInv, Begun, SlotsAreInFlight, WritesKept, Writes
<1>9. TypeOK'
  BY <1>1, <1>5 DEF IInv, TypeOK
<1>10. JobsFollow'
  BY <1>1, <1>6, <1>4
  DEF IInv, TypeOK, JobsFollow, AudioKept, WritesKept, ResetKept, StopJobKept
<1>11. BetweenRecordings'
  BY <1>1, <1>6, <1>4
  DEF IInv, TypeOK, BetweenRecordings, startTaskIsOver, AudioKept, WritesKept
<1>12. StopsInOrder'
  BY <1>1, <1>6, <1>4
  DEF IInv, TypeOK, StopsInOrder, startTaskIsOver, PastAwait, PastStream, PastBarrier,
     PastFlush, TornDown, AudioKept, WritesKept
<1>13. EngineRuns'
  BY <1>1, <1>6 DEF IInv, TypeOK, EngineRuns, TornDown
<1>14. GatesFit'
  BY <1>1, <1>6 DEF IInv, TypeOK, GatesFit
<1>15. DrainsFit'
  BY <1>1, <1>6
  DEF IInv, TypeOK, DrainsFit, PastAwait, PastStream, PastBarrier, PastFlush, PastDrain,
     TornDown
<1>16. TracksFit'
  BY <1>1, <1>6, <1>4
  DEF IInv, TypeOK, TracksFit, Tracked, PastAwait, PastStream, PastBarrier, PastFlush,
     AudioKept
<1>17. SamplesFit'
  BY <1>1, <1>6, <1>4
  DEF IInv, TypeOK, SamplesFit, Somewhere, Wasted, TornDown, AudioKept, WritesKept, ClosesKept
<1> QED
  BY <1>7, <1>8, <1>9, <1>10, <1>11, <1>12, <1>13, <1>14, <1>15, <1>16, <1>17
  DEF IInv

\* The stop takes the stream; nothing is delivered from here on.
LEMMA StopCapturePreserves ==
  ASSUME IInv, NEW c \in Callers, StopCapture(c)
  PROVE  IInv'
<1>1. /\ call[c] = "stopping"
      /\ stream' = FALSE
      /\ capture' = IF capture = "on" THEN "off" ELSE capture
      /\ died' = died \/ (capture = "on" /\ died' = died \cup {recording})
      /\ UNCHANGED <<recording, phase, queue, isStopping, didReportFailure, reported,
                     startTask, cancelled, delivered, unreadable, echo, echoHeld, tracks,
                     trackErrors, engine, scheduled, inHand, pending, dropped, file,
                     writeErrors, gate, resumes, drained, diagnostics>>
  BY DEF StopCapture, Goes, queueVars, startVars, streamVars, echoVars, engineVars,
         mixVars, stopVars
<1>2. queue' = queue  BY <1>1
<1>3. queue \in Seq(Jobs)  BY DEF IInv, TypeOK
<1>4. AudioKept /\ WritesKept /\ ResetKept /\ StopJobKept("mark") /\
      StopJobKept("barrier") /\ StopJobKept("flush") /\ StopJobKept("close") /\ ClosesKept
  BY <1>2, <1>3, QueueKept
<1>5. call' = [call EXCEPT ![c] = "stopped"]
  BY DEF StopCapture, Goes
<1>6. \A d \in Callers : call'[d] = IF d = c THEN "stopped" ELSE call[d]
  BY <1>5 DEF IInv, TypeOK
<1>7. SlotsAreInFlight'
  BY <1>1, <1>4 DEF IInv, SlotsAreInFlight, WritesKept, Writes
<1>8. TypeOK'
  <2>1. died' \subseteq 1..MaxRecordings
    <3>1. phase = "started"  BY <1>1 DEF IInv, BetweenRecordings
    <3>2. recording \in 1..MaxRecordings  BY <3>1, BoundsAssumption DEF IInv, TypeOK, Begun
    <3> QED  BY <1>1, <3>2 DEF IInv, TypeOK
  <2>2. capture' \in {"off", "on", "dead"} /\ stream' \in BOOLEAN  BY <1>1 DEF IInv, TypeOK
  <2>3. call' \in [Callers -> {"idle", "marking", "cancelling", "awaiting", "stopping",
                            "stopped", "barrier", "flush", "flushing", "drain",
                            "draining", "tearing", "closing", "returned"}]
    BY <1>5 DEF IInv, TypeOK
  <2> QED  BY <1>1, <2>1, <2>2, <2>3 DEF IInv, TypeOK
<1>9. Begun'
  BY <1>1, <1>6, <1>4 DEF IInv, TypeOK, Begun
<1>10. JobsFollow'
  BY <1>1, <1>6, <1>4
  DEF IInv, TypeOK, JobsFollow, AudioKept, WritesKept, ResetKept, StopJobKept
<1>11. BetweenRecordings'
  BY <1>1, <1>6, <1>4
  DEF IInv, TypeOK, BetweenRecordings, startTaskIsOver, AudioKept, WritesKept
<1>12. StreamIsKnown'
  BY <1>1, <1>6
  DEF IInv, TypeOK, StreamIsKnown, StopsInOrder, PastAwait, PastStream, PastBarrier,
     PastFlush, TornDown, startTaskIsOver
<1>13. StopsInOrder'
  BY <1>1, <1>6, <1>4
  DEF IInv, TypeOK, StopsInOrder, startTaskIsOver, PastAwait, PastStream, PastBarrier,
     PastFlush, TornDown, AudioKept, WritesKept
<1>14. EngineRuns'
  BY <1>1, <1>6 DEF IInv, TypeOK, EngineRuns, TornDown
<1>15. GatesFit'
  BY <1>1, <1>6 DEF IInv, TypeOK, GatesFit
<1>16. DrainsFit'
  BY <1>1, <1>6
  DEF IInv, TypeOK, DrainsFit, PastAwait, PastStream, PastBarrier, PastFlush, PastDrain,
     TornDown
<1>17. TracksFit'
  BY <1>1, <1>6, <1>4
  DEF IInv, TypeOK, TracksFit, Tracked, PastAwait, PastStream, PastBarrier, PastFlush,
     AudioKept
<1>18. SamplesFit'
  BY <1>1, <1>6, <1>4
  DEF IInv, TypeOK, SamplesFit, Somewhere, Wasted, TornDown, AudioKept, WritesKept, ClosesKept
<1> QED
  BY <1>7, <1>8, <1>9, <1>10, <1>11, <1>12, <1>13, <1>14, <1>15, <1>16, <1>17, <1>18
  DEF IInv

\* The barrier is queued behind every sample that was delivered.
LEMMA BarrierPreserves ==
  ASSUME IInv, NEW c \in Callers, Barrier(c)
  PROVE  IInv'
<1>1. /\ call[c] = "stopped"
      /\ enqueue("barrier", c)
      /\ UNCHANGED <<recording, phase, isStopping, didReportFailure, reported, startTask,
                     cancelled, stream, capture, died, delivered, unreadable, echo, echoHeld,
                     tracks, trackErrors, engine, scheduled, inHand, pending, dropped, file,
                     writeErrors, gate, resumes, drained, diagnostics>>
  BY DEF Barrier, Goes, queueVars, startVars, streamVars, echoVars, engineVars, mixVars,
         stopVars
<1>2. <<"barrier", c>> \in Jobs /\ enqueue("barrier", c)
  BY <1>1, BoundsAssumption DEF IInv, TypeOK, Begun, Jobs
<1>3. queue \in Seq(Jobs)  BY DEF IInv, TypeOK
<1>4. AudioKept /\ WritesKept /\ ResetKept /\ StopJobKept("mark") /\
      StopJobKept("flush") /\ StopJobKept("close") /\ ClosesKept
  BY <1>2, <1>3, Enqueued
  DEF AudioKept, WritesKept, ResetKept, StopJobKept, ClosesKept, IsToPlay
<1>5. /\ queue' \in Seq(Jobs)
      /\ \A d \in Callers : Waits("barrier", d)' <=> Waits("barrier", d) \/ d = c
      /\ \A d \in Callers : WaitsOnce("barrier", d) /\ (d = c => ~Waits("barrier", d))
                           => WaitsOnce("barrier", d)'
  BY <1>2, <1>3, Enqueued
<1>6. call' = [call EXCEPT ![c] = "barrier"]
  BY DEF Barrier, Goes
<1>7. \A d \in Callers : call'[d] = IF d = c THEN "barrier" ELSE call[d]
  BY <1>6 DEF IInv, TypeOK
<1>8. StreamIsKnown'
  BY <1>1 DEF IInv, StreamIsKnown
<1>9. TypeOK'
  BY <1>1, <1>6, <1>5 DEF IInv, TypeOK
<1>10. Begun'
  BY <1>1, <1>7, <1>4, <1>5 DEF IInv, TypeOK, Begun, BetweenRecordings, startTaskIsOver
<1>11. JobsFollow'
  BY <1>1, <1>7, <1>4, <1>5
  DEF IInv, TypeOK, JobsFollow, AudioKept, WritesKept, ResetKept, StopJobKept
<1>12. BetweenRecordings'
  BY <1>1, <1>7, <1>4, <1>5
  DEF IInv, TypeOK, BetweenRecordings, startTaskIsOver, AudioKept, WritesKept
<1>13. StopsInOrder'
  BY <1>1, <1>7, <1>4, <1>5
  DEF IInv, TypeOK, StopsInOrder, startTaskIsOver, PastAwait, PastStream, PastBarrier,
     PastFlush, TornDown, AudioKept, WritesKept
<1>14. EngineRuns'
  BY <1>1, <1>7 DEF IInv, TypeOK, EngineRuns, TornDown
<1>15. GatesFit'
  BY <1>1, <1>7 DEF IInv, TypeOK, GatesFit
<1>16. DrainsFit'
  BY <1>1, <1>7
  DEF IInv, TypeOK, DrainsFit, PastAwait, PastStream, PastBarrier, PastFlush, PastDrain,
     TornDown
<1>17. TracksFit'
  BY <1>1, <1>7, <1>4, <1>5
  DEF IInv, TypeOK, TracksFit, Tracked, PastAwait, PastStream, PastBarrier, PastFlush,
     AudioKept
<1>18. SamplesFit'
  BY <1>1, <1>7, <1>4, <1>5
  DEF IInv, TypeOK, SamplesFit, Somewhere, Wasted, TornDown, AudioKept, WritesKept, ClosesKept
<1>19. SlotsAreInFlight'
  BY <1>1, <1>4, <1>5 DEF IInv, TypeOK, SlotsAreInFlight, Writes, WritesKept
<1> QED
  BY <1>8, <1>9, <1>10, <1>11, <1>12, <1>13, <1>14, <1>15, <1>16, <1>17, <1>18, <1>19
  DEF IInv

\* When the barrier runs, no sample waits: every sample that waited was before it.
LEMMA BarrierRunsPreserves ==
  ASSUME IInv, BarrierRuns
  PROVE  IInv'
<1>1. /\ Serving("barrier")
      /\ queue' = Tail(queue)
      /\ UNCHANGED <<recording, phase, isStopping, didReportFailure, reported, startTask,
                     cancelled, stream, capture, died, delivered, unreadable, echo, echoHeld,
                     tracks, trackErrors, engine, scheduled, inHand, pending, dropped, file,
                     writeErrors, gate, resumes, drained, diagnostics>>
  BY DEF BarrierRuns, Goes, queueVars, startVars, streamVars, echoVars, engineVars,
         mixVars, stopVars
<1>2. Dequeues("barrier")  BY <1>1 DEF Dequeues
<1>3. queue \in Seq(Jobs)  BY DEF IInv, TypeOK
<1>4. /\ argument \in Callers /\ Waits("barrier", argument) /\ call[argument] = "barrier"
      /\ WaitsOnce("barrier", argument)
  BY <1>2, <1>3, Served DEF IInv, JobsFollow
<1>5. AudioKept /\ WritesKept /\ ResetKept /\ StopJobKept("mark") /\
      StopJobKept("flush") /\ StopJobKept("close") /\ ClosesKept
  BY <1>2, <1>3, Served
  DEF AudioKept, WritesKept, ResetKept, StopJobKept, ClosesKept, IsToPlay
<1>6. /\ queue' \in Seq(Jobs)
      /\ AudioIsFirst => ~AudioWaits
      /\ \A d \in Callers : Waits("barrier", d)' <=> Waits("barrier", d) /\ d # argument
      /\ \A d \in Callers : WaitsOnce("barrier", d) => WaitsOnce("barrier", d)'
  BY <1>2, <1>3, Served, <1>4
<1>7. call' = [call EXCEPT ![argument] = "flush"]
  BY DEF BarrierRuns, Goes
<1>8. \A d \in Callers : call'[d] = IF d = argument THEN "flush" ELSE call[d]
  BY <1>7, <1>4 DEF IInv, TypeOK
<1>9. StreamIsKnown'
  BY <1>1 DEF IInv, StreamIsKnown
<1>10. TypeOK'
  BY <1>1, <1>7, <1>6, <1>4 DEF IInv, TypeOK
<1>11. Begun'
  BY <1>1, <1>8, <1>5, <1>6, <1>4 DEF IInv, TypeOK, Begun
<1>12. JobsFollow'
  BY <1>1, <1>8, <1>5, <1>6, <1>4
  DEF IInv, TypeOK, JobsFollow, AudioKept, WritesKept, ResetKept, StopJobKept
<1>13. BetweenRecordings'
  BY <1>1, <1>8, <1>5, <1>6, <1>4
  DEF IInv, TypeOK, BetweenRecordings, startTaskIsOver, AudioKept, WritesKept
<1>14. StopsInOrder'
  BY <1>1, <1>8, <1>5, <1>6, <1>4
  DEF IInv, TypeOK, StopsInOrder, startTaskIsOver, PastAwait, PastStream, PastBarrier,
     PastFlush, TornDown, AudioKept, WritesKept, JobsFollow
<1>15. EngineRuns'
  BY <1>1, <1>8, <1>4 DEF IInv, TypeOK, EngineRuns, TornDown
<1>16. GatesFit'
  BY <1>1, <1>8, <1>4 DEF IInv, TypeOK, GatesFit
<1>17. DrainsFit'
  BY <1>1, <1>8, <1>4
  DEF IInv, TypeOK, DrainsFit, PastAwait, PastStream, PastBarrier, PastFlush, PastDrain,
     TornDown
<1>18. TracksFit'
  BY <1>1, <1>8, <1>5, <1>6, <1>4
  DEF IInv, TypeOK, TracksFit, Tracked, PastAwait, PastStream, PastBarrier, PastFlush,
     AudioKept
<1>19. SamplesFit'
  BY <1>1, <1>8, <1>5, <1>6, <1>4
  DEF IInv, TypeOK, SamplesFit, Somewhere, Wasted, TornDown, AudioKept, WritesKept, ClosesKept
<1>20. SlotsAreInFlight'
  BY <1>1, <1>5, <1>6 DEF IInv, TypeOK, SlotsAreInFlight, Writes, WritesKept
<1> QED
  BY <1>9, <1>10, <1>11, <1>12, <1>13, <1>14, <1>15, <1>16, <1>17, <1>18, <1>19, <1>20
  DEF IInv

\* The stop queues the flush of the canceller.
LEMMA FlushPreserves ==
  ASSUME IInv, NEW c \in Callers, Flush(c)
  PROVE  IInv'
<1>1. /\ call[c] = "flush"
      /\ enqueue("flush", c)
      /\ UNCHANGED <<recording, phase, isStopping, didReportFailure, reported, startTask,
                     cancelled, stream, capture, died, delivered, unreadable, echo, echoHeld,
                     tracks, trackErrors, engine, scheduled, inHand, pending, dropped, file,
                     writeErrors, gate, resumes, drained, diagnostics>>
  BY DEF Flush, Goes, queueVars, startVars, streamVars, echoVars, engineVars, mixVars,
         stopVars
<1>2. <<"flush", c>> \in Jobs /\ enqueue("flush", c)
  BY <1>1, BoundsAssumption DEF IInv, TypeOK, Begun, Jobs
<1>3. queue \in Seq(Jobs)  BY DEF IInv, TypeOK
<1>4. AudioKept /\ WritesKept /\ ResetKept /\ StopJobKept("mark") /\
      StopJobKept("barrier") /\ StopJobKept("close") /\ ClosesKept
  BY <1>2, <1>3, Enqueued
  DEF AudioKept, WritesKept, ResetKept, StopJobKept, ClosesKept, IsToPlay
<1>5. /\ queue' \in Seq(Jobs)
      /\ \A d \in Callers : Waits("flush", d)' <=> Waits("flush", d) \/ d = c
      /\ \A d \in Callers : WaitsOnce("flush", d) /\ (d = c => ~Waits("flush", d))
                           => WaitsOnce("flush", d)'
  BY <1>2, <1>3, Enqueued
<1>6. call' = [call EXCEPT ![c] = "flushing"]
  BY DEF Flush, Goes
<1>7. \A d \in Callers : call'[d] = IF d = c THEN "flushing" ELSE call[d]
  BY <1>6 DEF IInv, TypeOK
<1>8. StreamIsKnown'
  BY <1>1 DEF IInv, StreamIsKnown
<1>9. TypeOK'
  BY <1>1, <1>6, <1>5 DEF IInv, TypeOK
<1>10. Begun'
  BY <1>1, <1>7, <1>4, <1>5 DEF IInv, TypeOK, Begun, BetweenRecordings, startTaskIsOver
<1>11. JobsFollow'
  BY <1>1, <1>7, <1>4, <1>5
  DEF IInv, TypeOK, JobsFollow, AudioKept, WritesKept, ResetKept, StopJobKept
<1>12. BetweenRecordings'
  BY <1>1, <1>7, <1>4, <1>5
  DEF IInv, TypeOK, BetweenRecordings, startTaskIsOver, AudioKept, WritesKept
<1>13. StopsInOrder'
  BY <1>1, <1>7, <1>4, <1>5
  DEF IInv, TypeOK, StopsInOrder, startTaskIsOver, PastAwait, PastStream, PastBarrier,
     PastFlush, TornDown, AudioKept, WritesKept
<1>14. EngineRuns'
  BY <1>1, <1>7 DEF IInv, TypeOK, EngineRuns, TornDown
<1>15. GatesFit'
  BY <1>1, <1>7 DEF IInv, TypeOK, GatesFit
<1>16. DrainsFit'
  BY <1>1, <1>7
  DEF IInv, TypeOK, DrainsFit, PastAwait, PastStream, PastBarrier, PastFlush, PastDrain,
     TornDown
<1>17. TracksFit'
  BY <1>1, <1>7, <1>4, <1>5
  DEF IInv, TypeOK, TracksFit, Tracked, PastAwait, PastStream, PastBarrier, PastFlush,
     AudioKept
<1>18. SamplesFit'
  BY <1>1, <1>7, <1>4, <1>5
  DEF IInv, TypeOK, SamplesFit, Somewhere, Wasted, TornDown, AudioKept, WritesKept, ClosesKept
<1>19. SlotsAreInFlight'
  BY <1>1, <1>4, <1>5 DEF IInv, TypeOK, SlotsAreInFlight, Writes, WritesKept
<1> QED
  BY <1>8, <1>9, <1>10, <1>11, <1>12, <1>13, <1>14, <1>15, <1>16, <1>17, <1>18, <1>19
  DEF IInv

\* The flush schedules all the canceller still held and ends it.
LEMMA FlushRunsPreserves ==
  ASSUME IInv, FlushRuns
  PROVE  IInv'
<1>1. /\ Serving("flush")
      /\ queue' = Tail(queue)
      /\ echoHeld' = {}
      /\ echo' = FALSE
      /\ UNCHANGED <<recording, phase, isStopping, didReportFailure, reported, startTask,
                     cancelled, stream, capture, died, delivered, unreadable, engine, inHand,
                     pending, dropped, file, writeErrors, gate, resumes, drained,
                     diagnostics>>
  BY DEF FlushRuns, flushTail, schedule, Goes, queueVars, startVars, streamVars, echoVars,
         engineVars, mixVars, stopVars
<1>2. Dequeues("flush")  BY <1>1 DEF Dequeues
<1>3. queue \in Seq(Jobs)  BY DEF IInv, TypeOK
<1>4. /\ argument \in Callers /\ Waits("flush", argument) /\ call[argument] = "flushing"
      /\ WaitsOnce("flush", argument)
  BY <1>2, <1>3, Served DEF IInv, JobsFollow
<1>5. AudioKept /\ WritesKept /\ ResetKept /\ StopJobKept("mark") /\
      StopJobKept("barrier") /\ StopJobKept("close") /\ ClosesKept
  BY <1>2, <1>3, Served
  DEF AudioKept, WritesKept, ResetKept, StopJobKept, ClosesKept, IsToPlay
<1>6. /\ queue' \in Seq(Jobs)
      /\ \A d \in Callers : Waits("flush", d)' <=> Waits("flush", d) /\ d # argument
      /\ \A d \in Callers : WaitsOnce("flush", d) => WaitsOnce("flush", d)'
  BY <1>2, <1>3, Served, <1>4
<1>7. /\ scheduled' = [scheduled EXCEPT !["system"] = @ \cup {}, !["mic"] = @ \cup echoHeld]
      /\ call' = [call EXCEPT ![argument] = "drain"]
  BY DEF FlushRuns, flushTail, schedule, Goes
<1>8. /\ scheduled'["system"] = scheduled["system"] \cup {}
      /\ scheduled'["mic"] = scheduled["mic"] \cup echoHeld
      /\ \A d \in Callers : call'[d] = IF d = argument THEN "drain" ELSE call[d]
      /\ tracks' \subseteq Samples /\ trackErrors' \subseteq Samples
      /\ \A n : Tracked(n)' <=> Tracked(n) \/ n \in echoHeld
  <2>1. schedule({}, echoHeld)  BY DEF FlushRuns, flushTail
  <2>2. {} \in SUBSET Samples /\ echoHeld \in SUBSET Samples
        /\ tracks \subseteq Samples /\ trackErrors \subseteq Samples
    BY DEF IInv, TypeOK
  <2>3. \A n : Tracked(n)' <=> Tracked(n) \/ n \in {} \/ n \in echoHeld
    BY <1>1, <2>1, <2>2, Scheduled
  <2>4. tracks' \subseteq Samples /\ trackErrors' \subseteq Samples
    BY <1>1, <2>1, <2>2, Scheduled
  <2> QED  BY <1>7, <1>4, <2>3, <2>4 DEF IInv, TypeOK, Players
<1>9. StreamIsKnown'
  BY <1>1 DEF IInv, StreamIsKnown
<1>10. TypeOK'
  <2>1. scheduled' \in [Players -> SUBSET Samples]  BY <1>7 DEF IInv, TypeOK, Players
  <2>2. /\ tracks' \subseteq Samples /\ trackErrors' \subseteq Samples
        /\ echoHeld' \subseteq Samples /\ echo' \in BOOLEAN /\ queue' \in Seq(Jobs)
    BY <1>1, <1>5, <1>6, <1>8 DEF IInv, TypeOK
  <2>3. call' \in [Callers -> {"idle", "marking", "cancelling", "awaiting", "stopping",
                            "stopped", "barrier", "flush", "flushing", "drain",
                            "draining", "tearing", "closing", "returned"}]
    BY <1>7, <1>4 DEF IInv, TypeOK
  <2> QED  BY <1>1, <2>1, <2>2, <2>3 DEF IInv, TypeOK
<1>11. Begun'
  BY <1>1, <1>8, <1>5, <1>6, <1>4 DEF IInv, TypeOK, Begun
<1>12. JobsFollow'
  BY <1>1, <1>8, <1>5, <1>6, <1>4
  DEF IInv, TypeOK, JobsFollow, AudioKept, WritesKept, ResetKept, StopJobKept
<1>13. BetweenRecordings'
  BY <1>1, <1>8, <1>5, <1>6, <1>4
  DEF IInv, TypeOK, BetweenRecordings, startTaskIsOver, AudioKept, WritesKept
<1>14. StopsInOrder'
  BY <1>1, <1>8, <1>5, <1>6, <1>4
  DEF IInv, TypeOK, StopsInOrder, startTaskIsOver, PastAwait, PastStream, PastBarrier,
     PastFlush, TornDown, AudioKept, WritesKept
<1>15. EngineRuns'
  BY <1>1, <1>8, <1>4
  DEF IInv, TypeOK, EngineRuns, TornDown, StopsInOrder, PastAwait, PastStream, PastBarrier,
     PastFlush, BetweenRecordings, startTaskIsOver, Players
<1>16. GatesFit'
  <2> SUFFICES ASSUME NEW d \in Callers
               PROVE  /\ resumes[d] <= 1
                      /\ gate[d].waiting
                           => /\ call'[d] = "draining" /\ resumes[d] = 0
                              /\ \A p \in Players \ gate[d].left : scheduled'[p] = {}
    BY <1>1 DEF GatesFit
  <2>1. /\ resumes[d] <= 1
        /\ gate[d].waiting => /\ call[d] = "draining" /\ resumes[d] = 0
                              /\ \A p \in Players \ gate[d].left : scheduled[p] = {}
    BY DEF IInv, GatesFit
  <2>2. CASE gate[d].waiting
    <3>1. call'[d] = "draining"  BY <1>8, <1>4, <2>1, <2>2
    <3>2. echoHeld = {}
      BY <2>1, <2>2 DEF IInv, StopsInOrder, PastFlush, PastBarrier, PastStream, PastAwait
    <3>3. \A p \in Players : scheduled'[p] = scheduled[p]  BY <1>8, <3>2 DEF Players
    <3> QED  BY <2>1, <2>2, <3>1, <3>3
  <2>3. CASE ~gate[d].waiting  BY <2>1, <2>3
  <2> QED  BY <2>2, <2>3
<1>17. DrainsFit'
  BY <1>1, <1>8, <1>4
  DEF IInv, TypeOK, DrainsFit, PastAwait, PastStream, PastBarrier, PastFlush, PastDrain,
     TornDown, StopsInOrder, Players
<1>18. TracksFit'
  <2>1. call[argument] \in PastBarrier  BY <1>4 DEF PastBarrier, PastStream, PastAwait
  <2>2. ~AudioWaits  BY <1>4, <2>1 DEF IInv, StopsInOrder
  <2>3. \A n \in Samples : ~IsToPlay(n)  BY <2>2, ToPlayWaits
  <2>4. \A n \in delivered : phase = "started" => Tracked(n) \/ n \in echoHeld
    BY <2>3 DEF IInv, TypeOK, TracksFit
  <2> QED  BY <1>1, <1>8, <2>4 DEF TracksFit
<1>19. SamplesFit'
  <2> SUFFICES ASSUME phase' = "started", ~(dropped' > 0), NEW n \in delivered',
                      \A d \in Callers : ~Wasted(d)'
               PROVE  Somewhere(n)'
    BY DEF SamplesFit
  <2>1. ASSUME NEW d \in Callers, Wasted(d) PROVE Wasted(d)'
    BY <2>1, <1>1, <1>5, <1>6, <1>8, <1>4 DEF Wasted, TornDown, IInv, JobsFollow, ClosesKept
  <2>2. Somewhere(n)  BY <1>1, <2>1 DEF IInv, SamplesFit
  <2> QED
    BY <2>2, <1>1, <1>5, <1>6, <1>8, <1>4
    DEF Somewhere, Players, AudioKept, WritesKept
<1>20. SlotsAreInFlight'
  BY <1>1, <1>5, <1>6 DEF IInv, TypeOK, SlotsAreInFlight, Writes, WritesKept
<1> QED
  BY <1>9, <1>10, <1>11, <1>12, <1>13, <1>14, <1>15, <1>16, <1>17, <1>18, <1>19, <1>20
  DEF IInv

\* The gate is set for both players.
LEMMA DrainsPreserves ==
  ASSUME IInv, NEW c \in Callers, Drain(c), engine = "on"
  PROVE  IInv'
<1>1. /\ call[c] = "drain"
      /\ UNCHANGED <<recording, phase, queue, isStopping, didReportFailure, reported,
                     startTask, cancelled, stream, capture, died, delivered, unreadable,
                     echo, echoHeld, tracks, trackErrors, engine, scheduled, inHand, pending,
                     dropped, file, writeErrors, resumes, drained, diagnostics>>
  BY DEF Drain, Goes, queueVars, startVars, streamVars, echoVars, engineVars, mixVars,
         stopVars
<1>2. queue' = queue  BY <1>1
<1>3. queue \in Seq(Jobs)  BY DEF IInv, TypeOK
<1>4. AudioKept /\ WritesKept /\ ResetKept /\ StopJobKept("mark") /\
      StopJobKept("barrier") /\ StopJobKept("flush") /\ StopJobKept("close") /\ ClosesKept
  BY <1>2, <1>3, QueueKept
<1>5. /\ call' = [call EXCEPT ![c] = "draining"]
      /\ gate' = [gate EXCEPT ![c] = [left |-> Players, waiting |-> TRUE]]
  BY DEF Drain, Goes
<1>6. /\ \A d \in Callers : call'[d] = IF d = c THEN "draining" ELSE call[d]
      /\ \A d \in Callers :
           IF d = c THEN gate'[d].left = Players /\ gate'[d].waiting
           ELSE gate'[d] = gate[d]
  BY <1>5 DEF IInv, TypeOK
<1>7. StreamIsKnown'
  BY <1>1 DEF IInv, StreamIsKnown
<1>8. Begun' /\ SlotsAreInFlight'
  BY <1>1, <1>4 DEF IInv, Begun, SlotsAreInFlight, WritesKept, Writes
<1>9. TypeOK'
  BY <1>1, <1>5 DEF IInv, TypeOK
<1>10. JobsFollow'
  BY <1>1, <1>6, <1>4
  DEF IInv, TypeOK, JobsFollow, AudioKept, WritesKept, ResetKept, StopJobKept
<1>11. BetweenRecordings'
  BY <1>1, <1>6, <1>4
  DEF IInv, TypeOK, BetweenRecordings, startTaskIsOver, AudioKept, WritesKept
<1>12. StopsInOrder'
  BY <1>1, <1>6, <1>4
  DEF IInv, TypeOK, StopsInOrder, startTaskIsOver, PastAwait, PastStream, PastBarrier,
     PastFlush, TornDown, AudioKept, WritesKept
<1>13. EngineRuns'
  BY <1>1, <1>6 DEF IInv, TypeOK, EngineRuns, TornDown
<1>14. GatesFit'
  BY <1>1, <1>6
  DEF IInv, TypeOK, GatesFit, BetweenRecordings, startTaskIsOver, DrainsFit, PastAwait,
     PastStream, PastBarrier, PastFlush, PastDrain
<1>15. DrainsFit'
  BY <1>1, <1>6
  DEF IInv, TypeOK, DrainsFit, PastAwait, PastStream, PastBarrier, PastFlush, PastDrain,
     TornDown
<1>16. TracksFit'
  BY <1>1, <1>6, <1>4
  DEF IInv, TypeOK, TracksFit, Tracked, PastAwait, PastStream, PastBarrier, PastFlush,
     AudioKept
<1>17. SamplesFit'
  <2> SUFFICES ASSUME phase' = "started", ~(dropped' > 0), NEW n \in delivered',
                      \A d \in Callers : ~Wasted(d)'
               PROVE  Somewhere(n)'
    BY DEF SamplesFit
  <2>1. ASSUME NEW d \in Callers, Wasted(d) PROVE Wasted(d)'
    BY <2>1, <1>1, <1>4, <1>6 DEF Wasted, TornDown, IInv, JobsFollow, ClosesKept
  <2>2. Somewhere(n)  BY <1>1, <2>1 DEF IInv, SamplesFit
  <2> QED  BY <2>2, <1>1, <1>4 DEF Somewhere, AudioKept, WritesKept
<1> QED
  BY <1>7, <1>8, <1>9, <1>10, <1>11, <1>12, <1>13, <1>14, <1>15, <1>16, <1>17
  DEF IInv

\* With the engine down there is nothing to drain.
LEMMA DrainSkipsPreserves ==
  ASSUME IInv, NEW c \in Callers, Drain(c), engine # "on"
  PROVE  IInv'
<1>1. /\ call[c] = "drain"
      /\ UNCHANGED <<recording, phase, queue, isStopping, didReportFailure, reported,
                     startTask, cancelled, stream, capture, died, delivered, unreadable,
                     echo, echoHeld, tracks, trackErrors, engine, scheduled, inHand, pending,
                     dropped, file, writeErrors, gate, resumes, drained, diagnostics>>
  BY DEF Drain, Goes, queueVars, startVars, streamVars, echoVars, engineVars, mixVars,
         stopVars
<1>2. queue' = queue  BY <1>1
<1>3. queue \in Seq(Jobs)  BY DEF IInv, TypeOK
<1>4. AudioKept /\ WritesKept /\ ResetKept /\ StopJobKept("mark") /\
      StopJobKept("barrier") /\ StopJobKept("flush") /\ StopJobKept("close") /\ ClosesKept
  BY <1>2, <1>3, QueueKept
<1>5. call' = [call EXCEPT ![c] = "tearing"]
  BY DEF Drain, Goes
<1>6. \A d \in Callers : call'[d] = IF d = c THEN "tearing" ELSE call[d]
  BY <1>5 DEF IInv, TypeOK
<1>7. StreamIsKnown'
  BY <1>1 DEF IInv, StreamIsKnown
<1>8. Begun' /\ SlotsAreInFlight'
  BY <1>1, <1>4 DEF IInv, Begun, SlotsAreInFlight, WritesKept, Writes
<1>9. TypeOK'
  BY <1>1, <1>5 DEF IInv, TypeOK
<1>10. JobsFollow'
  BY <1>1, <1>6, <1>4
  DEF IInv, TypeOK, JobsFollow, AudioKept, WritesKept, ResetKept, StopJobKept
<1>11. BetweenRecordings'
  BY <1>1, <1>6, <1>4
  DEF IInv, TypeOK, BetweenRecordings, startTaskIsOver, AudioKept, WritesKept
<1>12. StopsInOrder'
  BY <1>1, <1>6, <1>4
  DEF IInv, TypeOK, StopsInOrder, startTaskIsOver, PastAwait, PastStream, PastBarrier,
     PastFlush, TornDown, AudioKept, WritesKept
<1>13. EngineRuns'
  BY <1>1, <1>6 DEF IInv, TypeOK, EngineRuns, TornDown
<1>14. GatesFit'
  BY <1>1, <1>6 DEF IInv, TypeOK, GatesFit
<1>15. DrainsFit'
  BY <1>1, <1>6
  DEF IInv, TypeOK, DrainsFit, PastAwait, PastStream, PastBarrier, PastFlush, PastDrain,
     TornDown
<1>16. TracksFit'
  BY <1>1, <1>6, <1>4
  DEF IInv, TypeOK, TracksFit, Tracked, PastAwait, PastStream, PastBarrier, PastFlush,
     AudioKept
<1>17. SamplesFit'
  <2> SUFFICES ASSUME phase' = "started", ~(dropped' > 0), NEW n \in delivered',
                      \A d \in Callers : ~Wasted(d)'
               PROVE  Somewhere(n)'
    BY DEF SamplesFit
  <2>1. ASSUME NEW d \in Callers, Wasted(d) PROVE Wasted(d)'
    BY <2>1, <1>1, <1>4, <1>6 DEF Wasted, TornDown, IInv, JobsFollow, ClosesKept
  <2>2. Somewhere(n)  BY <1>1, <2>1 DEF IInv, SamplesFit
  <2> QED  BY <2>2, <1>1, <1>4 DEF Somewhere, AudioKept, WritesKept
<1> QED
  BY <1>7, <1>8, <1>9, <1>10, <1>11, <1>12, <1>13, <1>14, <1>15, <1>16, <1>17
  DEF IInv

\* A player that has played all it had leaves the gate.
LEMMA ArrivesPreserves ==
  ASSUME IInv, NEW c \in Callers, NEW p \in Players, Arrive(c, p),
         ~(gate[c].left \ {p} = {} /\ gate[c].waiting)
  PROVE  IInv'
<1>1. /\ p \in gate[c].left
      /\ engine = "off" \/ scheduled[p] = {}
      /\ UNCHANGED <<recording, phase, queue, isStopping, didReportFailure, reported,
                     startTask, cancelled, stream, capture, died, delivered, unreadable,
                     echo, echoHeld, tracks, trackErrors, engine, scheduled, inHand, pending,
                     dropped, file, writeErrors, call, resumes, drained, diagnostics>>
  BY DEF Arrive, arrive, resume, Goes, queueVars, startVars, streamVars, echoVars,
         engineVars, mixVars, stopVars
<1>2. queue' = queue  BY <1>1
<1>3. queue \in Seq(Jobs)  BY DEF IInv, TypeOK
<1>4. AudioKept /\ WritesKept /\ ResetKept /\ StopJobKept("mark") /\
      StopJobKept("barrier") /\ StopJobKept("flush") /\ StopJobKept("close") /\ ClosesKept
  BY <1>2, <1>3, QueueKept
<1>5. gate[c].waiting => call[c] = "draining"
  BY <1>1 DEF IInv, TypeOK, GatesFit
<1>6. gate' = [gate EXCEPT ![c] = [left |-> gate[c].left \ {p},
                                   waiting |-> gate[c].waiting /\ ~(gate[c].left \ {p} = {})]]
  BY DEF Arrive, arrive, resume, Goes
<1>7. \A d \in Callers :
           IF d = c THEN /\ gate'[d].left = gate[d].left \ {p}
                         /\ gate'[d].waiting
                              <=> gate[d].waiting /\ ~(gate[d].left \ {p} = {})
           ELSE gate'[d] = gate[d]
  BY <1>6 DEF IInv, TypeOK
<1>8. StreamIsKnown' /\ EngineRuns' /\ DrainsFit'
  BY <1>1 DEF IInv, StreamIsKnown, EngineRuns, DrainsFit
<1>9. /\ Begun' /\ JobsFollow' /\ BetweenRecordings' /\ StopsInOrder' /\ TracksFit'
      /\ SlotsAreInFlight'
  BY <1>1, <1>4
  DEF IInv, Begun, JobsFollow, BetweenRecordings, StopsInOrder, TracksFit, Tracked,
     SlotsAreInFlight, AudioKept, WritesKept, ResetKept, StopJobKept, Writes, startTaskIsOver
<1>10. TypeOK'
  BY <1>1, <1>6 DEF IInv, TypeOK
<1>11. GatesFit'
  BY <1>1, <1>7, <1>5 DEF IInv, TypeOK, GatesFit, EngineRuns
<1>12. SamplesFit'
  <2> SUFFICES ASSUME phase' = "started", ~(dropped' > 0), NEW n \in delivered',
                      \A d \in Callers : ~Wasted(d)'
               PROVE  Somewhere(n)'
    BY DEF SamplesFit
  <2>1. ASSUME NEW d \in Callers, Wasted(d) PROVE Wasted(d)'
    BY <2>1, <1>1, <1>4 DEF Wasted, ClosesKept
  <2>2. Somewhere(n)  BY <1>1, <2>1 DEF IInv, SamplesFit
  <2> QED  BY <2>2, <1>1, <1>4 DEF Somewhere, AudioKept, WritesKept
<1> QED  BY <1>8, <1>9, <1>10, <1>11, <1>12 DEF IInv

\* The last player to arrive resumes the stop, once, with nothing scheduled.
LEMMA ArrivesLastPreserves ==
  ASSUME IInv, NEW c \in Callers, NEW p \in Players, Arrive(c, p),
         gate[c].left \ {p} = {}, gate[c].waiting
  PROVE  IInv'
<1>1. /\ p \in gate[c].left
      /\ engine = "off" \/ scheduled[p] = {}
      /\ UNCHANGED <<recording, phase, queue, isStopping, didReportFailure, reported,
                     startTask, cancelled, stream, capture, died, delivered, unreadable,
                     echo, echoHeld, tracks, trackErrors, engine, scheduled, inHand, pending,
                     dropped, file, writeErrors, diagnostics>>
  BY DEF Arrive, arrive, resume, Goes, queueVars, startVars, streamVars, echoVars,
         engineVars, mixVars, stopVars
<1>2. queue' = queue  BY <1>1
<1>3. queue \in Seq(Jobs)  BY DEF IInv, TypeOK
<1>4. AudioKept /\ WritesKept /\ ResetKept /\ StopJobKept("mark") /\
      StopJobKept("barrier") /\ StopJobKept("flush") /\ StopJobKept("close") /\ ClosesKept
  BY <1>2, <1>3, QueueKept
<1>5. call[c] = "draining" /\ resumes[c] = 0
  BY <1>1 DEF IInv, TypeOK, GatesFit
<1>6. gate' = [gate EXCEPT ![c] = [left |-> gate[c].left \ {p},
                                   waiting |-> gate[c].waiting /\ ~(gate[c].left \ {p} = {})]]
      /\ resumes' = [resumes EXCEPT ![c] = @ + 1]
      /\ drained' = [drained EXCEPT ![c] = TRUE]
      /\ call' = [call EXCEPT ![c] = "tearing"]
  BY DEF Arrive, arrive, resume, Goes
<1>7. /\ \A d \in Callers :
           IF d = c THEN /\ gate'[d].left = gate[d].left \ {p}
                         /\ gate'[d].waiting
                              <=> gate[d].waiting /\ ~(gate[d].left \ {p} = {})
           ELSE gate'[d] = gate[d]
      /\ \A d \in Callers : resumes'[d] = IF d = c THEN resumes[c] + 1 ELSE resumes[d]
      /\ \A d \in Callers : drained'[d] <=> d = c \/ drained[d]
      /\ \A d \in Callers : call'[d] = IF d = c THEN "tearing" ELSE call[d]
  BY <1>6 DEF IInv, TypeOK
<1>8. StreamIsKnown'
  BY <1>1 DEF IInv, StreamIsKnown
<1>9. Begun' /\ SlotsAreInFlight'
  BY <1>1, <1>4 DEF IInv, Begun, SlotsAreInFlight, WritesKept, Writes
<1>10. TypeOK'
  BY <1>1, <1>6 DEF IInv, TypeOK
<1>11. JobsFollow'
  BY <1>1, <1>7, <1>5, <1>4
  DEF IInv, TypeOK, JobsFollow, AudioKept, WritesKept, ResetKept, StopJobKept
<1>12. BetweenRecordings'
  BY <1>1, <1>7, <1>5, <1>4
  DEF IInv, TypeOK, BetweenRecordings, startTaskIsOver, AudioKept, WritesKept
<1>13. StopsInOrder'
  <2>1. (AudioWaits' <=> AudioWaits) /\ (WriteWaits' <=> WriteWaits)
    BY <1>4 DEF AudioKept, WritesKept
  <2> SUFFICES ASSUME NEW d \in Callers
               PROVE  /\ call'[d] \in PastAwait => startTaskIsOver
                      /\ call'[d] \in PastStream => ~stream
                      /\ call'[d] \in PastBarrier => ~AudioWaits
                      /\ call'[d] \in PastFlush => echoHeld = {} /\ ~echo
                      /\ call'[d] \in TornDown => engine = "off" /\ inHand = {}
                      /\ call'[d] = "returned" => ~WriteWaits
                      /\ call'[d] \notin {"idle", "marking"} => isStopping
    BY <1>1, <2>1 DEF StopsInOrder, startTaskIsOver
  <2>2. CASE d = c
    BY <1>7, <1>5, <2>2
    DEF IInv, StopsInOrder, PastAwait, PastStream, PastBarrier, PastFlush, TornDown
  <2>3. CASE d # c
    BY <1>7, <2>3 DEF IInv, StopsInOrder
  <2> QED  BY <2>2, <2>3
<1>14. EngineRuns'
  BY <1>1, <1>7, <1>5 DEF IInv, TypeOK, EngineRuns, TornDown
<1>15. GatesFit'
  <2> SUFFICES ASSUME NEW d \in Callers
               PROVE  /\ resumes'[d] <= 1
                      /\ gate'[d].waiting
                           => /\ call'[d] = "draining" /\ resumes'[d] = 0
                              /\ \A q \in Players \ gate'[d].left : scheduled'[q] = {}
    BY DEF GatesFit
  <2>1. /\ resumes[d] <= 1
        /\ gate[d].waiting => /\ call[d] = "draining" /\ resumes[d] = 0
                              /\ \A q \in Players \ gate[d].left : scheduled[q] = {}
    BY DEF IInv, GatesFit
  <2>2. CASE d = c
    <3>1. resumes'[d] = 1 /\ ~gate'[d].waiting  BY <1>1, <1>7, <1>5, <2>2
    <3> QED  BY <3>1
  <2>3. CASE d # c
    <3>1. gate'[d] = gate[d] /\ resumes'[d] = resumes[d] /\ call'[d] = call[d]
      BY <1>7, <2>3
    <3> QED  BY <1>1, <2>1, <3>1
  <2> QED  BY <2>2, <2>3
<1>16. DrainsFit'
  <2>1. phase = "started" => \A q \in Players : scheduled[q] = {}
    BY <1>1, <1>5 DEF IInv, TypeOK, GatesFit, EngineRuns
  <2> QED
    BY <1>1, <1>7, <1>5, <2>1
    DEF IInv, TypeOK, DrainsFit, PastDrain, PastFlush, PastBarrier, PastStream, PastAwait
<1>17. TracksFit'
  BY <1>1, <1>7, <1>5, <1>4
  DEF IInv, TypeOK, TracksFit, Tracked, PastAwait, PastStream, PastBarrier, PastFlush,
     AudioKept
<1>18. SamplesFit'
  <2> SUFFICES ASSUME phase' = "started", ~(dropped' > 0), NEW n \in delivered',
                      \A d \in Callers : ~Wasted(d)'
               PROVE  Somewhere(n)'
    BY DEF SamplesFit
  <2>1. ASSUME NEW d \in Callers, Wasted(d) PROVE Wasted(d)'
    BY <2>1, <1>1, <1>4, <1>7 DEF Wasted, TornDown, IInv, JobsFollow, GatesFit, ClosesKept
  <2>2. Somewhere(n)  BY <1>1, <2>1 DEF IInv, SamplesFit
  <2> QED  BY <2>2, <1>1, <1>4 DEF Somewhere, AudioKept, WritesKept
<1> QED
  BY <1>8, <1>9, <1>10, <1>11, <1>12, <1>13, <1>14, <1>15, <1>16, <1>17, <1>18
  DEF IInv

\* The timeout resumes the stop if no player did; the gate no longer waits.
LEMMA ExpirePreserves ==
  ASSUME IInv, NEW c \in Callers, Expire(c)
  PROVE  IInv'
<1>1. /\ gate[c].waiting
      /\ UNCHANGED <<recording, phase, queue, isStopping, didReportFailure, reported,
                     startTask, cancelled, stream, capture, died, delivered, unreadable,
                     echo, echoHeld, tracks, trackErrors, engine, scheduled, inHand, pending,
                     dropped, file, writeErrors, diagnostics>>
  BY DEF Expire, expire, resume, Goes, queueVars, startVars, streamVars, echoVars,
         engineVars, mixVars, stopVars
<1>2. queue' = queue  BY <1>1
<1>3. queue \in Seq(Jobs)  BY DEF IInv, TypeOK
<1>4. AudioKept /\ WritesKept /\ ResetKept /\ StopJobKept("mark") /\
      StopJobKept("barrier") /\ StopJobKept("flush") /\ StopJobKept("close") /\ ClosesKept
  BY <1>2, <1>3, QueueKept
<1>5. call[c] = "draining" /\ resumes[c] = 0
  BY <1>1 DEF IInv, TypeOK, GatesFit
<1>6. /\ gate' = [gate EXCEPT ![c].waiting = FALSE]
      /\ resumes' = [resumes EXCEPT ![c] = @ + 1]
      /\ drained' = [drained EXCEPT ![c] = FALSE]
      /\ call' = [call EXCEPT ![c] = "tearing"]
  BY DEF Expire, expire, resume, Goes
<1>7. /\ \A d \in Callers :
           IF d = c THEN gate'[d].left = gate[d].left /\ ~gate'[d].waiting
           ELSE gate'[d] = gate[d]
      /\ \A d \in Callers : resumes'[d] = IF d = c THEN resumes[c] + 1 ELSE resumes[d]
      /\ \A d \in Callers : drained'[d] <=> d # c /\ drained[d]
      /\ \A d \in Callers : call'[d] = IF d = c THEN "tearing" ELSE call[d]
  BY <1>6 DEF IInv, TypeOK
<1>8. StreamIsKnown'
  BY <1>1 DEF IInv, StreamIsKnown
<1>9. Begun' /\ SlotsAreInFlight'
  BY <1>1, <1>4 DEF IInv, Begun, SlotsAreInFlight, WritesKept, Writes
<1>10. TypeOK'
  <2>1. gate' \in [Callers -> [left : SUBSET Players, waiting : BOOLEAN]]
    BY <1>6 DEF IInv, TypeOK
  <2>2. /\ resumes' \in [Callers -> Nat] /\ drained' \in [Callers -> BOOLEAN]
        /\ call' \in [Callers -> {"idle", "marking", "cancelling", "awaiting", "stopping",
                               "stopped", "barrier", "flush", "flushing", "drain",
                               "draining", "tearing", "closing", "returned"}]
    BY <1>6 DEF IInv, TypeOK
  <2> QED  BY <1>1, <2>1, <2>2 DEF IInv, TypeOK
<1>11. JobsFollow'
  BY <1>1, <1>7, <1>5, <1>4
  DEF IInv, TypeOK, JobsFollow, AudioKept, WritesKept, ResetKept, StopJobKept
<1>12. BetweenRecordings'
  BY <1>1, <1>7, <1>5, <1>4
  DEF IInv, TypeOK, BetweenRecordings, startTaskIsOver, AudioKept, WritesKept
<1>13. StopsInOrder'
  BY <1>1, <1>7, <1>5, <1>4
  DEF IInv, TypeOK, StopsInOrder, startTaskIsOver, PastAwait, PastStream, PastBarrier,
     PastFlush, TornDown, AudioKept, WritesKept
<1>14. EngineRuns'
  BY <1>1, <1>7, <1>5 DEF IInv, TypeOK, EngineRuns, TornDown
<1>15. GatesFit'
  <2> SUFFICES ASSUME NEW d \in Callers
               PROVE  /\ resumes'[d] <= 1
                      /\ gate'[d].waiting
                           => /\ call'[d] = "draining" /\ resumes'[d] = 0
                              /\ \A q \in Players \ gate'[d].left : scheduled'[q] = {}
    BY DEF GatesFit
  <2>1. /\ resumes[d] <= 1
        /\ gate[d].waiting => /\ call[d] = "draining" /\ resumes[d] = 0
                              /\ \A q \in Players \ gate[d].left : scheduled[q] = {}
    BY DEF IInv, GatesFit
  <2>2. CASE d = c
    <3>1. resumes'[d] = 1 /\ ~gate'[d].waiting  BY <1>1, <1>7, <1>5, <2>2
    <3> QED  BY <3>1
  <2>3. CASE d # c
    <3>1. gate'[d] = gate[d] /\ resumes'[d] = resumes[d] /\ call'[d] = call[d]
      BY <1>7, <2>3
    <3> QED  BY <1>1, <2>1, <3>1
  <2> QED  BY <2>2, <2>3
<1>16. DrainsFit'
  BY <1>1, <1>7, <1>5
  DEF IInv, TypeOK, DrainsFit, PastAwait, PastStream, PastBarrier, PastFlush, PastDrain,
     TornDown
<1>17. TracksFit'
  BY <1>1, <1>7, <1>5, <1>4
  DEF IInv, TypeOK, TracksFit, Tracked, PastAwait, PastStream, PastBarrier, PastFlush,
     AudioKept
<1>18. SamplesFit'
  <2> SUFFICES ASSUME phase' = "started", ~(dropped' > 0), NEW n \in delivered',
                      \A d \in Callers : ~Wasted(d)'
               PROVE  Somewhere(n)'
    BY DEF SamplesFit
  <2>1. ASSUME NEW d \in Callers, Wasted(d) PROVE Wasted(d)'
    BY <2>1, <1>1, <1>4, <1>7 DEF Wasted, TornDown, IInv, JobsFollow, GatesFit, ClosesKept
  <2>2. Somewhere(n)  BY <1>1, <2>1 DEF IInv, SamplesFit
  <2> QED  BY <2>2, <1>1, <1>4 DEF Somewhere, AudioKept, WritesKept
<1> QED
  BY <1>8, <1>9, <1>10, <1>11, <1>12, <1>13, <1>14, <1>15, <1>16, <1>17, <1>18
  DEF IInv

\* The engine is stopped; the close is queued behind every write and every earlier close.
LEMMA TearDownPreserves ==
  ASSUME IInv, NEW c \in Callers, TearDown(c)
  PROVE  IInv'
<1>1. /\ call[c] = "tearing"
      /\ inHand = {}
      /\ engine' = "off"
      /\ enqueue("close", c)
      /\ UNCHANGED <<recording, phase, isStopping, didReportFailure, reported, startTask,
                     cancelled, stream, capture, died, delivered, unreadable, echo, echoHeld,
                     tracks, trackErrors, inHand, pending, dropped, file, writeErrors, gate,
                     resumes, drained, diagnostics>>
  BY DEF TearDown, Goes, queueVars, startVars, streamVars, echoVars, engineVars, mixVars,
         stopVars
<1>2. <<"close", c>> \in Jobs /\ enqueue("close", c)
  BY <1>1, BoundsAssumption DEF IInv, TypeOK, Begun, Jobs
<1>3. queue \in Seq(Jobs)  BY DEF IInv, TypeOK
<1>4. AudioKept /\ WritesKept /\ ResetKept /\ StopJobKept("mark") /\
      StopJobKept("barrier") /\ StopJobKept("flush")
  BY <1>2, <1>3, Enqueued
  DEF AudioKept, WritesKept, ResetKept, StopJobKept, IsToPlay
<1>5. /\ queue' \in Seq(Jobs)
      /\ \A d \in Callers : Waits("close", d)' <=> Waits("close", d) \/ d = c
      /\ \A d \in Callers : WaitsOnce("close", d) /\ (d = c => ~Waits("close", d))
                           => WaitsOnce("close", d)'
      /\ \A d, b \in Callers : ClosesBefore(b, d) /\ (b = c => d # b /\ ~Waits("close", d))
                              => ClosesBefore(b, d)'
  BY <1>2, <1>3, Enqueued
<1>6. /\ scheduled' = [p \in Players |-> {}]
      /\ call' = [call EXCEPT ![c] = "closing"]
  BY DEF TearDown, Goes
<1>7. /\ \A p \in Players : scheduled'[p] = {}
      /\ \A d \in Callers : call'[d] = IF d = c THEN "closing" ELSE call[d]
  BY <1>6 DEF IInv, TypeOK, Players
<1>8. StreamIsKnown'
  BY <1>1 DEF IInv, StreamIsKnown
<1>9. TypeOK'
  BY <1>1, <1>6, <1>5 DEF IInv, TypeOK, Players
<1>10. Begun'
  BY <1>1, <1>7, <1>4, <1>5 DEF IInv, TypeOK, Begun, BetweenRecordings, startTaskIsOver
<1>11. JobsFollow'
  BY <1>1, <1>7, <1>4, <1>5
  DEF IInv, TypeOK, JobsFollow, AudioKept, WritesKept, ResetKept, StopJobKept
<1>12. BetweenRecordings'
  BY <1>1, <1>7, <1>4, <1>5
  DEF IInv, TypeOK, BetweenRecordings, startTaskIsOver, AudioKept, WritesKept
<1>13. StopsInOrder'
  BY <1>1, <1>7, <1>4, <1>5
  DEF IInv, TypeOK, StopsInOrder, startTaskIsOver, PastAwait, PastStream, PastBarrier,
     PastFlush, TornDown, AudioKept, WritesKept
<1>14. EngineRuns'
  BY <1>1, <1>7 DEF IInv, TypeOK, EngineRuns, TornDown
<1>15. GatesFit'
  BY <1>1, <1>7 DEF IInv, TypeOK, GatesFit
<1>16. DrainsFit'
  BY <1>1, <1>7
  DEF IInv, TypeOK, DrainsFit, PastAwait, PastStream, PastBarrier, PastFlush, PastDrain,
     TornDown
<1>17. TracksFit'
  BY <1>1, <1>7, <1>4, <1>5
  DEF IInv, TypeOK, TracksFit, Tracked, PastAwait, PastStream, PastBarrier, PastFlush,
     AudioKept
<1>18. SamplesFit'
  <2> SUFFICES ASSUME phase' = "started", ~(dropped' > 0), NEW n \in delivered',
                      \A d \in Callers : ~Wasted(d)'
               PROVE  Somewhere(n)'
    BY DEF SamplesFit
  <2>1. ~Waits("close", c)  BY <1>1 DEF IInv, JobsFollow
  <2>2. \A d \in Callers : ClosesBefore(d, c)  BY <2>1 DEF ClosesBefore, Before, Waits, In
  <2>3. ASSUME NEW d \in Callers, Wasted(d) PROVE Wasted(d)'
    <3>1. d # c  BY <1>1, <2>3 DEF Wasted, TornDown
    <3>2. ClosesBefore(d, c)'  BY <1>4, <1>5, <2>2, <3>1
    <3>3. ASSUME NEW b \in Callers, ClosesBefore(d, b) PROVE ClosesBefore(d, b)'
      BY <1>4, <1>5, <3>1, <3>3
    <3> QED  BY <1>1, <1>7, <2>3, <3>1, <3>2, <3>3 DEF Wasted, TornDown
  <2>4. Somewhere(n)  BY <1>1, <2>3 DEF IInv, SamplesFit
  <2>5. CASE \E d \in Callers : drained[d]
    <3>1. \A p \in Players : scheduled[p] = {}  BY <1>1, <2>5 DEF IInv, DrainsFit
    <3> QED  BY <1>1, <1>4, <1>5, <2>4, <3>1 DEF Somewhere, AudioKept, WritesKept
  <2>6. CASE ~\E d \in Callers : drained[d]
    BY <1>1, <1>7, <2>6 DEF Wasted, TornDown
  <2> QED  BY <2>5, <2>6
<1>19. SlotsAreInFlight'
  BY <1>1, <1>4, <1>5 DEF IInv, TypeOK, SlotsAreInFlight, Writes, WritesKept
<1> QED
  BY <1>8, <1>9, <1>10, <1>11, <1>12, <1>13, <1>14, <1>15, <1>16, <1>17, <1>18, <1>19
  DEF IInv

\* When the close runs, no write waits: the files are closed with all they will get.
LEMMA CloseRunsPreserves ==
  ASSUME IInv, CloseRuns
  PROVE  IInv'
<1>1. /\ Serving("close")
      /\ queue' = Tail(queue)
      /\ UNCHANGED <<recording, phase, isStopping, didReportFailure, reported, startTask,
                     cancelled, stream, capture, died, delivered, unreadable, echo, echoHeld,
                     tracks, trackErrors, engine, scheduled, inHand, pending, dropped, file,
                     writeErrors, gate, resumes, drained>>
  BY DEF CloseRuns, Goes, queueVars, startVars, streamVars, echoVars, engineVars, mixVars,
         stopVars
<1>2. Dequeues("close")  BY <1>1 DEF Dequeues
<1>3. queue \in Seq(Jobs)  BY DEF IInv, TypeOK
<1>4. /\ argument \in Callers /\ Waits("close", argument) /\ call[argument] = "closing"
      /\ WaitsOnce("close", argument)
  BY <1>2, <1>3, Served DEF IInv, JobsFollow
<1>5. AudioKept /\ WritesKept /\ ResetKept /\ StopJobKept("mark") /\
      StopJobKept("barrier") /\ StopJobKept("flush")
  BY <1>2, <1>3, Served
  DEF AudioKept, WritesKept, ResetKept, StopJobKept, IsToPlay
<1>6. /\ queue' \in Seq(Jobs)
      /\ WritesAreFirst => ~WriteWaits
      /\ \A d \in Callers : Waits("close", d)' <=> Waits("close", d) /\ d # argument
      /\ \A d \in Callers : WaitsOnce("close", d) => WaitsOnce("close", d)'
      /\ \A d, b \in Callers : ClosesBefore(b, d)
                   => ClosesBefore(b, d)' /\ (d = argument => ~Waits("close", b))
  BY <1>2, <1>3, Served, <1>4
<1>7. /\ diagnostics' = [diagnostics EXCEPT ![argument] = dropped]
      /\ call' = [call EXCEPT ![argument] = "returned"]
  BY DEF CloseRuns, Goes
<1>8. /\ \A d \in Callers : diagnostics'[d] = IF d = argument THEN dropped ELSE diagnostics[d]
      /\ \A d \in Callers : call'[d] = IF d = argument THEN "returned" ELSE call[d]
  BY <1>7, <1>4 DEF IInv, TypeOK
<1>9. StreamIsKnown'
  BY <1>1 DEF IInv, StreamIsKnown
<1>10. TypeOK'
  BY <1>1, <1>7, <1>6, <1>4 DEF IInv, TypeOK
<1>11. Begun'
  BY <1>1, <1>8, <1>5, <1>6, <1>4 DEF IInv, TypeOK, Begun
<1>12. JobsFollow'
  BY <1>1, <1>8, <1>5, <1>6, <1>4
  DEF IInv, TypeOK, JobsFollow, AudioKept, WritesKept, ResetKept, StopJobKept
<1>13. BetweenRecordings'
  BY <1>1, <1>8, <1>5, <1>6, <1>4
  DEF IInv, TypeOK, BetweenRecordings, startTaskIsOver, AudioKept, WritesKept
<1>14. StopsInOrder'
  BY <1>1, <1>8, <1>5, <1>6, <1>4
  DEF IInv, TypeOK, StopsInOrder, startTaskIsOver, PastAwait, PastStream, PastBarrier,
     PastFlush, TornDown, AudioKept, WritesKept, JobsFollow
<1>15. EngineRuns'
  BY <1>1, <1>8, <1>4 DEF IInv, TypeOK, EngineRuns, TornDown
<1>16. GatesFit'
  BY <1>1, <1>8, <1>4 DEF IInv, TypeOK, GatesFit
<1>17. DrainsFit'
  BY <1>1, <1>8, <1>4
  DEF IInv, TypeOK, DrainsFit, PastAwait, PastStream, PastBarrier, PastFlush, PastDrain,
     TornDown
<1>18. TracksFit'
  BY <1>1, <1>8, <1>5, <1>6, <1>4
  DEF IInv, TypeOK, TracksFit, Tracked, PastAwait, PastStream, PastBarrier, PastFlush,
     AudioKept
<1>19. SamplesFit'
  <2> SUFFICES ASSUME phase' = "started", ~(dropped' > 0), NEW n \in delivered',
                      \A d \in Callers : ~Wasted(d)'
               PROVE  Somewhere(n)'
    BY DEF SamplesFit
  <2>1. ASSUME NEW d \in Callers, Wasted(d) PROVE Wasted(d)'
    BY <2>1, <1>1, <1>5, <1>6, <1>8, <1>4 DEF Wasted, TornDown, IInv, JobsFollow
  <2>2. Somewhere(n)  BY <1>1, <2>1 DEF IInv, SamplesFit
  <2> QED  BY <2>2, <1>1, <1>5, <1>6 DEF Somewhere, AudioKept, WritesKept
<1>20. SlotsAreInFlight'
  BY <1>1, <1>5, <1>6 DEF IInv, TypeOK, SlotsAreInFlight, Writes, WritesKept
<1> QED
  BY <1>9, <1>10, <1>11, <1>12, <1>13, <1>14, <1>15, <1>16, <1>17, <1>18, <1>19, <1>20
  DEF IInv

\* A step that changes nothing preserves it.
LEMMA StutterPreserves ==
  ASSUME IInv, UNCHANGED vars
  PROVE  IInv'
<1>1. UNCHANGED <<recording, phase, queue, isStopping, didReportFailure, reported, startTask,
                  cancelled, stream, capture, died, delivered, unreadable, echo, echoHeld,
                  tracks, trackErrors, engine, scheduled, inHand, pending, dropped, file,
                  writeErrors, call, gate, resumes, drained, diagnostics>>
  BY DEF vars, queueVars, startVars, streamVars, echoVars, engineVars, mixVars, stopVars
<1>2. queue' = queue  BY <1>1
<1>3. queue \in Seq(Jobs)  BY DEF IInv, TypeOK
<1>5. AudioKept /\ WritesKept /\ ResetKept /\ StopJobKept("mark") /\
      StopJobKept("barrier") /\ StopJobKept("flush") /\ StopJobKept("close") /\ ClosesKept
  BY <1>2, <1>3, QueueKept
<1>9. StreamIsKnown' /\ EngineRuns' /\ GatesFit' /\ DrainsFit'
  BY <1>1 DEF IInv, StreamIsKnown, EngineRuns, GatesFit, DrainsFit
<1>10. /\ Begun' /\ JobsFollow' /\ BetweenRecordings' /\ StopsInOrder' /\ TracksFit'
       /\ SamplesFit' /\ SlotsAreInFlight'
  BY <1>1, <1>5
  DEF IInv, Begun, JobsFollow, BetweenRecordings, StopsInOrder, TracksFit, Tracked,
     SamplesFit, SlotsAreInFlight, AudioKept, WritesKept, ResetKept, StopJobKept, ClosesKept,
     Writes, startTaskIsOver, Somewhere, Wasted
<1>11. TypeOK'
  BY <1>1 DEF IInv, TypeOK
<1> QED  BY <1>9, <1>10, <1>11 DEF IInv

-----------------------------------------------------------------------------
(* The invariant holds.                                                     *)

\* Nothing has been recorded yet.
LEMMA InitIInv == Init => IInv
<1> SUFFICES ASSUME Init PROVE IInv  OBVIOUS
<1> USE DEF Init
<1>1. queue = << >> /\ DOMAIN queue = {}  OBVIOUS
<1>2. /\ \A k, y : ~Waits(k, y) /\ WaitsOnce(k, y)
      /\ ~AudioWaits /\ ~WriteWaits /\ ~ResetWaits /\ Once(queue, ResetJobs)
      /\ AudioIsFirst /\ WritesAreFirst
  BY <1>1 DEF Waits, WaitsOnce, AudioWaits, WriteWaits, ResetWaits, In, Once, Before,
     AudioIsFirst, WritesAreFirst
<1>3. TypeOK
  <2>1. recording \in 0..MaxRecordings  BY BoundsAssumption
  <2>2. queue \in Seq(Jobs) /\ reported \in Seq((1..MaxRecordings) \X (1..MaxRecordings))
    OBVIOUS
  <2>3. died \subseteq 1..MaxRecordings  OBVIOUS
  <2>4. gate \in [Callers -> [left : SUBSET Players, waiting : BOOLEAN]]  OBVIOUS
  <2> QED  BY <2>1, <2>2, <2>3, <2>4 DEF TypeOK
<1>4. Begun  BY DEF Begun
<1>5. JobsFollow  BY <1>2 DEF JobsFollow
<1>6. BetweenRecordings  BY <1>2 DEF BetweenRecordings, startTaskIsOver
<1>7. StreamIsKnown  BY DEF StreamIsKnown
<1>8. StopsInOrder
  BY DEF StopsInOrder, PastAwait, PastStream, PastBarrier, PastFlush, TornDown
<1>9. EngineRuns  BY DEF EngineRuns
<1>10. GatesFit  BY DEF GatesFit
<1>11. DrainsFit /\ TracksFit /\ SamplesFit  BY DEF DrainsFit, TracksFit, Tracked, SamplesFit
<1>12. SlotsAreInFlight
  <2>1. Cardinality(Writes(queue)) = 0  BY <1>2, <1>3, WritesCounted DEF TypeOK
  <2> QED  BY <2>1 DEF SlotsAreInFlight, Writes
<1> QED
  BY <1>3, <1>4, <1>5, <1>6, <1>7, <1>8, <1>9, <1>10, <1>11, <1>12 DEF IInv

\* Every step keeps the invariant.
LEMMA NextIInv == IInv /\ [Next]_vars => IInv'
<1> SUFFICES ASSUME IInv, [Next]_vars PROVE IInv'  OBVIOUS
<1>1. CASE Start  BY <1>1, StartPreserves
<1>2. CASE StartEngine  BY <1>2, StartEnginePreserves
<1>3. CASE StartFails  BY <1>3, StartFailsPreserves
<1>4. CASE QueueStep
  <2>1. CASE ResetRuns  BY <2>1, ResetRunsPreserves
  <2>2. CASE ReportRuns
    <3>1. CASE isStopping \/ didReportFailure  BY <2>2, <3>1, ReportIgnoredPreserves
    <3>2. CASE ~(isStopping \/ didReportFailure)  BY <2>2, <3>2, ReportDeliveredPreserves
    <3> QED  BY <3>1, <3>2
  <2>3. CASE SystemSampleRuns
    <3>1. PICK cleaned : /\ cleaned \in {{}, echoHeld} /\ schedule({argument}, cleaned)
                         /\ echoHeld' = echoHeld \ cleaned
      BY <2>3 DEF SystemSampleRuns, Releases
    <3> QED  BY <2>3, <3>1, SystemSampleRunsPreserves
  <2>4. CASE MicSampleRuns
    <3>1. PICK held : /\ held \subseteq echoHeld \cup {argument} /\ schedule({}, held)
                      /\ ~echo => held = {argument} /\ echoHeld' = echoHeld
                      /\ echo => echoHeld' = (echoHeld \cup {argument}) \ held
      <4>1. CASE echo
        <5>1. PICK held \in {{}, echoHeld \cup {argument}} :
                /\ schedule({}, held) /\ echoHeld' = (echoHeld \cup {argument}) \ held
          BY <2>4, <4>1 DEF MicSampleRuns, Releases
        <5> QED  BY <4>1, <5>1
      <4>2. CASE ~echo
        <5>1. schedule({}, {argument}) /\ echoHeld' = echoHeld
          BY <2>4, <4>2 DEF MicSampleRuns
        <5> QED  BY <4>2, <5>1
      <4> QED  BY <4>1, <4>2
    <3> QED  BY <2>4, <3>1, MicSampleRunsPreserves
  <2>5. CASE WriteRuns  BY <2>5, WriteRunsPreserves
  <2>6. CASE MarkRuns  BY <2>6, MarkRunsPreserves
  <2>7. CASE BarrierRuns  BY <2>7, BarrierRunsPreserves
  <2>8. CASE FlushRuns  BY <2>8, FlushRunsPreserves
  <2>9. CASE CloseRuns  BY <2>9, CloseRunsPreserves
  <2>10. CASE UnreadableSampleRuns
    <3>1. PICK kind \in {"audio", "microphone"} : Serving(kind)
      BY <2>10 DEF UnreadableSampleRuns
    <3> QED  BY <2>10, <3>1, UnreadableSampleRunsPreserves
  <2> QED
    BY <1>4, <2>1, <2>2, <2>3, <2>4, <2>5, <2>6, <2>7, <2>8, <2>9, <2>10 DEF QueueStep
<1>5. CASE StartTaskStep
  <2>1. CASE ContentArrives
    <3>1. CASE StartTaskThrows  BY <2>1, <3>1, ContentThrowsPreserves
    <3>2. CASE ~StartTaskThrows /\ cancelled  BY <2>1, <3>2, ContentGivesUpPreserves
    <3>3. CASE ~StartTaskThrows /\ ~cancelled  BY <2>1, <3>3, ContentPublishesPreserves
    <3> QED  BY <3>1, <3>2, <3>3
  <2>2. CASE CaptureStarts
    <3>1. CASE StartTaskThrows  BY <2>2, <3>1, CaptureThrowsPreserves
    <3>2. CASE ~StartTaskThrows  BY <2>2, <3>2, CaptureStartsPreserves
    <3> QED  BY <3>1, <3>2
  <2>3. CASE StartAborted  BY <2>3, StartAbortedPreserves
  <2> QED  BY <1>5, <2>1, <2>2, <2>3 DEF StartTaskStep
<1>6. CASE \E n \in Samples, kind \in {"audio", "microphone"} : Deliver(n, kind)
  BY <1>6, DeliverPreserves
<1>7. CASE StreamDies  BY <1>7, StreamDiesPreserves
<1>8. CASE \E r \in died : DidStopWithError(r)  BY <1>8, DidStopPreserves
<1>9. CASE EchoPoll  BY <1>9, EchoPollPreserves
<1>10. CASE TapEnqueues  BY <1>10, TapEnqueuesPreserves
<1>11. CASE CopyFails  BY <1>11, CopyFailsPreserves
<1>12. CASE EngineStops  BY <1>12, EngineStopsPreserves
<1>13. CASE \E ps \in (SUBSET Players) \ {{}} : Render(ps)  BY <1>13, RenderPreserves
<1>14. CASE \E c \in Callers : Stop(c)  BY <1>14, StopPreserves
<1>15. CASE \E c \in Callers : StopStep(c)
  <2>1. PICK c \in Callers : StopStep(c)  BY <1>15
  <2>2. CASE CancelStart(c)  BY <2>2, CancelStartPreserves
  <2>3. CASE StartTaskOver(c)  BY <2>3, StartTaskOverPreserves
  <2>4. CASE StopCapture(c)  BY <2>4, StopCapturePreserves
  <2>5. CASE Barrier(c)  BY <2>5, BarrierPreserves
  <2>6. CASE Flush(c)  BY <2>6, FlushPreserves
  <2>7. CASE Drain(c)
    <3>1. CASE engine = "on"  BY <2>7, <3>1, DrainsPreserves
    <3>2. CASE engine # "on"  BY <2>7, <3>2, DrainSkipsPreserves
    <3> QED  BY <3>1, <3>2
  <2>8. CASE Expire(c)  BY <2>8, ExpirePreserves
  <2>9. CASE TearDown(c)  BY <2>9, TearDownPreserves
  <2> QED  BY <2>1, <2>2, <2>3, <2>4, <2>5, <2>6, <2>7, <2>8, <2>9 DEF StopStep
<1>16. CASE \E c \in Callers, p \in Players : Arrive(c, p)
  <2>1. PICK c \in Callers, p \in Players : Arrive(c, p)  BY <1>16
  <2>2. CASE gate[c].left \ {p} = {} /\ gate[c].waiting
    BY <2>1, <2>2, ArrivesLastPreserves
  <2>3. CASE ~(gate[c].left \ {p} = {} /\ gate[c].waiting)
    BY <2>1, <2>3, ArrivesPreserves
  <2> QED  BY <2>2, <2>3
<1>17. CASE UNCHANGED vars  BY <1>17, StutterPreserves
<1> QED
  BY <1>1, <1>2, <1>3, <1>4, <1>5, <1>6, <1>7, <1>8, <1>9, <1>10, <1>11, <1>12, <1>13,
     <1>14, <1>15, <1>16, <1>17 DEF Next

\* The recorder's inductive invariant.
THEOREM Invariance == Spec => []IInv
BY InitIInv, NextIInv, PTL DEF Spec

-----------------------------------------------------------------------------
(* What it implies.                                                         *)

\* When stop() has returned, no drain timed out and no block is reported as
\* dropped, every sample delivered is in the mix, in a logged write error, or
\* could not be read in the first place.
THEOREM NothingIsLost == Spec => []NothingIsLostSilently
<1>1. ASSUME IInv PROVE NothingIsLostSilently
  <2> DEFINE returned == {c \in Callers : call[c] = "returned"}
  <2> SUFFICES ASSUME returned # {}, \A c \in returned : drained[c] /\ diagnostics[c] = 0,
                      NEW n \in delivered
               PROVE  n \in file \cup writeErrors \cup unreadable
    BY DEF NothingIsLostSilently
  <2>1. PICK c \in Callers : call[c] = "returned"  OBVIOUS
  <2>2. drained[c] /\ diagnostics[c] = 0  BY <2>1
  <2>3. phase = "started"  BY <1>1, <2>1 DEF IInv, BetweenRecordings
  <2>4. dropped = 0 /\ \A p \in Players : scheduled[p] = {}
    BY <1>1, <2>1, <2>2, <2>3 DEF IInv, DrainsFit
  <2>5. ASSUME NEW d \in Callers PROVE ~Wasted(d)
    BY <2>1, <2>2 DEF Wasted, TornDown
  <2>6. Somewhere(n)  BY <1>1, <2>3, <2>4, <2>5 DEF IInv, SamplesFit
  <2>7. ~AudioWaits /\ ~WriteWaits /\ echoHeld = {} /\ inHand = {}
    BY <1>1, <2>1
    DEF IInv, StopsInOrder, PastFlush, PastBarrier, PastStream, PastAwait, TornDown
  <2>8. ~IsToPlay(n) /\ ~IsToBeWritten(n)
    BY <1>1, <2>7, ToPlayWaits, ToWriteWaits DEF IInv, TypeOK
  <2> QED  BY <2>4, <2>6, <2>7, <2>8 DEF Somewhere
<1> QED  BY <1>1, Invariance, PTL

\* When stop() has returned, and whatever the drain and the mix did, all the
\* tracks lack of the samples delivered is what could not be read and what their
\* own files did not take.
THEOREM TracksLoseNothingElse == Spec => []TracksLoseOnlyFailedWrites
<1>1. IInv => TracksLoseOnlyFailedWrites
  BY DEF IInv, TracksFit, Tracked, TracksLoseOnlyFailedWrites, Stopped, BetweenRecordings,
     PastFlush, PastBarrier, PastStream, PastAwait
<1> QED  BY <1>1, Invariance, PTL

\* A stop() that has returned leaves no stream capturing, and none that a slow
\* start Task could still publish.
THEOREM StreamsEnd == Spec => []NoStreamOutlivesStop
<1>1. ASSUME IInv PROVE NoStreamOutlivesStop
  <2> SUFFICES ASSUME NEW c \in Callers, call[c] = "returned"
               PROVE  capture # "on" /\ ~stream /\ startTask \in {"none", "done"}
    BY DEF NoStreamOutlivesStop, Stopped
  <2>1. startTaskIsOver /\ ~stream
    BY <1>1 DEF IInv, StopsInOrder, PastStream, PastAwait
  <2> QED  BY <1>1, <2>1 DEF IInv, StreamIsKnown, startTaskIsOver
<1> QED  BY <1>1, Invariance, PTL

\* A step that leaves the players' queues alone, or empties them, schedules
\* nothing.
LEMMA SchedulesNothing ==
  ASSUME \A p \in Players : scheduled'[p] \in {scheduled[p], {}}
  PROVE  \A p \in Players : scheduled'[p] \subseteq scheduled[p]
OBVIOUS

\* Whoever schedules finds the engine's nodes attached: samples reach a player
\* from a job on the queue, the echo poll or the flush, none of which runs once
\* a stop() has torn the engine down.
THEOREM PlayersStayAttached == Spec => PlayersAreAttached
<1> DEFINE A == \A p \in Players : scheduled'[p] \subseteq scheduled[p] \/ engine # "off"
<1>1. ASSUME IInv, [Next]_vars PROVE A
  <2>1. ASSUME \A p \in Players : scheduled'[p] \in {scheduled[p], {}} PROVE A
    BY <2>1, SchedulesNothing
  <2>2. ASSUME AudioWaits \/ echo PROVE A
    <3>1. phase = "started" /\ \A c \in Callers : call[c] \notin TornDown
      BY <1>1, <2>2
      DEF IInv, BetweenRecordings, StopsInOrder, TornDown, PastBarrier, PastFlush,
         PastStream, PastAwait
    <3> QED  BY <1>1, <3>1 DEF IInv, EngineRuns
  <2> HIDE DEF A
  <2>3. CASE SystemSampleRuns
    <3>1. Dequeues("audio") /\ queue \in Seq(Jobs)
      BY <1>1, <2>3 DEF SystemSampleRuns, Dequeues, IInv, TypeOK
    <3>2. AudioWaits  BY <3>1, Served
    <3> QED  BY <2>2, <3>2
  <2>4. CASE MicSampleRuns
    <3>1. Dequeues("microphone") /\ queue \in Seq(Jobs)
      BY <1>1, <2>4 DEF MicSampleRuns, Dequeues, IInv, TypeOK
    <3>2. AudioWaits  BY <3>1, Served
    <3> QED  BY <2>2, <3>2
  <2>5. CASE EchoPoll  BY <2>2, <2>5 DEF EchoPoll
  <2>6. CASE FlushRuns
    <3>1. Dequeues("flush") /\ queue \in Seq(Jobs)
      BY <1>1, <2>6 DEF FlushRuns, Dequeues, IInv, TypeOK
    <3>2. argument \in Callers /\ Waits("flush", argument)  BY <3>1, Served
    <3>3. call[argument] = "flushing"  BY <1>1, <3>2 DEF IInv, JobsFollow
    <3>4. phase = "started"  BY <1>1, <3>2, <3>3 DEF IInv, BetweenRecordings
    <3>5. CASE engine # "off"  BY <3>5 DEF A
    <3>6. CASE engine = "off"
      <4>1. PICK c \in Callers : call[c] \in TornDown
        BY <1>1, <3>4, <3>6
        DEF IInv, EngineRuns
      <4>2. echoHeld = {}
        BY <1>1, <4>1
        DEF IInv, StopsInOrder, TornDown, PastFlush, PastBarrier, PastStream, PastAwait
      <4>3. scheduled' = [scheduled EXCEPT !["system"] = @ \cup {}, !["mic"] = @ \cup {}]
        BY <2>6, <4>2 DEF FlushRuns, flushTail, schedule
      <4>4. \A p \in Players : scheduled'[p] = scheduled[p]
        BY <1>1, <4>3 DEF IInv, TypeOK, Players
      <4> QED  BY <2>1, <4>4
    <3> QED  BY <3>5, <3>6
  <2>7. CASE StartEngine \/ StartFails \/ (\E c \in Callers : TearDown(c))
    <3>1. scheduled' = [p \in Players |-> {}]  BY <2>7 DEF StartEngine, StartFails, TearDown
    <3> QED  BY <2>1, <3>1
  <2>8. CASE \E ps \in (SUBSET Players) \ {{}} : Render(ps)
    <3>1. PICK ps : scheduled' = [p \in Players |-> IF p \in ps THEN {} ELSE scheduled[p]]
      BY <2>8 DEF Render
    <3> QED  BY <2>1, <3>1
  <2>9. CASE UNCHANGED scheduled
    BY <2>1, <2>9
  <2>10. \/ SystemSampleRuns \/ MicSampleRuns \/ EchoPoll \/ FlushRuns
         \/ StartEngine \/ StartFails \/ (\E c \in Callers : TearDown(c))
         \/ (\E ps \in (SUBSET Players) \ {{}} : Render(ps))
         \/ UNCHANGED scheduled
    <3> USE DEF engineVars
    <3>1. CASE Start \/ StreamDies \/ TapEnqueues \/ CopyFails \/ EngineStops
      BY <3>1 DEF Start, StreamDies, TapEnqueues, CopyFails, EngineStops
    <3>2. CASE QueueStep
      BY <3>2
      DEF QueueStep, ResetRuns, ReportRuns, UnreadableSampleRuns, WriteRuns, MarkRuns,
         BarrierRuns, CloseRuns
    <3>3. CASE StartTaskStep
      BY <3>3 DEF StartTaskStep, ContentArrives, CaptureStarts, StartAborted
    <3>4. CASE \E n \in Samples, kind \in {"audio", "microphone"} : Deliver(n, kind)
      BY <3>4 DEF Deliver
    <3>5. CASE \E r \in died : DidStopWithError(r)  BY <3>5 DEF DidStopWithError
    <3>6. CASE \E c \in Callers : Stop(c) \/ StopStep(c)
      BY <3>6 DEF Stop, StopStep, CancelStart, StartTaskOver, StopCapture, Barrier, Flush,
         Drain, Expire
    <3>7. CASE \E c \in Callers, p \in Players : Arrive(c, p)  BY <3>7 DEF Arrive
    <3>8. CASE UNCHANGED vars  BY <3>8 DEF vars
    <3> QED  BY <1>1, <3>1, <3>2, <3>3, <3>4, <3>5, <3>6, <3>7, <3>8 DEF Next
  <2> QED  BY <2>3, <2>4, <2>5, <2>6, <2>7, <2>8, <2>9, <2>10
<1> QED  BY <1>1, Invariance, PTL DEF Spec, PlayersAreAttached

-----------------------------------------------------------------------------
(* Failure reports.                                                         *)

\* A step that reports nothing keeps the reports in the order they were in.
LEMMA NothingReported ==
  ASSUME queue \in Seq(Jobs), ReportsFit, OneReportPerRecording,
         \/ queue' = queue
         \/ \E w, x : enqueue(w, x) /\ <<w, x>> \in Jobs /\ w # "report"
         \/ \E w : Dequeues(w),
         UNCHANGED <<recording, phase, died, reported, didReportFailure>>,
         isStopping' \/ isStopping' = isStopping
  PROVE  ReportsFit' /\ OneReportPerRecording'
<1>1. /\ \A r : Waits("report", r)' => Waits("report", r)
      /\ ReportsAreFirst => ReportsAreFirst'
  <2>1. CASE queue' = queue  BY <2>1, QueueKept
  <2>2. CASE \E w, x : enqueue(w, x) /\ <<w, x>> \in Jobs /\ w # "report"
    <3>1. PICK w, x : enqueue(w, x) /\ <<w, x>> \in Jobs /\ w # "report"  BY <2>2
    <3>2. \A k, y : Waits(k, y)' <=> Waits(k, y) \/ (k = w /\ y = x)  BY <3>1, Enqueued
    <3>3. ReportsAreFirst => ReportsAreFirst'  BY <3>1, Enqueued
    <3> QED  BY <3>1, <3>2, <3>3
  <2>3. CASE \E w : Dequeues(w)
    <3>1. PICK w : Dequeues(w)  BY <2>3
    <3>2. \A k, y : Waits(k, y) <=> Waits(k, y)' \/ (k = w /\ y = argument)  BY <3>1, Served
    <3>3. ReportsAreFirst => ReportsAreFirst'  BY <3>1, Served
    <3> QED  BY <3>2, <3>3
  <2> QED  BY <2>1, <2>2, <2>3
<1>2. ReportsFit'  BY <1>1 DEF ReportsFit
<1>3. OneReportPerRecording'  BY DEF OneReportPerRecording
<1> QED  BY <1>2, <1>3

\* A failure of the recording that is on is put on the queue.
LEMMA FailureReported ==
  ASSUME queue \in Seq(Jobs), recording \in 1..MaxRecordings,
         ReportsFit, OneReportPerRecording,
         phase = "started", ~ResetWaits,
         enqueue("report", recording),
         died' \in {died, died \cup {recording}, died \ {recording}},
         UNCHANGED <<recording, phase, reported, didReportFailure, isStopping>>
  PROVE  ReportsFit' /\ OneReportPerRecording'
<1>1. <<"report", recording>> \in Jobs  BY DEF Jobs
<1>2. \A k, y : Waits(k, y)' <=> Waits(k, y) \/ (k = "report" /\ y = recording)
  BY <1>1, Enqueued
<1>3. ReportsAreFirst => ReportsAreFirst'  BY <1>1, Enqueued
<1>4. died' # {} => died' = {recording}  BY DEF ReportsFit
<1>5. ReportsFit'  BY <1>2, <1>3, <1>4 DEF ReportsFit
<1>6. OneReportPerRecording'  BY DEF OneReportPerRecording
<1> QED  BY <1>5, <1>6

\* Where no callback comes later than the next start, every step keeps the
\* reports in order and apart.
LEMMA NextReports ==
  ASSUME ~CallbackMayLag, IInv, ReportsFit, OneReportPerRecording, [Next]_vars
  PROVE  ReportsFit' /\ OneReportPerRecording'
<1> USE DEF queueVars, startVars, streamVars
<1>0. /\ queue \in Seq(Jobs) /\ recording \in 0..MaxRecordings /\ inHand \subseteq Samples
      /\ phase # "idle" => recording \in 1..MaxRecordings
      /\ ResetWaits <=> phase = "starting"
  BY BoundsAssumption DEF IInv, TypeOK, Begun, JobsFollow
<1> DEFINE other == UNCHANGED <<recording, phase, died, reported, didReportFailure>>
           marked == isStopping' \/ isStopping' = isStopping
<1>1. CASE Start
  <2>1. /\ enqueue("reset", recording + 1) /\ recording' = recording + 1 /\ died = {}
        /\ phase' = "starting" /\ UNCHANGED <<isStopping, reported, didReportFailure, died>>
        /\ recording < MaxRecordings
        /\ phase = "idle" \/ (phase = "started" /\ \E c \in Callers : call[c] = "returned")
    BY <1>1 DEF Start, enqueue
  <2>2. <<"reset", recording + 1>> \in Jobs  BY <1>0, <2>1, BoundsAssumption DEF Jobs
  <2>3. /\ \A k, y : Waits(k, y)' <=> Waits(k, y) \/ (k = "reset" /\ y = recording + 1)
        /\ ReportsAreFirst => ReportsAreFirst'
    BY <1>0, <2>1, <2>2, Enqueued
  <2>4. phase = "started" => isStopping  BY <2>1 DEF IInv, StopsInOrder
  <2>5. \A i \in DOMAIN reported : /\ reported[i][1] = reported[i][2]
                                   /\ reported[i][1] <= recording
    BY DEF ReportsFit
  <2>6. reported \in Seq((1..MaxRecordings) \X (1..MaxRecordings))  BY DEF IInv, TypeOK
  <2>7. \A i \in DOMAIN reported : reported[i][1] \in Int  BY <2>6
  <2>8. \A i \in DOMAIN reported : /\ reported[i][1] <= recording + 1
                                   /\ reported[i][1] # recording + 1
    BY <1>0, <2>5, <2>7
  <2>9. \A r \in 1..MaxRecordings : Waits("report", r)' => phase' = "starting" /\ isStopping'
    BY <2>1, <2>3, <2>4 DEF ReportsFit
  <2>10. ReportsFit'  BY <2>1, <2>3, <2>5, <2>8, <2>9 DEF ReportsFit
  <2> QED  BY <2>1, <2>10 DEF OneReportPerRecording
<1>2. CASE StartEngine \/ StartFails
  <2>1. /\ phase = "setup" /\ phase' \in {"started", "idle"}
        /\ UNCHANGED <<queue, recording, died, reported, didReportFailure, isStopping>>
    BY <1>2 DEF StartEngine, StartFails
  <2>2. /\ \A r : Waits("report", r)' <=> Waits("report", r)
        /\ ReportsAreFirst' <=> ReportsAreFirst
    BY <1>0, <2>1, QueueKept
  <2> QED  BY <2>1, <2>2 DEF ReportsFit, OneReportPerRecording
<1>3. CASE ResetRuns
  <2>1. /\ Dequeues("reset") /\ phase' = "setup"
        /\ UNCHANGED <<recording, died, reported>>
    BY <1>3 DEF ResetRuns, Dequeues
  <2>2. /\ ResetWaits /\ (ReportsAreFirst => ReportsAreFirst' /\ ~ReportWaits)
        /\ \A r : Waits("report", r)' => Waits("report", r)
    BY <1>0, <2>1, Served
  <2>3. \A r \in 1..MaxRecordings : ~Waits("report", r)
    BY <2>2, ToReportWaits DEF ReportsFit
  <2>4. phase = "starting"  BY <1>0, <2>2
  <2>5. ReportsFit'  BY <2>1, <2>2, <2>3, <2>4 DEF ReportsFit
  <2> QED  BY <2>1, <2>5 DEF OneReportPerRecording
<1>4. CASE ReportRuns
  <2>1. Dequeues("report") /\ UNCHANGED <<recording, phase, isStopping, died>>
    BY <1>4 DEF ReportRuns, Dequeues
  <2>2. CASE isStopping \/ didReportFailure
    <3>1. UNCHANGED <<didReportFailure, reported>>
      BY <1>4, <2>2 DEF ReportRuns, reportCaptureFailure
    <3>2. \E w : Dequeues(w)  BY <2>1
    <3> QED  BY <1>0, <2>1, <3>1, <3>2, NothingReported
  <2>3. CASE ~(isStopping \/ didReportFailure)
    <3>1. didReportFailure' /\ reported' = Append(reported, <<recording, argument>>)
      BY <1>4, <2>3 DEF ReportRuns, reportCaptureFailure
    <3>2. /\ argument \in 1..MaxRecordings /\ Waits("report", argument)
          /\ ReportsAreFirst => ReportsAreFirst'
          /\ \A r : Waits("report", r)' => Waits("report", r)
      BY <1>0, <2>1, Served
    <3>3. phase = "started" /\ argument = recording  BY <2>3, <3>2 DEF ReportsFit
    <3>4. reported \in Seq((1..MaxRecordings) \X (1..MaxRecordings))  BY DEF IInv, TypeOK
    <3> DEFINE n == Len(reported)
    <3>5. /\ n \in Nat /\ DOMAIN reported = 1..n /\ DOMAIN reported' = 1..(n + 1)
          /\ \A i \in 1..n : reported'[i] = reported[i]
          /\ reported'[n + 1] = <<recording, recording>>
      BY <3>1, <3>3, <3>4
    <3>6. \A i \in 1..n : /\ reported[i][1] = reported[i][2] /\ reported[i][1] <= recording
                          /\ reported[i][1] # recording
      BY <2>3, <3>5 DEF ReportsFit
    <3>7. \A i \in 1..(n + 1) : i \in 1..n \/ i = n + 1  BY <3>5
    <3> HIDE DEF n
    <3>8. /\ reported'[n + 1][1] = recording /\ reported'[n + 1][2] = recording
          /\ recording <= recording
      BY <1>0, <3>5
    <3>9. \A i \in DOMAIN reported' : /\ reported'[i][1] = reported'[i][2]
                                      /\ reported'[i][1] <= recording
      BY <3>5, <3>6, <3>7, <3>8
    <3>10. ReportsFit'  BY <2>1, <3>1, <3>2, <3>3, <3>9 DEF ReportsFit
    <3>11. ASSUME NEW i \in DOMAIN reported', NEW j \in DOMAIN reported',
                  reported'[i][1] = reported'[j][1]
           PROVE  i = j
      <4>1. CASE i = n + 1 \/ j = n + 1  BY <3>5, <3>6, <3>7, <3>8, <3>11, <4>1
      <4>2. CASE i \in 1..n /\ j \in 1..n
        BY <3>5, <3>11, <4>2 DEF OneReportPerRecording
      <4> QED  BY <3>5, <3>7, <4>1, <4>2
    <3>12. OneReportPerRecording'  BY <3>9, <3>11 DEF OneReportPerRecording
    <3> QED  BY <3>10, <3>12
  <2> QED  BY <2>2, <2>3
<1>5. CASE (ContentArrives \/ CaptureStarts) /\ StartTaskThrows
  <2>1. /\ startTask \in {"content", "starting"} /\ enqueue("report", recording)
        /\ died' \in {died, died \cup {recording}}
        /\ UNCHANGED <<recording, phase, reported, didReportFailure, isStopping>>
    BY <1>5 DEF ContentArrives, CaptureStarts, StartTaskThrows, enqueue, afterStartCapture
  <2>2. phase = "started"  BY <2>1 DEF IInv, BetweenRecordings, startTaskIsOver
  <2> QED  BY <1>0, <2>1, <2>2, FailureReported
<1>6. CASE \E r \in died : DidStopWithError(r)
  <2>1. PICK r \in died : DidStopWithError(r)  BY <1>6
  <2>2. r = recording /\ phase = "started"  BY DEF ReportsFit
  <2>3. /\ enqueue("report", recording) /\ died' = died \ {recording}
        /\ UNCHANGED <<recording, phase, reported, didReportFailure, isStopping>>
    BY <2>1, <2>2 DEF DidStopWithError
  <2> QED  BY <1>0, <2>2, <2>3, FailureReported
<1>7. CASE StreamDies \/ \E c \in Callers : StopCapture(c)
  <2>1. /\ died' \in {died, died \cup {recording}}
        /\ UNCHANGED <<queue, recording, phase, reported, didReportFailure, isStopping>>
    BY <1>7 DEF StreamDies, StopCapture
  <2>2. phase = "started"
    <3>1. CASE StreamDies
      BY <3>1 DEF StreamDies, IInv, StreamIsKnown, BetweenRecordings
    <3>2. CASE \E c \in Callers : StopCapture(c)
      BY <3>2 DEF StopCapture, IInv, BetweenRecordings
    <3> QED  BY <1>7, <3>1, <3>2
  <2>3. /\ \A r : Waits("report", r)' <=> Waits("report", r)
        /\ ReportsAreFirst' <=> ReportsAreFirst
    BY <1>0, <2>1, QueueKept
  <2>4. died' # {} => died' = {recording}  BY <2>1 DEF ReportsFit
  <2>5. ReportsFit'  BY <2>1, <2>2, <2>3, <2>4 DEF ReportsFit
  <2> QED  BY <2>1, <2>5 DEF OneReportPerRecording
<1>8. ASSUME other, marked,
             \/ queue' = queue
             \/ \E w, x : enqueue(w, x) /\ <<w, x>> \in Jobs /\ w # "report"
             \/ \E w : Dequeues(w)
      PROVE  ReportsFit' /\ OneReportPerRecording'
  BY <1>0, <1>8, NothingReported
<1>9. CASE \/ UnreadableSampleRuns \/ SystemSampleRuns \/ MicSampleRuns \/ WriteRuns
           \/ MarkRuns \/ BarrierRuns \/ FlushRuns \/ CloseRuns
  <2>1. other /\ marked
    BY <1>9
    DEF UnreadableSampleRuns, SystemSampleRuns, MicSampleRuns, WriteRuns, MarkRuns,
       BarrierRuns, FlushRuns, CloseRuns
  <2>2. \E w : Dequeues(w)
    BY <1>9 DEF Dequeues, UnreadableSampleRuns, SystemSampleRuns, MicSampleRuns, WriteRuns,
       MarkRuns, BarrierRuns, FlushRuns, CloseRuns
  <2> HIDE DEF other, marked
  <2> QED  BY <1>8, <2>1, <2>2
<1>10. CASE \/ (ContentArrives \/ CaptureStarts) /\ ~StartTaskThrows
            \/ StartAborted \/ EchoPoll \/ CopyFails \/ EngineStops
            \/ \E ps \in (SUBSET Players) \ {{}} : Render(ps)
            \/ \E c \in Callers : CancelStart(c) \/ StartTaskOver(c) \/ Drain(c) \/ Expire(c)
            \/ \E c \in Callers, p \in Players : Arrive(c, p)
            \/ UNCHANGED vars
  <2>1. other /\ marked /\ queue' = queue
    BY <1>10 DEF ContentArrives, CaptureStarts, afterStartCapture, StartAborted, EchoPoll,
       CopyFails, EngineStops, Render, CancelStart, StartTaskOver, Drain, Expire, Arrive, vars
  <2> HIDE DEF other, marked
  <2> QED  BY <1>8, <2>1
<1>11. CASE \E n \in Samples, kind \in {"audio", "microphone"} : Deliver(n, kind)
  <2>1. PICK n \in Samples, kind \in {"audio", "microphone"} : Deliver(n, kind)  BY <1>11
  <2>2. other /\ marked /\ enqueue(kind, n)  BY <2>1 DEF Deliver
  <2>3. <<kind, n>> \in Jobs /\ kind # "report"  BY DEF Jobs
  <2> HIDE DEF other, marked
  <2> QED  BY <1>8, <2>2, <2>3
<1>12. CASE TapEnqueues
  <2>1. other /\ marked /\ enqueue("write", inHand)  BY <1>12 DEF TapEnqueues
  <2>2. <<"write", inHand>> \in Jobs  BY <1>0 DEF Jobs
  <2> HIDE DEF other, marked
  <2> QED  BY <1>8, <2>1, <2>2
<1>13. CASE \E c \in Callers : Stop(c) \/ Barrier(c) \/ Flush(c) \/ TearDown(c)
  <2>1. PICK c \in Callers : Stop(c) \/ Barrier(c) \/ Flush(c) \/ TearDown(c)  BY <1>13
  <2>2. other /\ marked  BY <2>1 DEF Stop, Barrier, Flush, TearDown
  <2>3. PICK w \in {"mark", "barrier", "flush", "close"} : enqueue(w, c)
    BY <2>1 DEF Stop, Barrier, Flush, TearDown
  <2>4. <<w, c>> \in Jobs /\ w # "report"  BY DEF Jobs
  <2> HIDE DEF other, marked
  <2> QED  BY <1>8, <2>2, <2>3, <2>4
<1> HIDE DEF other, marked
<1> QED
  BY <1>1, <1>2, <1>3, <1>4, <1>5, <1>6, <1>7, <1>9, <1>10, <1>11, <1>12, <1>13
  DEF Next, QueueStep, StartTaskStep, StopStep

\* Where a stream's death is told of before the next start, the recorder's
\* bookkeeping is right: every slot is given back, a recording's failure is
\* delivered once, to its own recording, and no drain gate is resumed twice.
THEOREM BooksAreRight == ASSUME ~CallbackMayLag PROVE Spec => []Bookkeeping
<1> DEFINE R == IInv /\ ReportsFit /\ OneReportPerRecording
<1>1. Init => R
  <2> SUFFICES ASSUME Init PROVE R  OBVIOUS
  <2>1. IInv  BY InitIInv
  <2>2. queue = << >> /\ died = {} /\ reported = << >>  BY DEF Init
  <2>3. (\A r : ~Waits("report", r)) /\ ReportsAreFirst
    BY <2>2 DEF Waits, In, ReportsAreFirst, Before
  <2>4. ReportsFit /\ OneReportPerRecording
    BY <2>2, <2>3 DEF ReportsFit, OneReportPerRecording
  <2> QED  BY <2>1, <2>4
<1>2. R /\ [Next]_vars => R'  BY NextIInv, NextReports
<1>3. R => Bookkeeping
  BY DEF Bookkeeping, IInv, GatesFit, ResumedAtMostOnce
<1> QED  BY <1>1, <1>2, <1>3, PTL DEF Spec

=============================================================================
