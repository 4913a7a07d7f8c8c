--------------------------- MODULE AdmissionProofs ---------------------------
(***************************************************************************)
(* The records of refusals and of takeovers (Server.noteRejection and      *)
(* noteTakeover), for any number of sessions, devices and events, whatever *)
(* bytes the clients send.  What the server remembers of the refusals of a *)
(* device is its last report, how many refusals it has kept to itself      *)
(* since then and the time of the first of those; what it remembers of the *)
(* takeovers is the times of some of them, with none missing that matters. *)
(* Then handshakes and conversations, for every client of                  *)
(* ClientAssumption and every cut of its stream: which identity the server *)
(* takes from a CONNECT, and what it answers to the requests behind it.    *)
(***************************************************************************)
EXTENDS Admission, FiniteSetTheorems, TLAPS

Note == [at : Nat, report : BOOLEAN, suppressed : Nat, since : Nat \cup {Nil}]

(* The last report among the first n refusals of q is number p, or there   *)
(* is none and p is 0.                                                     *)
LastReport(q, p, n) ==
  /\ p \in 0..n
  /\ p > 0 => q[p].report
  /\ \A k \in (p + 1)..n : ~q[k].report

(* The time of the first refusal after p, of n.                            *)
SinceOf(q, p, n) == IF p = n THEN Nil ELSE q[p + 1].at

Spaced(q) ==
  \A i, j \in DOMAIN q :
    i < j /\ q[i].report /\ q[j].report => q[j].at - q[i].at >= RejectionWindow

Told(q) ==
  \A i \in DOMAIN q : q[i].report =>
    \E p \in 0..(i - 1) : /\ LastReport(q, p, i - 1)
                          /\ q[i].suppressed = i - 1 - p
                          /\ q[i].since = SinceOf(q, p, i - 1)

(* What the server remembers, r, of the refusals q.                        *)
Remembered(q, r) ==
  \E p \in 1..Len(q) : /\ LastReport(q, p, Len(q))
                       /\ r.reportedAt = q[p].at
                       /\ r.suppressed = Len(q) - p
                       /\ r.firstAt = SinceOf(q, p, Len(q))

Kept(q, r) ==
  /\ q \in Seq(Note)
  /\ Spaced(q) /\ Told(q)
  /\ \/ q = <<>> /\ r = Nil
     \/ r \in Refusal /\ Remembered(q, r)

(* A refusal more leaves what was said of the earlier ones as it was.      *)
LEMMA OneMore ==
  ASSUME NEW q \in Seq(Note), NEW x \in Note
  PROVE  /\ Append(q, x) \in Seq(Note)
         /\ Len(Append(q, x)) = Len(q) + 1
         /\ Append(q, x)[Len(q) + 1] = x
         /\ \A i \in 1..Len(q) : Append(q, x)[i] = q[i]
         /\ Len(q) \in Nat
  OBVIOUS

LEMMA StillLast ==
  ASSUME NEW q \in Seq(Note), NEW x \in Note, NEW n \in 0..Len(q), NEW p, LastReport(q, p, n)
  PROVE  LastReport(Append(q, x), p, n) /\ SinceOf(Append(q, x), p, n) = SinceOf(q, p, n)
  <1> DEFINE a == Append(q, x)
  <1>1. Len(q) \in Nat /\ \A i \in 1..Len(q) : a[i] = q[i]
    BY OneMore
  <1> HIDE DEF a
  <1>2. LastReport(a, p, n)
    BY <1>1 DEF LastReport
  <1>3. SinceOf(a, p, n) = SinceOf(q, p, n)
    BY <1>1 DEF SinceOf, LastReport
  <1> QED BY <1>2, <1>3 DEF a

LEMMA Counted ==
  ASSUME NEW r \in Refusal, NEW now \in Nat
  PROVE  /\ Suppressed(r, now) \in Refusal
         /\ Suppressed(r, now).reportedAt = r.reportedAt
         /\ Suppressed(r, now).suppressed = r.suppressed + 1
         /\ Suppressed(r, now).firstAt = IF r.suppressed = 0 THEN now ELSE r.firstAt
  <1>1. PICK f \in Nat \cup {Nil} : f = IF r.suppressed = 0 THEN now ELSE r.firstAt
    BY DEF Refusal
  <1>2. Suppressed(r, now) = [r EXCEPT !.suppressed = r.suppressed + 1, !.firstAt = f]
    BY <1>1 DEF Suppressed, Refusal
  <1>3. r.reportedAt \in Nat /\ r.suppressed + 1 \in Nat
    BY DEF Refusal
  <1>4. Suppressed(r, now) = [reportedAt |-> r.reportedAt, suppressed |-> r.suppressed + 1, firstAt |-> f]
    BY <1>2 DEF Refusal
  <1> QED BY <1>1, <1>3, <1>4 DEF Refusal

(* Silence: the refusal is counted.                                        *)
LEMMA KeptQuiet ==
  ASSUME NEW q, NEW r, Kept(q, r), r # Nil, NEW now \in Nat, NEW x \in Note,
         x.at = now, ~x.report
  PROVE  Kept(Append(q, x), Suppressed(r, now))
  <1> DEFINE a == Append(q, x)
             n == Len(q)
             r2 == Suppressed(r, now)
  <1>1. q \in Seq(Note) /\ r \in Refusal /\ Remembered(q, r) /\ Spaced(q) /\ Told(q)
    BY DEF Kept
  <1>2. /\ a \in Seq(Note) /\ Len(a) = n + 1 /\ a[n + 1] = x /\ n \in Nat
        /\ \A i \in 1..n : a[i] = q[i]
    BY <1>1, OneMore
  <1>3. PICK p \in 1..n : /\ LastReport(q, p, n)
                          /\ r.reportedAt = q[p].at
                          /\ r.suppressed = n - p
                          /\ r.firstAt = SinceOf(q, p, n)
    BY <1>1 DEF Remembered
  <1>4. /\ r2 \in Refusal
        /\ r2.reportedAt = r.reportedAt
        /\ r2.suppressed = r.suppressed + 1
        /\ r2.firstAt = IF r.suppressed = 0 THEN now ELSE r.firstAt
    BY <1>1, Counted
  <1>5. LastReport(a, p, n) /\ SinceOf(a, p, n) = SinceOf(q, p, n)
    BY <1>1, <1>2, <1>3, StillLast
  <1>6. \A i \in 1..n : \A k \in 0..(i - 1) : LastReport(q, k, i - 1) =>
          LastReport(a, k, i - 1) /\ SinceOf(a, k, i - 1) = SinceOf(q, k, i - 1)
    BY <1>1, <1>2, StillLast
  <1>7. DOMAIN q = 1..n /\ DOMAIN a = 1..(n + 1)
    BY <1>1, <1>2
  <1> HIDE DEF a, n, r2
  <1>8. LastReport(a, p, n + 1)
    BY <1>2, <1>3, <1>5 DEF LastReport
  <1>9. r2.firstAt = SinceOf(a, p, n + 1)
    <2>1. CASE p = n
      BY <1>2, <1>3, <1>4, <2>1 DEF SinceOf
    <2>2. CASE p # n
      BY <1>2, <1>3, <1>4, <1>5, <2>2 DEF SinceOf
    <2> QED BY <2>1, <2>2
  <1>10. Remembered(a, r2)
    BY <1>2, <1>3, <1>4, <1>8, <1>9 DEF Remembered
  <1>11. Spaced(a)
    BY <1>1, <1>2, <1>7 DEF Spaced
  <1>12. Told(a)
    <2> SUFFICES ASSUME NEW i \in 1..n, q[i].report
                 PROVE  \E k \in 0..(i - 1) : /\ LastReport(a, k, i - 1)
                                              /\ q[i].suppressed = i - 1 - k
                                              /\ q[i].since = SinceOf(a, k, i - 1)
      BY <1>2, <1>7 DEF Told
    <2> QED BY <1>1, <1>6, <1>7 DEF Told
  <1> QED BY <1>2, <1>4, <1>10, <1>11, <1>12 DEF Kept, a, r2

(* A report: the refusals since the last one are told, and forgotten.      *)
LEMMA KeptReport ==
  ASSUME NEW q, NEW r, Kept(q, r), NEW now \in Nat, NEW x \in Note,
         x.at = now, x.report,
         r # Nil => /\ now - r.reportedAt >= RejectionWindow
                    /\ x.suppressed = r.suppressed /\ x.since = r.firstAt,
         r = Nil => x.suppressed = 0 /\ x.since = Nil
  PROVE  Kept(Append(q, x), Reported(r, now))
  <1> DEFINE a == Append(q, x)
             n == Len(q)
             r2 == Reported(r, now)
  <1>1. q \in Seq(Note) /\ Spaced(q) /\ Told(q)
    BY DEF Kept
  <1>2. /\ a \in Seq(Note) /\ Len(a) = n + 1 /\ a[n + 1] = x /\ n \in Nat
        /\ \A i \in 1..n : a[i] = q[i]
    BY <1>1, OneMore
  <1>3. r2 \in Refusal /\ r2.reportedAt = now /\ r2.suppressed = 0 /\ r2.firstAt = Nil
    BY DEF Reported, Refusal
  <1>4. \A i \in 1..n : \A k \in 0..(i - 1) : LastReport(q, k, i - 1) =>
          LastReport(a, k, i - 1) /\ SinceOf(a, k, i - 1) = SinceOf(q, k, i - 1)
    BY <1>1, <1>2, StillLast
  <1>5. DOMAIN q = 1..n /\ DOMAIN a = 1..(n + 1) /\ \A i \in 1..n : q[i] \in Note
    BY <1>1, <1>2
  <1>6. PICK p \in 0..n : /\ LastReport(q, p, n)
                          /\ x.suppressed = n - p /\ x.since = SinceOf(q, p, n)
                          /\ p > 0 => now - q[p].at >= RejectionWindow
    <2>1. CASE q = <<>> /\ r = Nil
      <3>1. n = 0
        BY <2>1
      <3>2. LastReport(q, 0, n) /\ SinceOf(q, 0, n) = Nil
        BY <3>1 DEF LastReport, SinceOf
      <3> QED BY <2>1, <3>1, <3>2
    <2>2. CASE r \in Refusal /\ Remembered(q, r)
      <3>1. r # Nil
        BY <2>2, AdmissionAssumption
      <3>2. PICK p \in 1..n : /\ LastReport(q, p, n)
                              /\ r.reportedAt = q[p].at
                              /\ r.suppressed = n - p
                              /\ r.firstAt = SinceOf(q, p, n)
        BY <2>2 DEF Remembered
      <3>3. p \in 0..n /\ now - q[p].at >= RejectionWindow
        BY <1>2, <3>1, <3>2
      <3>4. x.suppressed = n - p /\ x.since = SinceOf(q, p, n)
        BY <3>1, <3>2
      <3> QED BY <3>2, <3>3, <3>4
    <2> QED BY <2>1, <2>2 DEF Kept
  <1>7. LastReport(a, p, n) /\ SinceOf(a, p, n) = SinceOf(q, p, n)
    BY <1>1, <1>2, <1>6, StillLast
  <1> HIDE DEF a, n, r2
  <1>8. Remembered(a, r2)
    <2>1. LastReport(a, n + 1, n + 1)
      BY <1>2 DEF LastReport
    <2>2. SinceOf(a, n + 1, n + 1) = Nil
      BY DEF SinceOf
    <2> QED BY <1>2, <1>3, <2>1, <2>2 DEF Remembered
  <1>9. Spaced(a)
    <2>1. \A i \in 1..n : q[i].report => now - q[i].at >= RejectionWindow
      <3> SUFFICES ASSUME NEW i \in 1..n, q[i].report PROVE now - q[i].at >= RejectionWindow
        OBVIOUS
      <3>1. i <= p
        <4>1. ~(i \in (p + 1)..n)
          BY <1>6 DEF LastReport
        <4> QED BY <1>2, <1>6, <4>1
      <3>5. p > 0 /\ p \in 1..n
        BY <1>2, <1>6, <3>1
      <3>6. q[p].report
        BY <1>6, <3>5 DEF LastReport
      <3>2. q[i].at \in Nat /\ q[p].at \in Nat
        <4>1. q[i] \in Note /\ q[p] \in Note
          BY <1>1, <1>5, <3>5
        <4> QED BY <4>1 DEF Note
      <3>3. i < p => q[p].at - q[i].at >= RejectionWindow
        BY <1>1, <1>5, <3>5, <3>6 DEF Spaced
      <3>4. RejectionWindow \in Nat
        BY AdmissionAssumption
      <3>7. now - q[p].at >= RejectionWindow
        BY <1>6, <3>5
      <3>8. CASE i = p
        BY <3>7, <3>8
      <3>9. CASE i # p
        <4>1. q[p].at - q[i].at >= RejectionWindow
          BY <1>2, <1>6, <3>1, <3>3, <3>9
        <4> QED BY <3>2, <3>4, <3>7, <4>1
      <3> QED BY <3>8, <3>9
    <2> QED BY <1>1, <1>2, <1>5, <2>1 DEF Spaced
  <1>10. Told(a)
    <2>1. ASSUME NEW i \in 1..n, q[i].report
          PROVE  \E k \in 0..(i - 1) : /\ LastReport(a, k, i - 1)
                                       /\ q[i].suppressed = i - 1 - k
                                       /\ q[i].since = SinceOf(a, k, i - 1)
      BY <1>1, <1>4, <1>5, <2>1 DEF Told
    <2>2. \E k \in 0..n : /\ LastReport(a, k, n)
                          /\ x.suppressed = n - k
                          /\ x.since = SinceOf(a, k, n)
      BY <1>6, <1>7
    <2>3. SUFFICES ASSUME NEW i \in 1..(n + 1), a[i].report
                   PROVE  \E k \in 0..(i - 1) : /\ LastReport(a, k, i - 1)
                                                /\ a[i].suppressed = i - 1 - k
                                                /\ a[i].since = SinceOf(a, k, i - 1)
      BY <1>5 DEF Told
    <2>4. CASE i = n + 1
      <3>1. i - 1 = n /\ a[i] = x
        BY <1>2, <2>4
      <3> QED BY <2>2, <3>1
    <2>5. CASE i \in 1..n
      BY <1>2, <2>1, <2>3, <2>5
    <2> QED BY <1>2, <2>4, <2>5
  <1> QED BY <1>2, <1>3, <1>8, <1>9, <1>10 DEF Kept, a, r2

-----------------------------------------------------------------------------
(* What is remembered of each device, and the times the sessions have.     *)
RefusalsInv ==
  /\ clock \in Nat /\ at \in [Session -> Nat]
  /\ rejects \in [DeviceId -> Refusal \cup {Nil}]
  /\ refused \in [DeviceId -> Seq(Note)]
  /\ \A d \in DeviceId : Kept(refused[d], rejects[d])

LEMMA RefusalsInit == Init => RefusalsInv
  <1> SUFFICES ASSUME Init PROVE RefusalsInv
    OBVIOUS
  <1>1. <<>> \in Seq(Note)
    OBVIOUS
  <1>2. Kept(<<>>, Nil)
    BY <1>1 DEF Kept, Spaced, Told
  <1>3. /\ clock \in Nat /\ at \in [Session -> Nat]
        /\ rejects \in [DeviceId -> Refusal \cup {Nil}]
        /\ refused \in [DeviceId -> Seq(Note)]
    BY <1>1 DEF Init
  <1>4. \A d \in DeviceId : refused[d] = <<>> /\ rejects[d] = Nil
    BY DEF Init
  <1> QED BY <1>2, <1>3, <1>4 DEF RefusalsInv

LEMMA NotedRefusal ==
  ASSUME RefusalsInv, NEW s \in Session, NoteRejection(s)
  PROVE  RefusalsInv'
  <1>1. clock' \in Nat /\ at' \in [Session -> Nat]
    BY DEF RefusalsInv, NoteRejection, End
  <1>2. CASE dev[s] \notin DeviceId
    <2>1. rejects' = rejects /\ refused' = refused
      BY <1>2 DEF NoteRejection, RefusalsInv
    <2> QED BY <1>1, <2>1 DEF RefusalsInv
  <1>3. ASSUME NEW d \in DeviceId, d = dev[s] PROVE RefusalsInv'
    <2> DEFINE q == refused[d]
               r == rejects[d]
               now == at[s]
               report == r = Nil \/ now - r.reportedAt >= RejectionWindow
    <2>1. Kept(q, r) /\ q \in Seq(Note) /\ r \in Refusal \cup {Nil} /\ now \in Nat
      BY DEF RefusalsInv
    <2>2. r # Nil => r \in Refusal /\ r.suppressed \in Nat /\ r.firstAt \in Nat \cup {Nil}
      BY <2>1 DEF Refusal
    <2>3. PICK x : x = [at |-> now, report |-> report,
                        suppressed |-> IF report /\ r # Nil THEN r.suppressed ELSE 0,
                        since |-> IF report /\ r # Nil THEN r.firstAt ELSE Nil]
      OBVIOUS
    <2>4. x \in Note /\ x.at = now /\ x.report = report
          /\ (report /\ r # Nil => x.suppressed = r.suppressed /\ x.since = r.firstAt)
          /\ (r = Nil => x.suppressed = 0 /\ x.since = Nil)
      BY <2>1, <2>2, <2>3 DEF Note
    <2>5. refused' = [refused EXCEPT ![d] = Append(q, x)]
      BY <1>3, <2>3 DEF NoteRejection
    <2>6. rejects' = [rejects EXCEPT ![d] = IF report THEN Reported(r, now) ELSE Suppressed(r, now)]
      BY <1>3 DEF NoteRejection
    <2> HIDE DEF q, r, now
    <2>7. Kept(Append(q, x), IF report THEN Reported(r, now) ELSE Suppressed(r, now))
      <3>1. CASE report
        BY <2>1, <2>4, <3>1, KeptReport
      <3>2. CASE ~report
        BY <2>1, <2>4, <3>2, KeptQuiet
      <3> QED BY <3>1, <3>2
    <2> QED BY <1>1, <2>5, <2>6, <2>7 DEF RefusalsInv, Kept, Refusal
  <1> QED BY <1>2, <1>3

LEMMA RefusalsStep == RefusalsInv /\ [Next]_vars => RefusalsInv'
  <1> SUFFICES ASSUME RefusalsInv, [Next]_vars PROVE RefusalsInv'
    OBVIOUS
  <1>1. ASSUME UNCHANGED <<rejects, refused>>, clock' \in Nat, at' \in [Session -> Nat]
        PROVE  RefusalsInv'
    BY <1>1 DEF RefusalsInv
  <1>2. CASE Tick \/ UNCHANGED vars
    BY <1>1, <1>2 DEF Tick, vars, RefusalsInv
  <1>3. ASSUME NEW s \in Session,
               \/ \E h \in Handshakes : Handshake(s, h)
               \/ ConnackFails(s) \/ ReadTime(s) \/ RegisterUpsert(s) \/ RegisterSetDriver(s)
               \/ NoteTakeover(s) \/ \E v \in Conversations : Serve(s, v)
        PROVE  RefusalsInv'
    BY <1>1, <1>3 DEF Handshake, ConnackFails, ReadTime, RegisterUpsert, RegisterSetDriver,
                      NoteTakeover, Serve, End, RefusalsInv
  <1> QED BY <1>2, <1>3, NotedRefusal DEF Next

(* What Kept says of the refusals of a device, in the words of the         *)
(* property: SelectLastInSubSeq finds the report before, and what lies     *)
(* between is what was suppressed.                                         *)
LEMMA PreviousReport ==
  ASSUME NEW q \in Seq(Note), NEW n \in 0..Len(q), NEW p, LastReport(q, p, n)
  PROVE  SelectLastInSubSeq(q, 1, n, LAMBDA r : r.report) = p
  <1> DEFINE I == {i \in 1..n : q[i].report}
  <1>1. SelectLastInSubSeq(q, 1, n, LAMBDA r : r.report) = IF I # {} THEN Max(I) ELSE 0
    BY DEF SelectLastInSubSeq
  <1>2. CASE p = 0
    BY <1>1, <1>2 DEF LastReport
  <1>3. CASE p # 0
    <2>1. p \in I /\ (\A i \in I : i <= p) /\ I \subseteq Int
      BY <1>3 DEF LastReport
    <2>2. Max(I) = p
      <3> HIDE DEF I
      <3>1. \A i \in I : p >= i /\ i \in Int
        BY <2>1
      <3>2. \E x \in I : \A y \in I : x >= y
        BY <2>1, <3>1
      <3>3. Max(I) \in I /\ \A y \in I : Max(I) >= y
        BY <3>2, Zenon DEF Max
      <3>4. p >= Max(I) /\ Max(I) >= p /\ Max(I) \in Int
        BY <2>1, <3>1, <3>3
      <3> QED BY <3>1, <3>4, <2>1
    <2> QED BY <1>1, <2>1, <2>2
  <1> QED BY <1>2, <1>3

LEMMA KeptIsReported == RefusalsInv => RefusalsReported
  <1> SUFFICES ASSUME RefusalsInv, NEW d \in DeviceId
               PROVE  /\ \A i, j \in DOMAIN refused[d] :
                           i < j /\ refused[d][i].report /\ refused[d][j].report =>
                             refused[d][j].at - refused[d][i].at >= RejectionWindow
                      /\ \A i \in DOMAIN refused[d] : refused[d][i].report =>
                           LET previous == SelectLastInSubSeq(refused[d], 1, i - 1, LAMBDA r : r.report)
                               unreported == SubSeq(refused[d], previous + 1, i - 1)
                           IN  /\ refused[d][i].suppressed = Len(unreported)
                               /\ refused[d][i].since = IF unreported = <<>> THEN Nil ELSE unreported[1].at
    BY DEF RefusalsReported, OneReportPerWindow, ReportsTellAll
  <1> DEFINE q == refused[d]
  <1>1. q \in Seq(Note) /\ Spaced(q) /\ Told(q)
    BY DEF RefusalsInv, Kept
  <1> HIDE DEF q
  <1>2. ASSUME NEW i \in DOMAIN q, q[i].report
        PROVE  LET previous == SelectLastInSubSeq(q, 1, i - 1, LAMBDA r : r.report)
                   unreported == SubSeq(q, previous + 1, i - 1)
               IN  /\ q[i].suppressed = Len(unreported)
                   /\ q[i].since = IF unreported = <<>> THEN Nil ELSE unreported[1].at
    <2>1. PICK p \in 0..(i - 1) : /\ LastReport(q, p, i - 1)
                                  /\ q[i].suppressed = i - 1 - p
                                  /\ q[i].since = SinceOf(q, p, i - 1)
      BY <1>1, <1>2 DEF Told
    <2>2. i - 1 \in 0..Len(q) /\ i \in Nat
      BY <1>1
    <2>3. SelectLastInSubSeq(q, 1, i - 1, LAMBDA r : r.report) = p
      BY <1>1, <2>1, <2>2, PreviousReport
    <2> DEFINE u == SubSeq(q, p + 1, i - 1)
    <2>4. /\ Len(u) = i - 1 - p /\ (u = <<>> <=> p = i - 1)
          /\ p # i - 1 => u[1] = q[p + 1]
      <3>1. u \in Seq(Note) /\ Len(u) = i - 1 - p
        BY <1>1, <2>1, <2>2
      <3>2. ASSUME p # i - 1 PROVE u[1] = q[p + 1]
        <4>1. p + 1 \in 1..(i - 1) /\ i - 1 \in 1..Len(q)
          BY <2>1, <2>2, <3>2
        <4> QED BY <1>1, <4>1
      <3> HIDE DEF u
      <3>3. u = <<>> <=> p = i - 1
        BY <2>1, <2>2, <3>1
      <3> QED BY <3>1, <3>2, <3>3
    <2>5. q[i].suppressed = Len(u) /\ q[i].since = IF u = <<>> THEN Nil ELSE u[1].at
      <3> HIDE DEF u
      <3> QED BY <2>1, <2>4 DEF SinceOf
    <2> QED BY <2>3, <2>5
  <1> QED BY <1>1, <1>2 DEF Spaced, q

(* Server.noteRejection: two reports of a device are a window apart, and   *)
(* each carries how many refusals were suppressed before it and the time   *)
(* of the first, although sessions read the time before they take the      *)
(* lock, and may get it in another order.                                  *)
THEOREM RefusalsAlwaysReported == Spec => []RefusalsReported
  BY RefusalsInit, RefusalsStep, KeptIsReported, PTL DEF Spec

-----------------------------------------------------------------------------
(* Induction.  A set of naturals with 0 in it, and with n + 1 whenever n   *)
(* is, is all of Nat: if n were missing, adding 1 would be an injection of *)
(* the part below n into what is left of it without 0.                     *)
LEMMA Induction ==
  ASSUME NEW S \in SUBSET Nat, 0 \in S, \A n \in S : n + 1 \in S
  PROVE  S = Nat
  <1> SUFFICES ASSUME NEW n \in Nat, n \notin S PROVE FALSE
    OBVIOUS
  <1> DEFINE T == S \cap (0..n)
             next == [i \in T |-> i + 1]
  <1>1. IsFiniteSet(T) /\ 0 \in T
    <2>1. IsFiniteSet(0..n)
      BY FS_Interval
    <2>2. T \in SUBSET (0..n) /\ 0 \in T
      OBVIOUS
    <2> HIDE DEF T
    <2> QED BY <2>1, <2>2, FS_Subset, Zenon
  <1>2. next \in [T -> T \ {0}]
    BY SMT
  <1>3. \A x, y \in T : x # y => next[x] # next[y]
    OBVIOUS
  <1> HIDE DEF T, next
  <1>4. IsFiniteSet(T \ {0}) /\ Cardinality(T \ {0}) = Cardinality(T) - 1
    BY <1>1, FS_RemoveElement
  <1>5. Cardinality(T) \in Nat
    BY <1>1, FS_CardinalityType
  <1>6. Cardinality(T \ {0}) < Cardinality(T)
    BY <1>4, <1>5
  <1> QED BY <1>1, <1>2, <1>3, <1>4, <1>6, FS_PigeonHole

(* Recursion.  The values of a loop of n rounds: each is what the round    *)
(* makes of the one before.                                                *)
Iterates(f, A, n, start, step) ==
  /\ f \in [0..n -> A]
  /\ f[0] = start
  /\ \A i \in 1..n : f[i] = step[i][f[i - 1]]

LEMMA Iteration ==
  ASSUME NEW A, NEW N \in Nat, NEW start \in A, NEW step \in [1..N -> [A -> A]]
  PROVE  \E f : Iterates(f, A, N, start, step)
  <1> DEFINE Upto(n) == \E f : Iterates(f, A, n, start, step)
             S == {n \in Nat : n <= N => Upto(n)}
  <1>1. 0 \in S
    <2>1. PICK f \in [0..0 -> A] : f[0] = start
      <3>1. [i \in 0..0 |-> start] \in [0..0 -> A] /\ [i \in 0..0 |-> start][0] = start
        OBVIOUS
      <3> QED BY <3>1
    <2>2. Upto(0)
      BY <2>1 DEF Iterates
    <2> HIDE DEF Upto
    <2> QED BY <2>2
  <1>2. ASSUME NEW n \in S PROVE n + 1 \in S
    <2>1. ASSUME n + 1 <= N PROVE Upto(n + 1)
      <3>1. PICK f : Iterates(f, A, n, start, step)
        <4>1. Upto(n)
          <5> HIDE DEF Upto
          <5> QED BY <2>1
        <4> QED BY <4>1
      <3>2. PICK y \in A : y = step[n + 1][f[n]]
        BY <2>1, <3>1 DEF Iterates
      <3> DEFINE g == [i \in 0..(n + 1) |-> IF i = n + 1 THEN y ELSE f[i]]
      <3>3. g \in [0..(n + 1) -> A] /\ g[0] = start /\ g[n + 1] = y /\ \A i \in 0..n : g[i] = f[i]
        BY <3>1 DEF Iterates
      <3> HIDE DEF g
      <3>4. ASSUME NEW i \in 1..(n + 1) PROVE g[i] = step[i][g[i - 1]]
        <4>1. CASE i = n + 1
          BY <3>2, <3>3, <4>1
        <4>2. CASE i \in 1..n
          BY <3>1, <3>3, <4>2 DEF Iterates
        <4> QED BY <4>1, <4>2
      <3> QED BY <3>3, <3>4 DEF Iterates
    <2>2. n + 1 \in Nat
      OBVIOUS
    <2> HIDE DEF Upto
    <2> QED BY <2>1, <2>2
  <1> HIDE DEF Upto
  <1>3. S = Nat
    <2> HIDE DEF S
    <2>1. S \in SUBSET Nat
      BY DEF S
    <2> QED BY <1>1, <1>2, <2>1, Induction
  <1>4. Upto(N)
    BY <1>3
  <1> QED BY <1>4 DEF Upto

(* So does any function that obeys the equations where its values are      *)
(* known to be in A.                                                       *)
Obeys(g, A, n, start, step) ==
  g[0] = start /\ \A i \in 1..n : g[i - 1] \in A => g[i] = step[i][g[i - 1]]

LEMMA SameIteration ==
  ASSUME NEW A, NEW N \in Nat, NEW start, NEW step, NEW f, Iterates(f, A, N, start, step),
         NEW g, Obeys(g, A, N, start, step)
  PROVE  \A i \in 0..N : g[i] = f[i]
  <1> DEFINE S == {n \in Nat : n <= N => g[n] = f[n]}
  <1>1. 0 \in S
    BY DEF Iterates, Obeys
  <1>2. ASSUME NEW n \in S PROVE n + 1 \in S
    <2>1. ASSUME n + 1 <= N PROVE g[n + 1] = f[n + 1]
      <3>1. n \in 0..N /\ n + 1 \in 1..N /\ (n + 1) - 1 = n
        BY <2>1
      <3>2. g[n] = f[n] /\ f[n] \in A
        BY <3>1 DEF Iterates
      <3> QED BY <3>1, <3>2 DEF Iterates, Obeys
    <2> QED BY <2>1
  <1>3. S = Nat
    <2> HIDE DEF S
    <2>1. S \in SUBSET Nat
      BY DEF S
    <2> QED BY <1>1, <1>2, <2>1, Induction
  <1> QED BY <1>3

(* The loop of noteTakeover, by its rounds.                                *)
LEMMA WithinByRounds ==
  ASSUME NEW s \in Seq(Nat), NEW now \in Nat
  PROVE  \E f \in [0..Len(s) -> Seq(Nat)] :
           /\ Within(s, now) = f[Len(s)]
           /\ f[0] = <<>>
           /\ \A i \in 1..Len(s) :
                f[i] = IF now - s[i] < TakeoverWindow THEN Append(f[i - 1], s[i]) ELSE f[i - 1]
  <1> DEFINE n == Len(s)
             next(i, x) == IF now - s[i] < TakeoverWindow THEN Append(x, s[i]) ELSE x
             step == [i \in 1..n |-> [x \in Seq(Nat) |-> next(i, x)]]
             kept == CHOOSE f : f = [i \in 0..n |-> IF i = 0 THEN <<>> ELSE next(i, f[i - 1])]
  <1>1. n \in Nat /\ <<>> \in Seq(Nat) /\ \A i \in 1..n : \A x \in Seq(Nat) : next(i, x) \in Seq(Nat)
    OBVIOUS
  <1>2. Within(s, now) = kept[n]
    BY DEF Within
  <1> HIDE DEF next, n
  <1>3. PICK f : Iterates(f, Seq(Nat), n, <<>>, step)
    <2>1. step \in [1..n -> [Seq(Nat) -> Seq(Nat)]]
      BY <1>1
    <2> HIDE DEF step
    <2> QED BY <1>1, <2>1, Iteration
  <1>4. f \in [0..n -> Seq(Nat)] /\ f[0] = <<>> /\ \A i \in 1..n : f[i] = next(i, f[i - 1])
    <2>1. f \in [0..n -> Seq(Nat)] /\ f[0] = <<>> /\ \A i \in 1..n : f[i] = step[i][f[i - 1]]
      BY <1>3 DEF Iterates
    <2>2. \A i \in 1..n : f[i - 1] \in Seq(Nat)
      BY <1>1, <2>1
    <2> QED BY <2>1, <2>2
  <1>5. f = [i \in 0..n |-> IF i = 0 THEN <<>> ELSE next(i, f[i - 1])]
    <2>1. \A i \in 0..n : f[i] = IF i = 0 THEN <<>> ELSE next(i, f[i - 1])
      BY <1>1, <1>4
    <2> QED BY <1>4, <2>1
  <1>6. kept = [i \in 0..n |-> IF i = 0 THEN <<>> ELSE next(i, kept[i - 1])]
    BY <1>5, Zenon
  <1> HIDE DEF kept
  <1>7. kept[0] = <<>> /\ \A i \in 1..n : kept[i] = next(i, kept[i - 1])
    BY <1>1, <1>6
  <1>8. \A i \in 0..n : kept[i] = f[i]
    <2>1. \A i \in 1..n : kept[i - 1] \in Seq(Nat) => kept[i] = step[i][kept[i - 1]]
      BY <1>7
    <2>2. Obeys(kept, Seq(Nat), n, <<>>, step)
      BY <1>7, <2>1 DEF Obeys
    <2> HIDE DEF step
    <2> QED BY <1>1, <1>3, <2>2, SameIteration
  <1>9. Within(s, now) = f[n]
    BY <1>1, <1>2, <1>8
  <1> QED BY <1>4, <1>9 DEF n, next

(* What is kept, r[1..l], are the recent ones of the first m of the times s,     *)
(* each of them once: number i is the time number g[i].                    *)
Picks(g, r, l, s, m, now) ==
  /\ g \in [1..l -> 1..m]
  /\ \A i, j \in 1..l : i # j => g[i] # g[j]
  /\ \A i \in 1..l : r[i] = s[g[i]] /\ now - s[g[i]] < TakeoverWindow
  /\ \A k \in 1..m : now - s[k] < TakeoverWindow => \E i \in 1..l : g[i] = k

LEMMA PicksOneMore ==
  ASSUME NEW s, NEW m \in Nat, NEW now, NEW r \in Seq(Nat), NEW g, Picks(g, r, Len(r), s, m, now),
         s[m + 1] \in Nat, now - s[m + 1] < TakeoverWindow
  PROVE  \E h : Picks(h, Append(r, s[m + 1]), Len(r) + 1, s, m + 1, now)
  <1> DEFINE l == Len(r)
             r2 == Append(r, s[m + 1])
             h == [i \in 1..(l + 1) |-> IF i = l + 1 THEN m + 1 ELSE g[i]]
  <1>1. /\ l \in Nat /\ Len(r2) = l + 1 /\ r2[l + 1] = s[m + 1]
        /\ \A i \in 1..l : r2[i] = r[i]
    OBVIOUS
  <1>2. /\ g \in [1..l -> 1..m]
        /\ \A i, j \in 1..l : i # j => g[i] # g[j]
        /\ \A i \in 1..l : r[i] = s[g[i]] /\ now - s[g[i]] < TakeoverWindow
        /\ \A k \in 1..m : now - s[k] < TakeoverWindow => \E i \in 1..l : g[i] = k
    BY DEF Picks
  <1> HIDE DEF l, r2
  <1>3. /\ h \in [1..(l + 1) -> 1..(m + 1)] /\ h[l + 1] = m + 1
        /\ \A i \in 1..l : h[i] = g[i] /\ g[i] \in 1..m
    <2>1. \A i \in 1..(l + 1) : i # l + 1 => i \in 1..l /\ g[i] \in 1..m
      BY <1>1, <1>2
    <2>2. \A i \in 1..l : i \in 1..(l + 1) /\ i # l + 1
      BY <1>1
    <2> QED BY <1>1, <2>1, <2>2
  <1> HIDE DEF h
  <1>4. \A i, j \in 1..(l + 1) : i # j => h[i] # h[j]
    <2>1. \A i \in 1..(l + 1) : i = l + 1 \/ i \in 1..l
      BY <1>1
    <2> QED BY <1>2, <1>3, <2>1
  <1>5. \A i \in 1..(l + 1) : r2[i] = s[h[i]] /\ now - s[h[i]] < TakeoverWindow
    BY <1>1, <1>2, <1>3
  <1>6. ASSUME NEW k \in 1..(m + 1), now - s[k] < TakeoverWindow PROVE \E i \in 1..(l + 1) : h[i] = k
    <2>1. CASE k = m + 1
      BY <1>1, <1>3, <2>1
    <2>2. CASE k \in 1..m
      <3>1. PICK i \in 1..l : g[i] = k
        BY <1>2, <1>6, <2>2
      <3> QED BY <1>1, <1>3, <3>1
    <2> QED BY <2>1, <2>2
  <1>7. Picks(h, r2, l + 1, s, m + 1, now)
    BY <1>1, <1>3, <1>4, <1>5, <1>6 DEF Picks
  <1> QED BY <1>7 DEF r2, l

LEMMA PicksNoMore ==
  ASSUME NEW s, NEW m \in Nat, NEW now, NEW r \in Seq(Nat), NEW g, Picks(g, r, Len(r), s, m, now),
         ~(now - s[m + 1] < TakeoverWindow)
  PROVE  Picks(g, r, Len(r), s, m + 1, now)
  <1>1. PICK l \in Nat : l = Len(r)
    OBVIOUS
  <1>2. g \in [1..l -> 1..(m + 1)]
    BY <1>1 DEF Picks
  <1>3. \A k \in 1..(m + 1) : now - s[k] < TakeoverWindow => k \in 1..m
    OBVIOUS
  <1> QED BY <1>1, <1>2, <1>3 DEF Picks

LEMMA WithinPicks ==
  ASSUME NEW s \in Seq(Nat), NEW now \in Nat
  PROVE  Within(s, now) \in Seq(Nat) /\ \E g : Picks(g, Within(s, now), Len(Within(s, now)), s, Len(s), now)
  <1> DEFINE n == Len(s)
  <1>1. PICK f \in [0..n -> Seq(Nat)] :
           /\ Within(s, now) = f[n]
           /\ f[0] = <<>>
           /\ \A i \in 1..n : f[i] = IF now - s[i] < TakeoverWindow THEN Append(f[i - 1], s[i]) ELSE f[i - 1]
    BY WithinByRounds
  <1>2. n \in Nat /\ \A k \in 1..n : s[k] \in Nat
    OBVIOUS
  <1> DEFINE Found(m) == \E g : Picks(g, f[m], Len(f[m]), s, m, now)
             S == {m \in Nat : m <= n => Found(m)}
  <1>3. 0 \in S
    <2>1. PICK g \in [1..0 -> 1..0] : TRUE
      OBVIOUS
    <2>2. Len(f[0]) = 0
      BY <1>1
    <2>3. Picks(g, f[0], Len(f[0]), s, 0, now)
      BY <2>2 DEF Picks
    <2> QED BY <2>3
  <1> HIDE DEF n
  <1>4. ASSUME NEW m \in S PROVE m + 1 \in S
    <2>0. m \in Nat /\ (m <= n => Found(m))
      <3> HIDE DEF Found
      <3> QED OBVIOUS
    <2> HIDE DEF S
    <2>1. ASSUME m + 1 <= n PROVE Found(m + 1)
      <3>1. PICK g : Picks(g, f[m], Len(f[m]), s, m, now)
        BY <1>2, <2>0, <2>1
      <3>2. /\ m \in 0..n /\ m \in Nat /\ m + 1 \in 1..n /\ f[m] \in Seq(Nat) /\ (m + 1) - 1 = m
            /\ s[m + 1] \in Nat
        BY <1>2, <2>0, <2>1
      <3>3. CASE ~(now - s[m + 1] < TakeoverWindow)
        <4>1. f[m + 1] = f[m]
          BY <1>1, <3>2, <3>3
        <4>2. Picks(g, f[m], Len(f[m]), s, m + 1, now)
          BY <3>1, <3>2, <3>3, PicksNoMore
        <4> QED BY <4>1, <4>2
      <3>4. CASE now - s[m + 1] < TakeoverWindow
        <4>1. f[m + 1] = Append(f[m], s[m + 1])
          BY <1>1, <3>2, <3>4
        <4>2. Len(f[m + 1]) = Len(f[m]) + 1
          BY <3>2, <4>1
        <4> QED BY <3>1, <3>2, <3>4, <4>1, <4>2, PicksOneMore
      <3> QED BY <3>3, <3>4
    <2>2. m + 1 \in Nat
      BY <2>0
    <2> HIDE DEF Found
    <2> QED BY <2>1, <2>2 DEF S
  <1> HIDE DEF Found
  <1>5. S = Nat
    <2> HIDE DEF S
    <2>1. S \in SUBSET Nat
      BY DEF S
    <2> QED BY <1>3, <1>4, <2>1, Induction
  <1>6. Found(n)
    BY <1>2, <1>5
  <1> QED BY <1>1, <1>2, <1>6 DEF n, Found

-----------------------------------------------------------------------------
Takeover == [at : Nat, warned : BOOLEAN]

(* Sessions took the lock in the order of the times t they had read.       *)
InOrder(t, n) == \A j, k \in 1..n : j < k => t[j] <= t[k]

Recent(t, i) == {j \in 1..i : t[i] - t[j] < TakeoverWindow}

(* The times s[1..l] that the server has are times of the first n          *)
(* takeovers, each of one of them, number m[i]; and if the takeovers were  *)
(* in order, none is missing that was recent when the last one was noted.  *)
Traces(m, s, l, t, n) ==
  /\ m \in [1..l -> 1..n]
  /\ \A i, j \in 1..l : i # j => m[i] # m[j]
  /\ \A i \in 1..l : s[i] = t[m[i]]
  /\ InOrder(t, n) => \A k \in Recent(t, n) : \E i \in 1..l : m[i] = k

Extends(r, w, k, x) == r[k + 1] = x /\ \A i \in 1..k : r[i] = w[i]

LEMMA Appended ==
  ASSUME NEW S, NEW q \in Seq(S), NEW x \in S
  PROVE  /\ Append(q, x) \in Seq(S) /\ Len(q) \in Nat /\ Len(Append(q, x)) = Len(q) + 1
         /\ Extends(Append(q, x), q, Len(q), x)
  BY DEF Extends

(* What noteTakeover keeps, and the new takeover, are the recent ones.     *)
Recalls(h, l, t, n) ==
  /\ h \in [1..l -> Recent(t, n)]
  /\ \A i, j \in 1..l : i # j => h[i] # h[j]
  /\ InOrder(t, n) => \A j \in Recent(t, n) : \E i \in 1..l : h[i] = j

LEMMA TraceOneMore ==
  ASSUME NEW n \in Nat, NEW l \in Nat, NEW k \in Nat,
         NEW t \in [1..(n + 1) -> Nat], NEW now, now = t[n + 1],
         NEW s, NEW m, Traces(m, s, l, t, n),
         NEW w, NEW g, Picks(g, w, k, s, l, now),
         NEW r, Extends(r, w, k, now)
  PROVE  \E h : Traces(h, r, k + 1, t, n + 1) /\ Recalls(h, k + 1, t, n + 1)
  <1> DEFINE h == [i \in 1..(k + 1) |-> IF i = k + 1 THEN n + 1 ELSE m[g[i]]]
             R == Recent(t, n + 1)
  <1>1. now \in Nat /\ TakeoverWindow \in Nat \ {0} /\ \A i \in 1..n : t[i] \in Nat
    BY AdmissionAssumption
  <1>2. /\ \A i \in 1..k : g[i] \in 1..l /\ m[g[i]] \in 1..n
        /\ \A i, j \in 1..k : i # j => m[g[i]] # m[g[j]]
        /\ \A i \in 1..k : w[i] = t[m[g[i]]] /\ now - t[m[g[i]]] < TakeoverWindow
    <2>1. /\ m \in [1..l -> 1..n]
          /\ \A i, j \in 1..l : i # j => m[i] # m[j]
          /\ \A i \in 1..l : s[i] = t[m[i]]
      BY DEF Traces
    <2>2. /\ g \in [1..k -> 1..l]
          /\ \A i, j \in 1..k : i # j => g[i] # g[j]
          /\ \A i \in 1..k : w[i] = s[g[i]] /\ now - s[g[i]] < TakeoverWindow
      BY DEF Picks
    <2>3. \A i \in 1..k : g[i] \in 1..l
      BY <2>2
    <2> QED BY <2>1, <2>2, <2>3
  <1>3. \A i \in 1..(k + 1) : i = k + 1 \/ i \in 1..k
    OBVIOUS
  <1>4. h[k + 1] = n + 1 /\ \A i \in 1..k : h[i] = m[g[i]]
    OBVIOUS
  <1>5. \A j : j \in R <=> j \in 1..(n + 1) /\ now - t[j] < TakeoverWindow
    BY DEF Recent
  <1>6. n + 1 \in R /\ \A i \in 1..k : m[g[i]] \in R
    <2>1. n + 1 \in 1..(n + 1) /\ now - t[n + 1] < TakeoverWindow
      BY <1>1
    <2>2. \A i \in 1..k : m[g[i]] \in 1..(n + 1) /\ now - t[m[g[i]]] < TakeoverWindow
      BY <1>2
    <2> HIDE DEF R
    <2> QED BY <1>5, <2>1, <2>2
  <1> HIDE DEF R
  <1>7. h \in [1..(k + 1) -> R]
    BY <1>3, <1>6
  <1> HIDE DEF h
  <1>8. \A i, j \in 1..(k + 1) : i # j => h[i] # h[j]
    <2>1. ASSUME NEW i \in 1..k PROVE h[i] \in 1..n /\ h[i] # n + 1
      <3>1. h[i] = m[g[i]] /\ m[g[i]] \in 1..n
        BY <1>2, <1>4
      <3> QED BY <3>1
    <2>2. ASSUME NEW i \in 1..k, NEW j \in 1..k, i # j PROVE h[i] # h[j]
      <3>1. h[i] = m[g[i]] /\ h[j] = m[g[j]]
        BY <1>4
      <3> QED BY <1>2, <2>2, <3>1
    <2>3. \A i \in 1..k : h[i] # h[k + 1]
      BY <1>4, <2>1
    <2> QED BY <1>3, <2>2, <2>3
  <1>9. ASSUME InOrder(t, n + 1), NEW j \in R PROVE \E i \in 1..(k + 1) : h[i] = j
    <2>1. CASE j = n + 1
      BY <1>4, <2>1
    <2>2. CASE j \in 1..n
      <3>1. InOrder(t, n)
        BY <1>9 DEF InOrder
      <3>2. n \in 1..n /\ t[n] <= now /\ t[n] \in Nat /\ t[j] \in Nat /\ now - t[j] < TakeoverWindow
        BY <1>1, <1>5, <1>9, <2>2 DEF InOrder
      <3>3. j \in Recent(t, n)
        BY <1>1, <2>2, <3>2 DEF Recent
      <3>4. PICK i \in 1..l : m[i] = j
        BY <3>1, <3>3 DEF Traces
      <3>5. s[i] = t[j]
        BY <3>4 DEF Traces
      <3>6. PICK f \in 1..k : g[f] = i
        BY <3>2, <3>4, <3>5 DEF Picks
      <3> QED BY <1>4, <3>4, <3>6
    <2> QED BY <1>5, <2>1, <2>2
  <1>10. Traces(h, r, k + 1, t, n + 1)
    <2>1. h \in [1..(k + 1) -> 1..(n + 1)]
      BY <1>5, <1>7
    <2>2. \A i \in 1..(k + 1) : r[i] = t[h[i]]
      BY <1>2, <1>3, <1>4 DEF Extends
    <2> QED BY <1>8, <1>9, <2>1, <2>2 DEF Traces, R
  <1>11. Recalls(h, k + 1, t, n + 1)
    BY <1>7, <1>8, <1>9 DEF R, Recalls
  <1> QED BY <1>10, <1>11

(* The warning w with takeover number i is right.                          *)
Warned(w, t, i) ==
  /\ w => Cardinality(Recent(t, i)) >= TakeoverThreshold
  /\ InOrder(t, i) /\ Cardinality(Recent(t, i)) >= TakeoverThreshold => w

Times(q) == [i \in 1..Len(q) |-> q[i].at]

(* What the server remembers, s, of the takeovers q.                       *)
Noted(q, s) ==
  /\ q \in Seq(Takeover) /\ s \in Seq(Nat)
  /\ \A i \in 1..Len(q) : Warned(q[i].warned, Times(q), i)
  /\ \E m : Traces(m, s, Len(s), Times(q), Len(q))

Agree(t, u, n) == \A i \in 1..n : t[i] = u[i]

LEMMA SameTimes ==
  ASSUME NEW n \in Nat, NEW t, NEW u, Agree(t, u, n)
  PROVE  /\ \A i \in 1..n : Recent(t, i) = Recent(u, i) /\ (InOrder(t, i) <=> InOrder(u, i))
         /\ \A w : \A i \in 1..n : Warned(w, t, i) => Warned(w, u, i)
         /\ \A m, s, l : Traces(m, s, l, t, n) => Traces(m, s, l, u, n)
  <1>1. ASSUME NEW i \in 1..n PROVE Recent(t, i) = Recent(u, i)
    BY DEF Recent, Agree
  <1>2. ASSUME NEW i \in 1..n PROVE InOrder(t, i) <=> InOrder(u, i)
    BY DEF InOrder, Agree
  <1>3. ASSUME NEW w, NEW i \in 1..n, Warned(w, t, i) PROVE Warned(w, u, i)
    BY <1>1, <1>2, <1>3, Zenon DEF Warned
  <1>4. ASSUME NEW m, NEW s, NEW l, Traces(m, s, l, t, n) PROVE Traces(m, s, l, u, n)
    <2>1. Recent(t, n) = Recent(u, n) /\ (InOrder(t, n) <=> InOrder(u, n))
      <3>1. CASE n = 0
        BY <3>1 DEF Recent, InOrder
      <3>2. CASE n \in 1..n
        BY <1>1, <1>2, <3>2
      <3> QED BY <3>1, <3>2
    <2>2. \A i \in 1..l : s[i] = u[m[i]]
      BY <1>4 DEF Traces, Agree
    <2> QED BY <1>4, <2>1, <2>2, Zenon DEF Traces
  <1> QED BY <1>1, <1>2, <1>3, <1>4

LEMMA NotedOneMore ==
  ASSUME NEW q, NEW s, Noted(q, s), NEW now \in Nat, NEW r, r = Append(Within(s, now), now),
         NEW x \in Takeover, x.at = now, x.warned <=> Len(r) >= TakeoverThreshold
  PROVE  Noted(Append(q, x), r)
  <1>1. /\ q \in Seq(Takeover) /\ s \in Seq(Nat)
        /\ \A i \in 1..Len(q) : Warned(q[i].warned, Times(q), i)
    BY DEF Noted
  <1>2. PICK n \in Nat : n = Len(q)
    BY <1>1
  <1>3. PICK m : Traces(m, s, Len(s), Times(q), n)
    BY <1>2 DEF Noted
  <1>4. PICK w \in Seq(Nat) : w = Within(s, now)
    BY <1>1, WithinPicks
  <1>5. PICK g : Picks(g, w, Len(w), s, Len(s), now)
    BY <1>1, <1>4, WithinPicks
  <1>6. PICK k \in Nat : k = Len(w)
    BY <1>4
  <1>7. /\ r \in Seq(Nat) /\ Len(r) = k + 1 /\ Extends(r, w, k, now)
        /\ TakeoverThreshold \in Nat
    BY <1>4, <1>6, Appended, AdmissionAssumption
  <1>8. PICK a \in Seq(Takeover) : /\ a = Append(q, x) /\ Len(a) = n + 1
                                   /\ Extends(a, q, n, x)
    BY <1>1, <1>2, Appended
  <1>9. a[n + 1] = x /\ \A i \in 1..n : a[i] = q[i]
    BY <1>8 DEF Extends
  <1>10. PICK t : t = Times(a)
    OBVIOUS
  <1>11. t \in [1..(n + 1) -> Nat] /\ t[n + 1] = now
    <2>1. \A i \in 1..(n + 1) : a[i] \in Takeover
      BY <1>8
    <2>2. \A i \in 1..(n + 1) : a[i].at \in Nat
      BY <2>1 DEF Takeover
    <2> QED BY <1>8, <1>9, <1>10, <2>2 DEF Times
  <1>12. Agree(Times(q), t, n)
    BY <1>2, <1>8, <1>9, <1>10 DEF Times, Agree
  <1>13. Traces(m, s, Len(s), t, n)
    BY <1>3, <1>12, SameTimes
  <1>14. PICK h : Traces(h, r, k + 1, t, n + 1) /\ Recalls(h, k + 1, t, n + 1)
    <2>1. Len(s) \in Nat
      BY <1>1
    <2>2. Picks(g, w, k, s, Len(s), now)
      BY <1>5, <1>6
    <2>3. n \in Nat /\ k \in Nat /\ now = t[n + 1]
      BY <1>11
    <2> QED BY <1>7, <1>11, <1>13, <2>1, <2>2, <2>3, TraceOneMore
  <1>15. Warned(x.warned, t, n + 1)
    <2> DEFINE R == Recent(t, n + 1)
    <2>1. IsFiniteSet(R) /\ IsFiniteSet(1..(k + 1)) /\ Cardinality(1..(k + 1)) = k + 1
      <3>1. IsFiniteSet(1..(n + 1)) /\ R \in SUBSET (1..(n + 1))
        BY FS_Interval DEF Recent
      <3>2. IsFiniteSet(1..(k + 1)) /\ Cardinality(1..(k + 1)) = k + 1
        BY FS_Interval
      <3> HIDE DEF R
      <3> QED BY <3>1, <3>2, FS_Subset
    <2>2. Cardinality(R) \in Nat
      BY <2>1, FS_CardinalityType
    <2> HIDE DEF R
    <2>3. h \in Injection(1..(k + 1), R)
      BY <1>14 DEF R, Recalls, Injection, IsInjective
    <2>4. k + 1 <= Cardinality(R)
      BY <2>1, <2>3, FS_Injection
    <2>5. InOrder(t, n + 1) => Cardinality(R) <= k + 1
      <3>1. InOrder(t, n + 1) => h \in Surjection(1..(k + 1), R)
        BY <1>14 DEF R, Recalls, Surjection
      <3> QED BY <2>1, <3>1, FS_Surjection
    <2>6. k + 1 >= TakeoverThreshold => Cardinality(R) >= TakeoverThreshold
      BY <1>7, <2>2, <2>4
    <2>7. InOrder(t, n + 1) /\ Cardinality(R) >= TakeoverThreshold => k + 1 >= TakeoverThreshold
      BY <1>7, <2>2, <2>5
    <2> QED BY <1>7, <2>6, <2>7, Zenon DEF Warned, R
  <1>16. ASSUME NEW i \in 1..n PROVE Warned(a[i].warned, t, i)
    <2>1. Warned(q[i].warned, Times(q), i) /\ q[i] = a[i]
      BY <1>1, <1>2, <1>9
    <2> QED BY <1>12, <2>1, SameTimes
  <1>17. \A i \in 1..Len(a) : Warned(a[i].warned, t, i)
    <2>1. \A i \in 1..(n + 1) : i \in 1..n \/ i = n + 1
      OBVIOUS
    <2> QED BY <1>8, <1>9, <1>15, <1>16, <2>1
  <1> QED BY <1>7, <1>8, <1>10, <1>14, <1>17 DEF Noted

-----------------------------------------------------------------------------
(* What is remembered of the takeovers of each device.                     *)
TakeoversInv ==
  /\ clock \in Nat /\ at \in [Session -> Nat]
  /\ takeovers \in [DeviceId -> Seq(Nat)]
  /\ taken \in [DeviceId -> Seq(Takeover)]
  /\ \A d \in DeviceId : Noted(taken[d], takeovers[d])

LEMMA TakeoversInit == Init => TakeoversInv
  <1> SUFFICES ASSUME Init PROVE TakeoversInv
    OBVIOUS
  <1>1. <<>> \in Seq(Takeover) /\ <<>> \in Seq(Nat) /\ Len(<<>>) = 0
    OBVIOUS
  <1>2. PICK m \in [1..0 -> 1..0] : TRUE
    <2>1. [i \in 1..0 |-> 0] \in [1..0 -> 1..0]
      OBVIOUS
    <2> QED BY <2>1
  <1>3. Traces(m, <<>>, 0, Times(<<>>), 0)
    BY DEF Traces, Recent
  <1>4. Noted(<<>>, <<>>)
    BY <1>1, <1>3 DEF Noted
  <1>5. /\ clock \in Nat /\ at \in [Session -> Nat]
        /\ takeovers \in [DeviceId -> Seq(Nat)]
        /\ taken \in [DeviceId -> Seq(Takeover)]
        /\ \A d \in DeviceId : taken[d] = <<>> /\ takeovers[d] = <<>>
    BY <1>1 DEF Init
  <1> QED BY <1>4, <1>5 DEF TakeoversInv

LEMMA NotedTakeover ==
  ASSUME TakeoversInv, NEW s \in Session, NoteTakeover(s)
  PROVE  TakeoversInv'
  <1>1. clock' \in Nat /\ at' \in [Session -> Nat]
    BY DEF TakeoversInv, NoteTakeover
  <1>2. CASE dev[s] \notin DeviceId
    <2>1. takeovers' = takeovers /\ taken' = taken
      BY <1>2 DEF NoteTakeover, TakeoversInv
    <2> QED BY <1>1, <2>1 DEF TakeoversInv
  <1>3. ASSUME NEW d \in DeviceId, d = dev[s] PROVE TakeoversInv'
    <2>1. PICK now \in Nat : now = at[s]
      BY DEF TakeoversInv
    <2>2. PICK r : r = Append(Within(takeovers[d], now), now)
      OBVIOUS
    <2>3. PICK x : x = [at |-> now, warned |-> Len(r) >= TakeoverThreshold]
      OBVIOUS
    <2>4. /\ x \in Takeover
          /\ x.at = now
          /\ x.warned <=> Len(r) >= TakeoverThreshold
      <3>1. takeovers[d] \in Seq(Nat)
        BY DEF TakeoversInv
      <3>2. r \in Seq(Nat) /\ TakeoverThreshold \in Nat
        BY <2>2, <3>1, WithinPicks, AdmissionAssumption
      <3>3. [at |-> now, warned |-> Len(r) >= TakeoverThreshold] \in Takeover
        BY <3>2 DEF Takeover
      <3>4. x \in Takeover
        BY <2>3, <3>3, Zenon
      <3> QED BY <2>3, <3>4, Zenon
    <2>5. takeovers' = [takeovers EXCEPT ![d] = r]
      BY <1>3, <2>1, <2>2 DEF NoteTakeover, RecentTakeovers
    <2>6. taken' = [taken EXCEPT ![d] = Append(taken[d], x)]
      <3>1. [at |-> at[s], warned |-> Len(RecentTakeovers(d, at[s])) >= TakeoverThreshold] = x
        BY <2>1, <2>2, <2>3, Zenon DEF RecentTakeovers
      <3> QED BY <1>3, <3>1, Zenon DEF NoteTakeover
    <2>7. Noted(taken[d], takeovers[d])
      BY DEF TakeoversInv
    <2>8. Noted(Append(taken[d], x), r)
      BY <2>2, <2>4, <2>7, NotedOneMore
    <2>9. Append(taken[d], x) \in Seq(Takeover) /\ r \in Seq(Nat)
      BY <2>8 DEF Noted
    <2> QED BY <1>1, <2>5, <2>6, <2>8, <2>9 DEF TakeoversInv
  <1> QED BY <1>2, <1>3

LEMMA TakeoversStep == TakeoversInv /\ [Next]_vars => TakeoversInv'
  <1> SUFFICES ASSUME TakeoversInv, [Next]_vars PROVE TakeoversInv'
    OBVIOUS
  <1>1. ASSUME UNCHANGED <<takeovers, taken>>, clock' \in Nat, at' \in [Session -> Nat]
        PROVE  TakeoversInv'
    BY <1>1 DEF TakeoversInv
  <1>2. CASE Tick \/ UNCHANGED vars
    BY <1>1, <1>2 DEF Tick, vars, TakeoversInv
  <1>3. ASSUME NEW s \in Session,
               \/ \E h \in Handshakes : Handshake(s, h)
               \/ ConnackFails(s) \/ ReadTime(s) \/ RegisterUpsert(s) \/ RegisterSetDriver(s)
               \/ NoteRejection(s) \/ \E v \in Conversations : Serve(s, v)
        PROVE  TakeoversInv'
    BY <1>1, <1>3 DEF Handshake, ConnackFails, ReadTime, RegisterUpsert, RegisterSetDriver,
                      NoteRejection, Serve, End, TakeoversInv
  <1> QED BY <1>2, <1>3, NotedTakeover DEF Next

(* Noted, in the words of the property.                                    *)
LEMMA NotedIsRight == TakeoversInv => WarnsOfDuplicates
  <1> SUFFICES ASSUME TakeoversInv, NEW d \in DeviceId, NEW i \in DOMAIN taken[d]
               PROVE  LET recent == {j \in 1..i : taken[d][i].at - taken[d][j].at < TakeoverWindow}
                          inOrder == \A j, k \in 1..i : j < k => taken[d][j].at <= taken[d][k].at
                          often == Cardinality(recent) >= TakeoverThreshold
                      IN  /\ taken[d][i].warned => often
                          /\ inOrder /\ often => taken[d][i].warned
    BY DEF WarnsOfDuplicates
  <1> DEFINE q == taken[d]
  <1>1. q \in Seq(Takeover) /\ \A k \in 1..Len(q) : Warned(q[k].warned, Times(q), k)
    BY DEF TakeoversInv, Noted
  <1>2. i \in 1..Len(q) /\ Len(q) \in Nat
    BY <1>1
  <1>3. Warned(q[i].warned, Times(q), i)
    BY <1>1, <1>2
  <1>4. \A j \in 1..i : Times(q)[j] = q[j].at
    BY <1>2 DEF Times
  <1> HIDE DEF q
  <1>5. Recent(Times(q), i) = {j \in 1..i : q[i].at - q[j].at < TakeoverWindow}
    BY <1>2, <1>4 DEF Recent
  <1>6. InOrder(Times(q), i) <=> \A j, k \in 1..i : j < k => q[j].at <= q[k].at
    BY <1>4 DEF InOrder
  <1> QED BY <1>3, <1>5, <1>6, Zenon DEF Warned, q

(* Server.noteTakeover: the warning of a duplicate id tells of as many      *)
(* takeovers within the window as the threshold says, although the server   *)
(* forgets takeovers as it goes; and it comes whenever there were as many,  *)
(* if the sessions took the lock in the order of the times they had read.   *)
THEOREM DuplicatesAlwaysWarned == Spec => []WarnsOfDuplicates
  BY TakeoversInit, TakeoversStep, NotedIsRight, PTL DEF Spec

-----------------------------------------------------------------------------
(* The packets: what an encoder has written is what a decoder reads.       *)

(* The bytes s are in b, after the first i.                                *)
At(b, i, s) == i + Len(s) <= Len(b) /\ \A j \in 1..Len(s) : b[i + j] = s[j]

LEMMA Concat ==
  ASSUME NEW S, NEW s \in Seq(S), NEW t \in Seq(S)
  PROVE  /\ s \o t \in Seq(S) /\ Len(s \o t) = Len(s) + Len(t) /\ Len(s) \in Nat /\ Len(t) \in Nat
         /\ At(s \o t, 0, s) /\ At(s \o t, Len(s), t)
  BY DEF At

LEMMA AtTrans ==
  ASSUME NEW S, NEW b \in Seq(S), NEW s \in Seq(S), NEW t \in Seq(S), NEW i \in Nat, NEW j \in Nat,
         At(b, i, s), At(s, j, t)
  PROVE  At(b, i + j, t)
  <1>1. Len(b) \in Nat /\ Len(s) \in Nat /\ Len(t) \in Nat
    OBVIOUS
  <1>2. ASSUME NEW k \in 1..Len(t) PROVE b[(i + j) + k] = t[k]
    <2>1. s[j + k] = t[k] /\ j + k \in 1..Len(s)
      BY <1>1 DEF At
    <2>2. b[i + (j + k)] = s[j + k]
      BY <2>1 DEF At
    <2> QED BY <1>1, <2>1, <2>2
  <1> QED BY <1>1, <1>2 DEF At

LEMMA Sub ==
  ASSUME NEW S, NEW s \in Seq(S), NEW i \in 0..Len(s), NEW t \in Seq(S), At(s, i, t)
  PROVE  SubSeq(s, i + 1, i + Len(t)) = t
  <1>1. Len(s) \in Nat /\ Len(t) \in Nat /\ i \in Nat
    OBVIOUS
  <1>2. SubSeq(s, i + 1, i + Len(t)) = [j \in 1..Len(t) |-> s[i + j]]
    BY <1>1 DEF At
  <1>3. t = [j \in 1..Len(t) |-> t[j]]
    OBVIOUS
  <1>4. \A j \in 1..Len(t) : s[i + j] = t[j]
    BY DEF At
  <1>5. [j \in 1..Len(t) |-> s[i + j]] = [j \in 1..Len(t) |-> t[j]]
    BY <1>4, Zenon
  <1> QED BY <1>2, <1>3, <1>5, Zenon

-----------------------------------------------------------------------------
(* The k digits v are those of n.                                          *)
Ends(v, k) ==
  /\ v \in [1..k -> Byte]
  /\ \A i \in 1..(k - 1) : v[i] >= 128
  /\ v[k] < 128

Digits(v, k, n) ==
  /\ Ends(v, k)
  /\ n = (v[1] % 128) + (IF 2 <= k THEN (v[2] % 128) * 128 ELSE 0)
           + (IF 3 <= k THEN (v[3] % 128) * 16384 ELSE 0) + (IF 4 <= k THEN (v[4] % 128) * 2097152 ELSE 0)

Varint(v, n) == \E k \in 1..4 : Digits(v, k, n)

Sayable(n) == n \in Nat /\ n < 268435456

LEMMA VarintAppended ==
  ASSUME NEW n, Sayable(n)
  PROVE  AppendVarint(n) \in Seq(Byte) /\ Varint(AppendVarint(n), n)
  <1> DEFINE Fits(k) == (k = 5 \/ n < Weight[k + 1]) /\ (k = 1 \/ n >= Weight[k])
             digit(k) == [i \in 1..k |-> ((n \div Weight[i]) % 128) + IF i < k THEN 128 ELSE 0]
             k == CHOOSE k \in 1..5 : Fits(k)
  <1>1. AppendVarint(n) = digit(k)
    BY DEF AppendVarint
  <1>2. Weight[1] = 1 /\ Weight[2] = 128 /\ Weight[3] = 16384 /\ Weight[4] = 2097152 /\ Weight[5] = 268435456
    BY DEF Weight
  <1>3. Fits(1) \/ Fits(2) \/ Fits(3) \/ Fits(4)
    BY <1>2, SMT DEF Sayable
  <1>4. k \in 1..5 /\ Fits(k)
    <2> HIDE DEF Fits
    <2> QED BY <1>3
  <1>5. k \in 1..4 /\ Fits(k)
    BY <1>2, <1>4, SMT DEF Sayable
  <1> HIDE DEF k
  <1>6. k = 1 \/ k = 2 \/ k = 3 \/ k = 4
    BY <1>5
  <1>7. PICK d : d = digit(k)
    OBVIOUS
  <1>8. /\ d \in [1..k -> Int]
        /\ \A i \in 1..k : d[i] = ((n \div Weight[i]) % 128) + IF i < k THEN 128 ELSE 0
    BY <1>2, <1>6, <1>7, SMT DEF Sayable
  <1> HIDE DEF digit
  <1>9. Varint(d, n)
    <2>1. CASE k = 1
      <3>1. d \in [1..1 -> Byte] /\ d[1] = n /\ n < 128
        BY <1>2, <1>5, <1>8, <2>1, SMT DEF Byte, Sayable
      <3>2. Digits(d, 1, n)
        BY <3>1, SMT DEF Digits, Ends, Byte, Sayable
      <3> QED BY <3>2 DEF Varint
    <2>2. CASE k = 2
      <3>1. d \in [1..2 -> Byte] /\ d[1] = (n % 128) + 128 /\ d[2] = n \div 128 /\ d[2] < 128
        BY <1>2, <1>5, <1>8, <2>2, SMT DEF Byte, Sayable
      <3>2. Digits(d, 2, n)
        BY <3>1, SMT DEF Digits, Ends, Byte, Sayable
      <3> QED BY <3>2 DEF Varint
    <2>3. CASE k = 3
      <3>1. /\ d \in [1..3 -> Byte] /\ d[1] = (n % 128) + 128 /\ d[2] = ((n \div 128) % 128) + 128
            /\ d[3] = n \div 16384 /\ d[3] < 128
        BY <1>2, <1>5, <1>8, <2>3, SMT DEF Byte, Sayable
      <3>2. Digits(d, 3, n)
        BY <3>1, SMT DEF Digits, Ends, Byte, Sayable
      <3> QED BY <3>2 DEF Varint
    <2>4. CASE k = 4
      <3>1. /\ d \in [1..4 -> Byte] /\ d[1] = (n % 128) + 128 /\ d[2] = ((n \div 128) % 128) + 128
            /\ d[3] = ((n \div 16384) % 128) + 128
            /\ d[4] = n \div 2097152 /\ d[4] < 128
        BY <1>2, <1>5, <1>8, <2>4, SMT DEF Byte, Sayable
      <3>2. /\ d[1] % 128 = n % 128 /\ d[2] % 128 = (n \div 128) % 128
            /\ d[3] % 128 = (n \div 16384) % 128 /\ d[4] % 128 = n \div 2097152
            /\ \A i \in 1..3 : d[i] >= 128
        BY <3>1, SMT DEF Sayable
      <3>3. n = (n % 128) + ((n \div 128) % 128) * 128 + ((n \div 16384) % 128) * 16384
                  + (n \div 2097152) * 2097152
        BY SMT DEF Sayable
      <3>4. Digits(d, 4, n)
        BY <3>1, <3>2, <3>3, SMT DEF Digits, Ends
      <3> QED BY <3>4 DEF Varint
    <2> QED BY <1>6, <2>1, <2>2, <2>3, <2>4, SMT
  <1>10. d \in Seq(Byte)
    BY <1>9, SMT DEF Varint, Digits, Ends
  <1> QED BY <1>1, <1>7, <1>9, <1>10, SMT

(* What has come of a stream that starts with the byte h and digits v.     *)
Starts(b, h, v, k) ==
  /\ b \in Seq(Byte)
  /\ 1 <= Len(b) => b[1] = h
  /\ \A i \in 1..k : i + 1 <= Len(b) => b[i + 1] = v[i]

LEMMA VarintRead ==
  ASSUME NEW b, NEW h, NEW k \in 1..4, NEW v, NEW n, Digits(v, k, n), Starts(b, h, v, k)
  PROVE  /\ k + 1 <= Len(b) => ReadVarint(b) = [ok |-> TRUE, value |-> n, next |-> k + 1]
         /\ Len(b) < k + 1 => ReadVarint(b) = Failed
  <1> DEFINE ends == {i \in 1..4 : /\ i + 1 <= Len(b)
                                   /\ b[i + 1] < 128
                                   /\ \A j \in 1..(i - 1) : b[j + 1] >= 128}
             digits == CHOOSE i \in ends : TRUE
             term(i) == IF i <= digits THEN (b[i + 1] % 128) * Weight[i] ELSE 0
  <1>1. ReadVarint(b) = IF ends = {} THEN Failed
                        ELSE [ok |-> TRUE, value |-> term(1) + term(2) + term(3) + term(4), next |-> digits + 1]
    BY DEF ReadVarint
  <1>2. /\ Len(b) \in Nat
        /\ \A i \in 1..k : i + 1 <= Len(b) => b[i + 1] = v[i]
        /\ \A i \in 1..(k - 1) : v[i] >= 128
        /\ v[k] < 128 /\ \A i \in 1..k : v[i] \in Int
    <2>1. Ends(v, k)
      BY SMT DEF Digits
    <2>2. b \in Seq(Byte) /\ \A i \in 1..k : i + 1 <= Len(b) => b[i + 1] = v[i]
      BY DEF Starts
    <2>3. Len(b) \in Nat
      BY <2>2
    <2>4. \A i \in 1..k : v[i] \in Int
      <3>1. \A i \in 1..k : v[i] \in Byte
        BY <2>1 DEF Ends
      <3> QED BY <3>1 DEF Byte
    <2> QED BY <2>1, <2>2, <2>3, <2>4, Zenon DEF Ends
  <1>3. ASSUME NEW i \in ends PROVE i = k /\ k + 1 <= Len(b)
    <2>1. /\ i \in 1..4 /\ i + 1 <= Len(b) /\ b[i + 1] < 128
          /\ \A j \in 1..(i - 1) : b[j + 1] >= 128
      OBVIOUS
    <2> HIDE DEF ends
    <2>2. ~(i < k)
      <3>1. SUFFICES ASSUME i < k PROVE FALSE
        OBVIOUS
      <3>2. i \in 1..(k - 1) /\ i \in 1..k
        BY <2>1, <3>1
      <3>3. v[i] >= 128 /\ v[i] < 128 /\ v[i] \in Int
        BY <1>2, <2>1, <3>2
      <3> QED BY <3>3
    <2>3. ~(i > k)
      <3>1. SUFFICES ASSUME i > k PROVE FALSE
        OBVIOUS
      <3>2. k \in 1..(i - 1) /\ k \in 1..k /\ k + 1 <= Len(b)
        BY <1>2, <2>1, <3>1
      <3>3. v[k] >= 128 /\ v[k] < 128 /\ v[k] \in Int
        BY <1>2, <2>1, <3>2
      <3> QED BY <3>3
    <2> QED BY <2>1, <2>2, <2>3
  <1>4. ASSUME k + 1 <= Len(b) PROVE k \in ends
    BY <1>2, <1>4
  <1> HIDE DEF ends
  <1>5. CASE Len(b) < k + 1
    <2>1. ends = {} /\ ~(k + 1 <= Len(b))
      BY <1>2, <1>3, <1>5
    <2> HIDE DEF term, digits
    <2> QED BY <1>1, <2>1, Zenon
  <1>6. CASE k + 1 <= Len(b)
    <2>1. digits = k
      BY <1>3, <1>4, <1>6
    <2> HIDE DEF digits
    <2>2. Weight[1] = 1 /\ Weight[2] = 128 /\ Weight[3] = 16384 /\ Weight[4] = 2097152
      BY DEF Weight
    <2>3. term(1) + term(2) + term(3) + term(4) = n
      <3>1. /\ term(1) = v[1] % 128
            /\ term(2) = IF 2 <= k THEN (v[2] % 128) * 128 ELSE 0
            /\ term(3) = IF 3 <= k THEN (v[3] % 128) * 16384 ELSE 0
            /\ term(4) = IF 4 <= k THEN (v[4] % 128) * 2097152 ELSE 0
        <4>1. \A i \in 1..k : b[i + 1] = v[i] /\ v[i] \in Int
          BY <1>2, <1>6
        <4>2. term(1) = v[1] % 128
          BY <2>1, <2>2, <4>1, SMT
        <4>3. term(2) = IF 2 <= k THEN (v[2] % 128) * 128 ELSE 0
          BY <2>1, <2>2, <4>1, SMT
        <4>4. term(3) = IF 3 <= k THEN (v[3] % 128) * 16384 ELSE 0
          BY <2>1, <2>2, <4>1, SMT
        <4>5. term(4) = IF 4 <= k THEN (v[4] % 128) * 2097152 ELSE 0
          BY <2>1, <2>2, <4>1, SMT
        <4> HIDE DEF term
        <4> QED BY <4>2, <4>3, <4>4, <4>5, SMT
      <3> HIDE DEF term
      <3> QED BY <3>1, SMT DEF Digits, Ends, Byte
    <2>4. ends # {} /\ ~(Len(b) < k + 1)
      BY <1>2, <1>4, <1>6
    <2> HIDE DEF term
    <2> QED BY <1>1, <2>1, <2>3, <2>4, Zenon
  <1> QED BY <1>2, <1>5, <1>6

Read(type, flags, payload, rest) ==
  [ok |-> TRUE, type |-> type, flags |-> flags, payload |-> payload, rest |-> rest]

(* The packet after k digits is whole, with all its n bytes.               *)
Whole(b, k, n) == n <= MaxPacketSize /\ k + 1 + n <= Len(b)

LEMMA PacketRead ==
  ASSUME NEW b, NEW h, NEW k \in 1..4, NEW v, NEW n \in Nat, Digits(v, k, n), Starts(b, h, v, k)
  PROVE  ReadPacket(b) =
           IF Whole(b, k, n)
           THEN Read(h \div 16, h % 16, SubSeq(b, k + 2, k + 1 + n), SubSeq(b, k + 2 + n, Len(b)))
           ELSE Failed
  <1>1. PICK length : length = ReadVarint(b)
    OBVIOUS
  <1> DEFINE end == length.next + length.value
  <1>2. ReadPacket(b) =
          IF \/ b = <<>> \/ ~length.ok
             \/ length.value > MaxPacketSize
             \/ end > Len(b)
          THEN Failed
          ELSE Read(b[1] \div 16, b[1] % 16, SubSeq(b, length.next + 1, end), SubSeq(b, end + 1, Len(b)))
    BY <1>1 DEF ReadPacket, Read
  <1>3. Len(b) \in Nat /\ (b = <<>> => Len(b) = 0) /\ (1 <= Len(b) => b[1] = h) /\ MaxPacketSize \in Nat
    BY SMT DEF Starts, MaxPacketSize
  <1>4. CASE Len(b) < k + 1
    <2>1. length = Failed
      BY <1>1, <1>4, VarintRead
    <2>2. ~length.ok
      BY <2>1 DEF Failed
    <2>3. ~Whole(b, k, n)
      BY <1>3, <1>4 DEF Whole
    <2> QED BY <1>2, <2>2, <2>3, Zenon
  <1>5. CASE k + 1 <= Len(b)
    <2>1. length = [ok |-> TRUE, value |-> n, next |-> k + 1]
      BY <1>1, <1>5, VarintRead
    <2>2. length.ok /\ length.value = n /\ length.next = k + 1
      BY <2>1, Zenon
    <2>3. b # <<>> /\ b[1] = h
      BY <1>3, <1>5
    <2>4. ReadPacket(b) =
            IF n > MaxPacketSize \/ (k + 1) + n > Len(b) THEN Failed
            ELSE Read(h \div 16, h % 16, SubSeq(b, (k + 1) + 1, (k + 1) + n), SubSeq(b, ((k + 1) + n) + 1, Len(b)))
      BY <1>2, <2>2, <2>3, Zenon
    <2>5. (k + 1) + 1 = k + 2 /\ (k + 1) + n = k + 1 + n /\ ((k + 1) + n) + 1 = k + 2 + n
      OBVIOUS
    <2>6. (n > MaxPacketSize \/ (k + 1) + n > Len(b)) <=> ~Whole(b, k, n)
      BY <1>3 DEF Whole
    <2> QED BY <2>4, <2>5, <2>6, Zenon
  <1> QED BY <1>3, <1>4, <1>5

-----------------------------------------------------------------------------
StringAt(b, i, s) == At(b, i, AppendString(s))

LEMMA Uint16Read ==
  ASSUME NEW n \in 0..MaxUint16
  PROVE  /\ AppendUint16(n) \in Seq(Byte) /\ Len(AppendUint16(n)) = 2
         /\ \A b, i : i \in Nat /\ At(b, i, AppendUint16(n)) => Uint16(b, i) = n
  <1>0. n \in Nat /\ n < 256 * 256
    BY SMT DEF MaxUint16
  <1>1. PICK x \in Byte : x = (n \div 256) % 256
    BY <1>0 DEF Byte
  <1>2. PICK y \in Byte : y = n % 256
    BY <1>0 DEF Byte
  <1>3. AppendUint16(n) = <<x, y>>
    BY <1>1, <1>2, Zenon DEF AppendUint16
  <1>4. <<x, y>> \in Seq(Byte) /\ Len(<<x, y>>) = 2
    OBVIOUS
  <1>5. 256 * x + y = n
    BY <1>0, <1>1, <1>2
  <1>6. ASSUME NEW b, NEW i \in Nat, At(b, i, <<x, y>>) PROVE Uint16(b, i) = n
    <2>1. b[i + 1] = x /\ b[i + 2] = y
      BY <1>6 DEF At
    <2> QED BY <1>5, <2>1 DEF Uint16
  <1> QED BY <1>3, <1>4, <1>6, Zenon

LEMMA StringWritten ==
  ASSUME NEW s \in String
  PROVE  /\ AppendString(s) \in Seq(Byte) /\ Len(AppendString(s)) = 2 + Len(s) /\ Len(s) \in Nat
         /\ At(AppendString(s), 0, AppendUint16(Len(s))) /\ At(AppendString(s), 2, s)
         /\ s \in Seq(Byte) /\ Len(s) \in 0..MaxUint16
         /\ AppendUint16(Len(s)) \in Seq(Byte) /\ Len(AppendUint16(Len(s))) = 2
  <1>1. s \in Seq(Byte) /\ Len(s) \in 0..MaxUint16
    <2>1. s \in Seq(Byte) /\ Len(s) <= MaxUint16
      BY DEF String
    <2> QED BY <2>1
  <1>2. AppendUint16(Len(s)) \in Seq(Byte) /\ Len(AppendUint16(Len(s))) = 2
    BY <1>1, Uint16Read
  <1>3. Len(s) \in Nat
    BY <1>1
  <1> QED BY <1>1, <1>2, <1>3, Concat DEF AppendString

LEMMA StringRead ==
  ASSUME NEW b \in Seq(Byte), NEW i \in Nat, NEW s \in String, StringAt(b, i, s)
  PROVE  ReadString(b, i) = [ok |-> TRUE, value |-> s, next |-> i + Len(AppendString(s))]
  <1>1. PICK n \in 0..MaxUint16 : n = Len(s)
    BY StringWritten
  <1>2. s \in Seq(Byte) /\ n \in Nat
    BY <1>1, StringWritten
  <1>3. /\ AppendUint16(n) \in Seq(Byte) /\ Len(AppendUint16(n)) = 2
        /\ Len(AppendString(s)) = 2 + n /\ AppendString(s) \in Seq(Byte)
    BY <1>1, <1>2, StringWritten, Uint16Read
  <1>4. At(b, i, AppendUint16(n)) /\ At(b, i + 2, s)
    <2>1. i + 0 = i /\ 0 \in Nat /\ 2 \in Nat
      OBVIOUS
    <2>2. At(AppendString(s), 0, AppendUint16(n)) /\ At(AppendString(s), 2, s)
      BY <1>1, StringWritten
    <2>3. At(b, i + 0, AppendUint16(n))
      BY <1>3, <2>1, <2>2, AtTrans DEF StringAt
    <2> QED BY <1>2, <1>3, <2>1, <2>2, <2>3, AtTrans DEF StringAt
  <1>5. Uint16(b, i) = n
    BY <1>2, <1>4, Uint16Read
  <1>6. i + 2 + n <= Len(b) /\ Len(b) \in Nat /\ (i + 2) + n = i + 2 + n /\ (i + 2) + 1 = i + 3
    BY <1>1, <1>4 DEF At
  <1>7. SubSeq(b, i + 3, i + 2 + n) = s
    <2>1. i + 2 \in 0..Len(b)
      BY <1>6
    <2> QED BY <1>1, <1>2, <1>4, <1>6, <2>1, Sub
  <1>8. ~(i + 2 > Len(b)) /\ ~(i + 2 + n > Len(b)) /\ i + 2 + n = i + (2 + n)
    BY <1>6
  <1> QED BY <1>3, <1>5, <1>7, <1>8, Zenon DEF ReadString

Done(value, next) == [ok |-> TRUE, value |-> value, next |-> next]

LEMMA GivenWritten ==
  ASSUME NEW present \in BOOLEAN, NEW s \in String
  PROVE  /\ Given(present, s) \in Seq(Byte) /\ Len(Given(present, s)) \in Nat
         /\ Len(Given(present, s)) <= 2 + MaxUint16
  <1>0. MaxUint16 \in Nat
    BY DEF MaxUint16
  <1>1. CASE present
    <2>1. Given(present, s) = AppendString(s)
      BY <1>1, Zenon DEF Given
    <2> QED BY <1>0, <2>1, StringWritten
  <1>2. CASE ~present
    <2>1. Given(present, s) = <<>>
      BY <1>2 DEF Given
    <2> QED BY <1>0, <2>1
  <1> QED BY <1>1, <1>2

LEMMA ThenStringRead ==
  ASSUME NEW b \in Seq(Byte), NEW x, NEW i \in Nat, NEW present \in BOOLEAN, NEW s \in String,
         At(b, i, Given(present, s))
  PROVE  ThenString(b, Done(x, i), present) =
           Done(IF present THEN s ELSE <<>>, i + Len(Given(present, s)))
  <1>1. Done(x, i).ok /\ Done(x, i).next = i
    BY Zenon DEF Done
  <1>2. CASE present
    <2>1. ThenString(b, Done(x, i), present) = ReadString(b, i) /\ Given(present, s) = AppendString(s)
      BY <1>1, <1>2, Zenon DEF ThenString, Given
    <2>2. ReadString(b, i) = Done(s, i + Len(AppendString(s)))
      BY <2>1, StringRead DEF StringAt, Done
    <2> QED BY <1>2, <2>1, <2>2, Zenon
  <1>3. CASE ~present
    <2>1. ThenString(b, Done(x, i), present) = Done(<<>>, i) /\ Given(present, s) = <<>>
      BY <1>1, <1>3, Zenon DEF ThenString, Given, Done
    <2>2. i + Len(<<>>) = i
      OBVIOUS
    <2> QED BY <1>3, <2>1, <2>2, Zenon
  <1> QED BY <1>2, <1>3

(* The string s, if it is present, is in b between i and j.                *)
Holds(b, i, j, present, s) ==
  /\ present \in BOOLEAN /\ s \in String /\ i \in Nat
  /\ At(b, i, Given(present, s)) /\ j = i + Len(Given(present, s))

LEMMA HeldStringRead ==
  ASSUME NEW b \in Seq(Byte), NEW x, NEW i, NEW j, NEW present, NEW s, Holds(b, i, j, present, s)
  PROVE  ThenString(b, Done(x, i), present) = Done(IF present THEN s ELSE <<>>, j)
  BY ThenStringRead, Zenon DEF Holds

Join(r, q, p) == r \in Seq(Byte) /\ q \in Seq(Byte) /\ p \in Seq(Byte) /\ r = q \o p

LEMMA Joined ==
  ASSUME NEW q \in Seq(Byte), NEW p \in Seq(Byte)
  PROVE  Join(q \o p, q, p) /\ q \o p \in Seq(Byte)
  BY DEF Join

LEMMA PartAt ==
  ASSUME NEW b \in Seq(Byte), NEW q, NEW p, NEW r, Join(r, q, p), At(b, 0, r)
  PROVE  At(b, 0, q) /\ At(b, Len(q), p) /\ Len(r) = Len(q) + Len(p)
  <1>1. /\ q \in Seq(Byte) /\ p \in Seq(Byte) /\ r \in Seq(Byte) /\ r = q \o p
    BY DEF Join
  <1>2. /\ Len(r) = Len(q) + Len(p) /\ Len(q) \in Nat /\ Len(p) \in Nat
        /\ At(r, 0, q) /\ At(r, Len(q), p)
    BY <1>1, Concat
  <1>3. 0 \in Nat /\ 0 + 0 = 0 /\ 0 + Len(q) = Len(q)
    BY <1>2
  <1>4. At(b, 0 + 0, q) /\ At(b, 0 + Len(q), p)
    BY <1>1, <1>2, <1>3, AtTrans
  <1> QED BY <1>2, <1>3, <1>4, Zenon

(* Where the eight parts of a CONNECT are.                                 *)
Laid(b, p1, p2, p3, p4, p5, p6, p7, p8) ==
  /\ b \in Seq(Byte)
  /\ Len(b) = Len(p1) + Len(p2) + Len(p3) + Len(p4) + Len(p5) + Len(p6) + Len(p7) + Len(p8)
  /\ At(b, 0, p1)
  /\ At(b, Len(p1), p2)
  /\ At(b, Len(p1) + Len(p2), p3)
  /\ At(b, Len(p1) + Len(p2) + Len(p3), p4)
  /\ At(b, Len(p1) + Len(p2) + Len(p3) + Len(p4), p5)
  /\ At(b, Len(p1) + Len(p2) + Len(p3) + Len(p4) + Len(p5), p6)
  /\ At(b, Len(p1) + Len(p2) + Len(p3) + Len(p4) + Len(p5) + Len(p6), p7)
  /\ At(b, Len(p1) + Len(p2) + Len(p3) + Len(p4) + Len(p5) + Len(p6) + Len(p7), p8)

LEMMA PartsAt ==
  ASSUME NEW p1 \in Seq(Byte), NEW p2 \in Seq(Byte), NEW p3 \in Seq(Byte), NEW p4 \in Seq(Byte),
         NEW p5 \in Seq(Byte), NEW p6 \in Seq(Byte), NEW p7 \in Seq(Byte), NEW p8 \in Seq(Byte)
  PROVE  Laid(p1 \o p2 \o p3 \o p4 \o p5 \o p6 \o p7 \o p8, p1, p2, p3, p4, p5, p6, p7, p8)
  <1> DEFINE q2 == p1 \o p2
             q3 == q2 \o p3
             q4 == q3 \o p4
             q5 == q4 \o p5
             q6 == q5 \o p6
             q7 == q6 \o p7
             b == q7 \o p8
  <1>2. Join(q2, p1, p2) /\ q2 \in Seq(Byte)
    BY Joined
  <1> HIDE DEF q2
  <1>3. Join(q3, q2, p3) /\ q3 \in Seq(Byte)
    BY <1>2, Joined
  <1> HIDE DEF q3
  <1>4. Join(q4, q3, p4) /\ q4 \in Seq(Byte)
    BY <1>3, Joined
  <1> HIDE DEF q4
  <1>5. Join(q5, q4, p5) /\ q5 \in Seq(Byte)
    BY <1>4, Joined
  <1> HIDE DEF q5
  <1>6. Join(q6, q5, p6) /\ q6 \in Seq(Byte)
    BY <1>5, Joined
  <1> HIDE DEF q6
  <1>7. Join(q7, q6, p7) /\ q7 \in Seq(Byte)
    BY <1>6, Joined
  <1> HIDE DEF q7
  <1>8. Join(b, q7, p8) /\ b \in Seq(Byte)
    BY <1>7, Joined
  <1> HIDE DEF b
  <1>9. At(b, 0, b)
    BY <1>8 DEF At
  <1>17. At(b, 0, q7) /\ At(b, Len(q7), p8) /\ Len(b) = Len(q7) + Len(p8)
    BY <1>8, <1>9, PartAt
  <1>16. At(b, 0, q6) /\ At(b, Len(q6), p7) /\ Len(q7) = Len(q6) + Len(p7)
    BY <1>7, <1>8, <1>17, PartAt
  <1>15. At(b, 0, q5) /\ At(b, Len(q5), p6) /\ Len(q6) = Len(q5) + Len(p6)
    BY <1>6, <1>8, <1>16, PartAt
  <1>14. At(b, 0, q4) /\ At(b, Len(q4), p5) /\ Len(q5) = Len(q4) + Len(p5)
    BY <1>5, <1>8, <1>15, PartAt
  <1>13. At(b, 0, q3) /\ At(b, Len(q3), p4) /\ Len(q4) = Len(q3) + Len(p4)
    BY <1>4, <1>8, <1>14, PartAt
  <1>12. At(b, 0, q2) /\ At(b, Len(q2), p3) /\ Len(q3) = Len(q2) + Len(p3)
    BY <1>3, <1>8, <1>13, PartAt
  <1>11. At(b, 0, p1) /\ At(b, Len(p1), p2) /\ Len(q2) = Len(p1) + Len(p2)
    BY <1>2, <1>8, <1>12, PartAt
  <1>18. Laid(b, p1, p2, p3, p4, p5, p6, p7, p8)
    BY <1>8, <1>11, <1>12, <1>13, <1>14, <1>15, <1>16, <1>17 DEF Laid
  <1> QED BY <1>18, Zenon DEF b, q7, q6, q5, q4, q3, q2

LEMMA FlagsWritten ==
  ASSUME NEW o \in ConnectOptions
  PROVE  /\ ConnectFlags(o) \in Byte
         /\ Bit(ConnectFlags(o), 4) <=> o.willTopic # <<>>
         /\ Bit(ConnectFlags(o), 128) <=> o.username # <<>>
         /\ Bit(ConnectFlags(o), 64) <=> o.password # <<>>
  <1>1. o.willQoS % 4 \in 0..3
    BY DEF ConnectOptions, Byte
  <1>2. PICK a \in {0, 2} : a = IF o.cleanSession THEN 2 ELSE 0
    OBVIOUS
  <1>3. PICK w \in Int : w = IF o.willTopic # <<>> THEN 4 + 8 * (o.willQoS % 4) + (IF o.willRetain THEN 32 ELSE 0) ELSE 0
    BY <1>1
  <1>4. PICK q \in 0..3, r \in {0, 32} : IF o.willTopic # <<>> THEN w = 4 + 8 * q + r ELSE w = 0
    <2>1. PICK r \in {0, 32} : r = IF o.willRetain THEN 32 ELSE 0
      OBVIOUS
    <2> QED BY <1>1, <1>3, <2>1
  <1>5. PICK p \in {0, 64} : p = IF o.password # <<>> THEN 64 ELSE 0
    OBVIOUS
  <1>6. PICK u \in {0, 128} : u = IF o.username # <<>> THEN 128 ELSE 0
    OBVIOUS
  <1>7. PICK f \in Int : f = a + w + p + u /\ f = ConnectFlags(o)
    BY <1>2, <1>3, <1>5, <1>6 DEF ConnectFlags
  <1>8. f \in Byte
    BY <1>4, <1>7 DEF Byte
  <1>9. Bit(f, 4) <=> o.willTopic # <<>>
    BY <1>4, <1>7 DEF Bit
  <1>10. Bit(f, 128) <=> u = 128
    BY <1>4, <1>7 DEF Bit
  <1>11. Bit(f, 64) <=> p = 64
    BY <1>4, <1>7 DEF Bit
  <1> QED BY <1>5, <1>6, <1>7, <1>8, <1>9, <1>10, <1>11

LEMMA TwoBytes ==
  ASSUME NEW x \in Byte, NEW y \in Byte
  PROVE  <<x, y>> \in Seq(Byte) /\ Len(<<x, y>>) = 2 /\ <<x, y>>[1] = x /\ <<x, y>>[2] = y
  OBVIOUS

Small(s) == s \in Seq(Byte) /\ Len(s) \in Nat /\ Len(s) <= 2 + MaxUint16

LEMMA ConnectRead ==
  ASSUME NEW o \in ConnectOptions
  PROVE  /\ ConnectBody(o) \in Seq(Byte) /\ Len(ConnectBody(o)) <= 20 + 5 * MaxUint16
         /\ DecodeConnect(ConnectBody(o)) = [ok |-> TRUE, keepAlive |-> o.keepAlive, clientID |-> o.clientID,
                                             username |-> o.username, password |-> o.password]
  <1> DEFINE mqtt == <<77, 81, 84, 84>>
             will == o.willTopic # <<>>
             named == o.username # <<>>
             locked == o.password # <<>>
             p1 == AppendString(mqtt)
             p2 == <<4, ConnectFlags(o)>>
             p3 == AppendUint16(o.keepAlive)
             p4 == AppendString(o.clientID)
             p5 == Given(will, o.willTopic)
             p6 == Given(will, o.willPayload)
             p7 == Given(named, o.username)
             p8 == Given(locked, o.password)
             b == ConnectBody(o)
             l(p) == Len(p)
  <1>0. MaxUint16 \in Nat
    BY DEF MaxUint16
  <1>1. /\ o.willTopic \in String /\ o.willPayload \in String /\ o.clientID \in String
        /\ o.username \in String /\ o.password \in String /\ o.keepAlive \in 0..MaxUint16
    BY DEF ConnectOptions
  <1>2. mqtt \in String /\ Len(mqtt) = 4
    <2>1. mqtt \in Seq(Byte)
      BY DEF Byte
    <2>2. Len(mqtt) = 4 /\ 4 <= MaxUint16
      BY SMT DEF MaxUint16
    <2> QED BY <2>1, <2>2 DEF String
  <1>3. b = p1 \o p2 \o p3 \o p4 \o p5 \o p6 \o p7 \o p8
    BY Zenon DEF ConnectBody
  <1>4. will \in BOOLEAN /\ named \in BOOLEAN /\ locked \in BOOLEAN
    BY Zenon
  <1>5. ConnectFlags(o) \in Byte /\ 4 \in Byte
    BY FlagsWritten DEF Byte
  <1> HIDE DEF mqtt, will, named, locked
  <1>6. p1 \in Seq(Byte) /\ Len(p1) = 6
    <2>1. p1 \in Seq(Byte) /\ Len(p1) = 2 + 4
      BY <1>2, StringWritten
    <2> QED BY <2>1
  <1>7. p2 \in Seq(Byte) /\ Len(p2) = 2 /\ p2[2] = ConnectFlags(o)
    BY <1>5, TwoBytes
  <1>8. p3 \in Seq(Byte) /\ Len(p3) = 2
    BY <1>1, Uint16Read
  <1>9. Small(p4)
    <2>1. p4 \in Seq(Byte) /\ Len(p4) = 2 + Len(o.clientID) /\ Len(o.clientID) \in 0..MaxUint16
      BY <1>1, StringWritten
    <2> QED BY <1>0, <2>1 DEF Small
  <1>10. Small(p5) /\ Small(p6) /\ Small(p7) /\ Small(p8)
    BY <1>1, <1>4, GivenWritten DEF Small
  <1> HIDE DEF p1, p2, p3, p4, p5, p6, p7, p8, b
  <1>11. p4 \in Seq(Byte) /\ p5 \in Seq(Byte) /\ p6 \in Seq(Byte) /\ p7 \in Seq(Byte) /\ p8 \in Seq(Byte)
    BY <1>9, <1>10 DEF Small
  <1>12. Laid(p1 \o p2 \o p3 \o p4 \o p5 \o p6 \o p7 \o p8, p1, p2, p3, p4, p5, p6, p7, p8)
    BY <1>6, <1>7, <1>8, <1>11, PartsAt, Zenon
  <1>13. Laid(b, p1, p2, p3, p4, p5, p6, p7, p8)
    BY <1>3, <1>12, Zenon
  <1>14. PICK l4 \in Nat, l5 \in Nat, l6 \in Nat, l7 \in Nat, l8 \in Nat :
           l4 = Len(p4) /\ l5 = Len(p5) /\ l6 = Len(p6) /\ l7 = Len(p7) /\ l8 = Len(p8)
    BY <1>9, <1>10 DEF Small
  <1>15. /\ b \in Seq(Byte)
         /\ Len(b) = 10 + l4 + l5 + l6 + l7 + l8
         /\ At(b, 0, p1) /\ At(b, 6, p2) /\ At(b, 8, p3) /\ At(b, 10, p4) /\ At(b, 10 + l4, p5)
         /\ At(b, 10 + l4 + l5, p6) /\ At(b, 10 + l4 + l5 + l6, p7) /\ At(b, 10 + l4 + l5 + l6 + l7, p8)
    <2>1. Len(p1) = 6 /\ Len(p2) = 2 /\ Len(p3) = 2 /\ 6 + 2 = 8 /\ 8 + 2 = 10
      BY <1>6, <1>7, <1>8
    <2> QED BY <1>13, <1>14, <2>1, Zenon DEF Laid
  <1>16. Len(b) <= 20 + 5 * MaxUint16
    BY <1>0, <1>9, <1>10, <1>14, <1>15 DEF Small
  <1> DEFINE i5 == 10 + l4
             i6 == i5 + l5
             i7 == i6 + l6
             i8 == i7 + l7
  <1>17. i5 \in Nat /\ i6 \in Nat /\ i7 \in Nat /\ i8 \in Nat /\ 0 + 6 = 6 /\ 6 + 4 = 10 /\ 6 + 2 = 8
    OBVIOUS
  <1>18. At(b, i5, p5) /\ At(b, i6, p6) /\ At(b, i7, p7) /\ At(b, i8, p8)
    BY <1>15, Zenon
  <1>19. ReadString(b, 0) = Done(mqtt, 6)
    <2>1. StringAt(b, 0, mqtt) /\ 0 \in Nat
      BY <1>15 DEF StringAt, p1
    <2>2. ReadString(b, 0) = Done(mqtt, 0 + Len(p1))
      BY <1>2, <1>15, <2>1, StringRead DEF Done, p1
    <2> QED BY <1>6, <1>17, <2>2, Zenon
  <1>20. Done(mqtt, 6).ok /\ Done(mqtt, 6).next = 6 /\ 6 + 4 <= Len(b)
    <2>1. Done(mqtt, 6).ok /\ Done(mqtt, 6).next = 6
      BY Zenon DEF Done
    <2>2. 6 + 4 <= Len(b)
      BY <1>15
    <2> QED BY <2>1, <2>2
  <1>21. b[6 + 2] = ConnectFlags(o)
    <2>1. 2 \in 1..Len(p2)
      BY <1>7
    <2> QED BY <1>7, <1>15, <2>1 DEF At
  <1>22. Uint16(b, 6 + 2) = o.keepAlive
    <2>1. At(b, 8, AppendUint16(o.keepAlive)) /\ 8 \in Nat
      BY <1>15 DEF p3
    <2>2. Uint16(b, 8) = o.keepAlive
      BY <1>1, <2>1, Uint16Read
    <2> QED BY <2>2
  <1>23. ReadString(b, 6 + 4) = Done(o.clientID, i5)
    <2>1. StringAt(b, 10, o.clientID) /\ 10 \in Nat
      BY <1>15 DEF StringAt, p4
    <2>2. ReadString(b, 10) = Done(o.clientID, 10 + Len(p4))
      BY <1>1, <1>15, <2>1, StringRead DEF Done, p4
    <2> QED BY <1>14, <1>17, <2>2, Zenon DEF i5
  <1> HIDE DEF i5, i6, i7, i8
  <1>24. /\ Holds(b, i5, i6, will, o.willTopic) /\ Holds(b, i6, i7, will, o.willPayload)
         /\ Holds(b, i7, i8, named, o.username) /\ Holds(b, i8, i8 + l8, locked, o.password)
    <2>1. i6 = i5 + Len(p5) /\ i7 = i6 + Len(p6) /\ i8 = i7 + Len(p7) /\ i8 + l8 = i8 + Len(p8)
      BY <1>14, Zenon DEF i6, i7, i8
    <2> QED BY <1>1, <1>4, <1>17, <1>18, <2>1, Zenon DEF Holds, p5, p6, p7, p8
  <1>25. ThenString(b, Done(o.clientID, i5), will) = Done(IF will THEN o.willTopic ELSE <<>>, i6)
    BY <1>15, <1>24, HeldStringRead
  <1>26. ThenString(b, Done(IF will THEN o.willTopic ELSE <<>>, i6), will)
           = Done(IF will THEN o.willPayload ELSE <<>>, i7)
    BY <1>15, <1>24, HeldStringRead
  <1>27. ThenString(b, Done(IF will THEN o.willPayload ELSE <<>>, i7), named) = Done(o.username, i8)
    <2>1. (IF named THEN o.username ELSE <<>>) = o.username
      BY Zenon DEF named
    <2>2. ThenString(b, Done(IF will THEN o.willPayload ELSE <<>>, i7), named)
            = Done(IF named THEN o.username ELSE <<>>, i8)
      BY <1>15, <1>24, HeldStringRead
    <2> QED BY <2>1, <2>2, Zenon
  <1>30. ThenString(b, Done(o.username, i8), locked) = Done(o.password, i8 + l8)
    <2>1. (IF locked THEN o.password ELSE <<>>) = o.password
      BY Zenon DEF locked
    <2>2. ThenString(b, Done(o.username, i8), locked)
            = Done(IF locked THEN o.password ELSE <<>>, i8 + l8)
      BY <1>15, <1>24, HeldStringRead
    <2> QED BY <2>1, <2>2, Zenon
  <1>28. (Bit(ConnectFlags(o), 4) <=> will) /\ (Bit(ConnectFlags(o), 128) <=> named)
         /\ (Bit(ConnectFlags(o), 64) <=> locked)
    BY FlagsWritten, Zenon DEF will, named, locked
  <1>29. DecodeConnect(b) = [ok |-> TRUE, keepAlive |-> o.keepAlive, clientID |-> o.clientID,
                             username |-> o.username, password |-> o.password]
    <2> DEFINE name     == ReadString(b, 0)
               header   == name.ok /\ name.next + 4 <= Len(b)
               flags    == b[name.next + 2]
               clientID == IF header THEN ReadString(b, name.next + 4) ELSE Failed
               topic    == ThenString(b, clientID, header /\ Bit(flags, 4))
               message  == ThenString(b, topic, header /\ Bit(flags, 4))
               username == ThenString(b, message, header /\ Bit(flags, 128))
               password == ThenString(b, username, header /\ Bit(flags, 64))
    <2>1. DecodeConnect(b) =
            IF ~password.ok THEN Failed
            ELSE [ok |-> TRUE, keepAlive |-> Uint16(b, name.next + 2), clientID |-> clientID.value,
                  username |-> username.value, password |-> password.value]
      BY Zenon DEF DecodeConnect
    <2>2. name.next = 6 /\ header
      BY <1>19, <1>20, Zenon
    <2> HIDE DEF header, name
    <2>3. clientID = Done(o.clientID, i5)
      BY <1>23, <2>2, Zenon
    <2>4. flags = ConnectFlags(o)
      BY <1>21, <2>2, Zenon
    <2> HIDE DEF flags, clientID
    <2>5. /\ (header /\ Bit(flags, 4)) = will /\ (header /\ Bit(flags, 128)) = named
          /\ (header /\ Bit(flags, 64)) = locked
      BY <1>4, <1>28, <2>2, <2>4, Zenon
    <2>6. topic = Done(IF will THEN o.willTopic ELSE <<>>, i6)
      BY <1>25, <2>3, <2>5, Zenon
    <2> HIDE DEF topic
    <2>7. message = Done(IF will THEN o.willPayload ELSE <<>>, i7)
      BY <1>26, <2>5, <2>6, Zenon
    <2> HIDE DEF message
    <2>8. username = Done(o.username, i8)
      BY <1>27, <2>5, <2>7, Zenon
    <2> HIDE DEF username
    <2>9. password = Done(o.password, i8 + l8)
      BY <1>30, <2>5, <2>8, Zenon
    <2> HIDE DEF password
    <2>10. /\ password.ok /\ password.value = o.password /\ username.value = o.username
           /\ clientID.value = o.clientID
      BY <2>3, <2>8, <2>9, Zenon DEF Done
    <2> QED BY <1>22, <2>1, <2>2, <2>10, Zenon
  <1> QED BY <1>15, <1>16, <1>29 DEF b

-----------------------------------------------------------------------------
(* The identity: strings.Cut against the places of the separators.         *)

LEMMA FirstOnce ==
  ASSUME NEW S, NEW s \in Seq(S), NEW c, NEW m, NEW n, FirstAt(s, c, m), FirstAt(s, c, n)
  PROVE  m = n
  <1>1. /\ m \in 1..Len(s) /\ s[m] = c /\ \A i \in 1..(m - 1) : s[i] # c
        /\ n \in 1..Len(s) /\ s[n] = c /\ \A i \in 1..(n - 1) : s[i] # c
    BY DEF FirstAt
  <1> QED BY <1>1

LEMMA FirstExists ==
  ASSUME NEW S, NEW s \in Seq(S), NEW c, NEW k \in 1..Len(s), s[k] = c
  PROVE  \E n \in 1..k : FirstAt(s, c, n)
  <1> DEFINE Found(m) == \A i \in 1..Len(s) : i <= m /\ s[i] = c => \E n \in 1..i : FirstAt(s, c, n)
             M == {m \in Nat : Found(m)}
  <1>0. Len(s) \in Nat
    OBVIOUS
  <1>1. 0 \in M
    BY <1>0
  <1>2. ASSUME NEW m \in M PROVE m + 1 \in M
    <2>1. ASSUME NEW i \in 1..Len(s), i <= m + 1, s[i] = c PROVE \E n \in 1..i : FirstAt(s, c, n)
      <3>1. CASE \E j \in 1..(i - 1) : s[j] = c
        <4>1. PICK j \in 1..(i - 1) : s[j] = c
          BY <3>1
        <4>2. j \in 1..Len(s) /\ j <= m
          BY <2>1, <4>1, <1>0
        <4>3. \E n \in 1..j : FirstAt(s, c, n)
          BY <4>1, <4>2
        <4> QED BY <4>3, <1>0
      <3>2. CASE \A j \in 1..(i - 1) : s[j] # c
        <4>1. FirstAt(s, c, i)
          BY <2>1, <3>2 DEF FirstAt
        <4> QED BY <4>1, <1>0
      <3> QED BY <3>1, <3>2
    <2> QED BY <2>1
  <1> HIDE DEF Found
  <1>3. M = Nat
    <2>1. M \in SUBSET Nat
      OBVIOUS
    <2> HIDE DEF M
    <2> QED BY <1>1, <1>2, <2>1, Induction
  <1>4. Found(k)
    BY <1>3
  <1> QED BY <1>4, <1>0 DEF Found

CutAt(s, n) == [before |-> SubSeq(s, 1, n - 1), after |-> SubSeq(s, n + 1, Len(s)), found |-> TRUE]
NoCut(s) == [before |-> s, after |-> <<>>, found |-> FALSE]

LEMMA CutFound ==
  ASSUME NEW S, NEW s \in Seq(S), NEW c, NEW n, FirstAt(s, c, n)
  PROVE  Cut(s, c) = CutAt(s, n)
  <1> DEFINE I == {i \in 1..Len(s) : s[i] = c}
             i == SelectInSeq(s, LAMBDA b : b = c)
  <1>1. i = IF I # {} THEN Min(I) ELSE 0
    BY DEF SelectInSeq
  <1>2. n \in I /\ (\A j \in I : n <= j /\ j \in Int) /\ n \in Int /\ n # 0
    BY DEF FirstAt
  <1>3. Min(I) = n
    <2> HIDE DEF I
    <2>1. \E x \in I : \A y \in I : x <= y
      BY <1>2
    <2>2. Min(I) \in I /\ \A y \in I : Min(I) <= y
      BY <2>1, Zenon DEF Min
    <2>3. n <= Min(I) /\ Min(I) <= n /\ Min(I) \in Int
      BY <1>2, <2>2
    <2> QED BY <1>2, <2>3
  <1>4. i = n
    BY <1>1, <1>2, <1>3
  <1>5. Cut(s, c) = IF i = 0 THEN NoCut(s) ELSE CutAt(s, i)
    BY Zenon DEF Cut, NoCut, CutAt
  <1> HIDE DEF i
  <1> QED BY <1>2, <1>4, <1>5

LEMMA CutMissing ==
  ASSUME NEW S, NEW s \in Seq(S), NEW c, \A n \in 1..Len(s) : s[n] # c
  PROVE  Cut(s, c) = NoCut(s)
  <1> DEFINE I == {i \in 1..Len(s) : s[i] = c}
             i == SelectInSeq(s, LAMBDA b : b = c)
  <1>1. i = IF I # {} THEN Min(I) ELSE 0
    BY DEF SelectInSeq
  <1>2. i = 0
    BY <1>1
  <1>3. Cut(s, c) = IF i = 0 THEN NoCut(s) ELSE CutAt(s, i)
    BY Zenon DEF Cut, NoCut, CutAt
  <1> HIDE DEF i
  <1> QED BY <1>2, <1>3

(* Where c parts s in two that are not empty.                              *)
Halves(s, c) == {n \in 2..(Len(s) - 1) : FirstAt(s, c, n)}

WholeCut(parts) == parts.found /\ parts.before # <<>> /\ parts.after # <<>>

LEMMA HalvesRead ==
  ASSUME NEW S, NEW s \in Seq(S), NEW c
  PROVE  /\ WholeCut(Cut(s, c)) <=> Halves(s, c) # {}
         /\ \A n \in Halves(s, c) : Cut(s, c).before = SubSeq(s, 1, n - 1) /\ Cut(s, c).after = SubSeq(s, n + 1, Len(s))
  <1>0. Len(s) \in Nat
    OBVIOUS
  <1>1. CASE \E k \in 1..Len(s) : s[k] = c
    <2>1. PICK n \in 1..Len(s) : FirstAt(s, c, n)
      <3>1. PICK k \in 1..Len(s) : s[k] = c
        BY <1>1
      <3>2. \E n \in 1..k : FirstAt(s, c, n)
        BY <3>1, FirstExists
      <3> QED BY <3>2, <1>0
    <2>2. Cut(s, c) = CutAt(s, n)
      BY <2>1, CutFound
    <2>3. /\ CutAt(s, n).found /\ CutAt(s, n).before = SubSeq(s, 1, n - 1)
          /\ CutAt(s, n).after = SubSeq(s, n + 1, Len(s))
      BY Zenon DEF CutAt
    <2>4. /\ SubSeq(s, 1, n - 1) # <<>> <=> n >= 2
          /\ SubSeq(s, n + 1, Len(s)) # <<>> <=> n <= Len(s) - 1
      <3>1. Len(SubSeq(s, 1, n - 1)) = n - 1 /\ Len(SubSeq(s, n + 1, Len(s))) = Len(s) - n
        BY <1>0, <2>1
      <3>2. SubSeq(s, 1, n - 1) \in Seq(S) /\ SubSeq(s, n + 1, Len(s)) \in Seq(S)
        BY <1>0, <2>1
      <3>3. \A t \in Seq(S) : t # <<>> <=> Len(t) # 0
        OBVIOUS
      <3>4. /\ SubSeq(s, 1, n - 1) # <<>> <=> n - 1 # 0
            /\ SubSeq(s, n + 1, Len(s)) # <<>> <=> Len(s) - n # 0
        BY <3>1, <3>2, <3>3, Zenon
      <3>5. n - 1 # 0 <=> n >= 2
        OBVIOUS
      <3>6. Len(s) - n # 0 <=> n <= Len(s) - 1
        BY <1>0
      <3> QED BY <3>4, <3>5, <3>6, Zenon
    <2>5. \A m \in Halves(s, c) : m = n
      BY <2>1, FirstOnce DEF Halves
    <2>6. n \in Halves(s, c) <=> (n >= 2 /\ n <= Len(s) - 1)
      BY <1>0, <2>1 DEF Halves
    <2>7. WholeCut(Cut(s, c)) <=> (n >= 2 /\ n <= Len(s) - 1)
      BY <2>2, <2>3, <2>4, Zenon DEF WholeCut
    <2> QED BY <2>2, <2>3, <2>5, <2>6, <2>7, Zenon
  <1>2. CASE \A k \in 1..Len(s) : s[k] # c
    <2>1. ~WholeCut(Cut(s, c))
      BY <1>2, CutMissing DEF NoCut, WholeCut
    <2>2. Halves(s, c) = {}
      BY <1>0, <1>2 DEF Halves, FirstAt
    <2> QED BY <2>1, <2>2
  <1> QED BY <1>1, <1>2

LEMMA HeadRead ==
  ASSUME NEW S, NEW s \in Seq(S), NEW c \in S
  PROVE  \E e \in 1..(Len(s) + 1) : FirstAt(Append(s, c), c, e) /\ Cut(s, c).before = SubSeq(s, 1, e - 1)
  <1>0. /\ Len(s) \in Nat /\ Append(s, c) \in Seq(S) /\ Len(Append(s, c)) = Len(s) + 1
        /\ Append(s, c)[Len(s) + 1] = c /\ \A i \in 1..Len(s) : Append(s, c)[i] = s[i]
    OBVIOUS
  <1>1. CASE \E k \in 1..Len(s) : s[k] = c
    <2>1. PICK n \in 1..Len(s) : FirstAt(s, c, n)
      <3>1. PICK k \in 1..Len(s) : s[k] = c
        BY <1>1
      <3>2. \E n \in 1..k : FirstAt(s, c, n)
        BY <3>1, FirstExists
      <3> QED BY <3>2, <1>0
    <2>2. Cut(s, c).before = SubSeq(s, 1, n - 1)
      <3>1. Cut(s, c) = CutAt(s, n)
        BY <2>1, CutFound
      <3>2. CutAt(s, n).before = SubSeq(s, 1, n - 1)
        BY Zenon DEF CutAt
      <3> QED BY <3>1, <3>2, Zenon
    <2>3. FirstAt(Append(s, c), c, n)
      <3>1. /\ n \in 1..(Len(s) + 1) /\ \A m \in 1..(n - 1) : m \in 1..Len(s)
            /\ s[n] = c /\ \A m \in 1..(n - 1) : s[m] # c
        BY <1>0, <2>1 DEF FirstAt
      <3>2. n \in DOMAIN Append(s, c)
        BY <1>0, <3>1
      <3> QED BY <1>0, <3>1, <3>2, Zenon DEF FirstAt
    <2> QED BY <1>0, <2>2, <2>3
  <1>2. CASE \A k \in 1..Len(s) : s[k] # c
    <2>1. Cut(s, c).before = s
      BY <1>2, CutMissing DEF NoCut
    <2>2. SubSeq(s, 1, (Len(s) + 1) - 1) = s
      BY <1>0
    <2>3. FirstAt(Append(s, c), c, Len(s) + 1)
      BY <1>0, <1>2 DEF FirstAt
    <2> QED BY <1>0, <2>1, <2>2, <2>3
  <1> QED BY <1>1, <1>2

HeadOf(h, s, e, c) ==
  /\ h \in Seq(Byte) /\ Len(h) = e - 1
  /\ \A n \in 1..(e - 1) : FirstAt(h, c, n) <=> FirstAt(s, c, n)
  /\ \A n \in 1..(e - 1) : SubSeq(h, n + 1, Len(h)) = SubSeq(s, n + 1, e - 1)

LEMMA HeadKeeps ==
  ASSUME NEW s \in Seq(Byte), NEW e \in 1..(Len(s) + 1), NEW c
  PROVE  HeadOf(SubSeq(s, 1, e - 1), s, e, c)
  <1>0. PICK h : h = SubSeq(s, 1, e - 1)
    OBVIOUS
  <1>1. /\ h \in Seq(Byte) /\ Len(h) = e - 1 /\ Len(s) \in Nat /\ DOMAIN h = 1..(e - 1) /\ DOMAIN s = 1..Len(s)
        /\ \A i \in 1..(e - 1) : h[i] = s[i]
    BY <1>0
  <1>2. ASSUME NEW n \in 1..(e - 1) PROVE FirstAt(h, c, n) <=> FirstAt(s, c, n)
    <2>1. n \in DOMAIN h /\ n \in DOMAIN s
      BY <1>1
    <2>2. \A m \in 1..(n - 1) : m \in 1..(e - 1)
      BY <1>1
    <2>3. h[n] = s[n] /\ \A m \in 1..(n - 1) : h[m] = s[m]
      BY <1>1, <2>2
    <2> QED BY <2>1, <2>3, Zenon DEF FirstAt
  <1>3. ASSUME NEW n \in 1..(e - 1) PROVE SubSeq(h, n + 1, Len(h)) = SubSeq(s, n + 1, e - 1)
    <2>1. SubSeq(h, n + 1, e - 1) = [i \in 1..(e - 1 - n) |-> h[n + i]]
      BY <1>1
    <2>2. SubSeq(s, n + 1, e - 1) = [i \in 1..(e - 1 - n) |-> s[n + i]]
      BY <1>1
    <2>3. \A i \in 1..(e - 1 - n) : h[n + i] = s[n + i]
      BY <1>1
    <2> QED BY <1>1, <2>1, <2>2, <2>3
  <1> QED BY <1>0, <1>1, <1>2, <1>3, Zenon DEF HeadOf

LEMMA ClientIDRead ==
  ASSUME NEW o \in ConnectOptions, NEW head, head = Cut(o.clientID, 124).before
  PROVE  /\ WholeCut(Cut(head, 46)) <=> InClientID(o) # {}
         /\ \A p \in InClientID(o) : Cut(head, 46).after = SubSeq(o.clientID, p[1] + 1, p[2] - 1)
  <1> DEFINE s == o.clientID
  <1>1. s \in Seq(Byte) /\ Len(s) \in Nat /\ 124 \in Byte
    <2>1. s \in String
      BY DEF ConnectOptions
    <2>2. s \in Seq(Byte)
      BY <2>1, Zenon DEF String
    <2> QED BY <2>2 DEF Byte
  <1>2. InClientID(o) = {p \in (2..Len(s)) \X (1..(Len(s) + 1)) :
                           /\ FirstAt(s, 46, p[1]) /\ p[1] + 1 < p[2]
                           /\ FirstAt(Append(s, 124), 124, p[2])}
    BY Zenon DEF InClientID
  <1>3. head = Cut(s, 124).before
    OBVIOUS
  <1> HIDE DEF s
  <1>4. PICK e \in 1..(Len(s) + 1) : FirstAt(Append(s, 124), 124, e) /\ head = SubSeq(s, 1, e - 1)
    BY <1>1, <1>3, HeadRead
  <1>5. /\ head \in Seq(Byte) /\ Len(head) = e - 1
        /\ \A n \in 1..(e - 1) : FirstAt(head, 46, n) <=> FirstAt(s, 46, n)
        /\ \A n \in 1..(e - 1) : SubSeq(head, n + 1, Len(head)) = SubSeq(s, n + 1, e - 1)
    <2>1. HeadOf(head, s, e, 46)
      BY <1>1, <1>4, HeadKeeps
    <2> QED BY <2>1, Zenon DEF HeadOf
  <1>6. ASSUME NEW p \in InClientID(o) PROVE p[2] = e /\ p[1] \in Halves(head, 46) /\ p[1] \in 1..(e - 1)
    <2>1. PICK n \in 2..Len(s), f \in 1..(Len(s) + 1) : p = <<n, f>>
      BY <1>2, <1>6
    <2>2. p[1] = n /\ p[2] = f
      BY <2>1
    <2>3. FirstAt(s, 46, n) /\ n + 1 < f /\ FirstAt(Append(s, 124), 124, f)
      BY <1>2, <1>6, <2>2
    <2>4. f = e
      <3>1. Append(s, 124) \in Seq(Byte)
        BY <1>1
      <3> QED BY <1>4, <2>3, <3>1, FirstOnce
    <2>5. n \in 1..(e - 1) /\ n \in 2..(Len(head) - 1)
      BY <1>5, <2>3, <2>4
    <2>6. n \in Halves(head, 46)
      BY <1>5, <2>3, <2>5, Zenon DEF Halves
    <2> QED BY <2>2, <2>4, <2>5, <2>6
  <1>7. ASSUME NEW n \in Halves(head, 46) PROVE <<n, e>> \in InClientID(o)
    <2>1. n \in 2..(Len(head) - 1) /\ FirstAt(head, 46, n)
      BY Zenon DEF Halves
    <2>2. n \in 1..(e - 1) /\ n \in 2..Len(s) /\ n + 1 < e
      BY <1>1, <1>5, <2>1
    <2>3. FirstAt(s, 46, n)
      BY <1>5, <2>1, <2>2
    <2>4. <<n, e>> \in (2..Len(s)) \X (1..(Len(s) + 1)) /\ <<n, e>>[1] = n /\ <<n, e>>[2] = e
      BY <2>2
    <2> QED BY <1>2, <1>4, <2>2, <2>3, <2>4, Zenon
  <1>8. /\ WholeCut(Cut(head, 46)) <=> Halves(head, 46) # {}
        /\ \A n \in Halves(head, 46) : Cut(head, 46).after = SubSeq(head, n + 1, Len(head))
    BY <1>5, HalvesRead
  <1>9. Halves(head, 46) # {} <=> InClientID(o) # {}
    BY <1>6, <1>7, Zenon
  <1>10. ASSUME NEW p \in InClientID(o) PROVE Cut(head, 46).after = SubSeq(s, p[1] + 1, p[2] - 1)
    <2>1. Cut(head, 46).after = SubSeq(head, p[1] + 1, Len(head))
      BY <1>6, <1>8
    <2> QED BY <1>5, <1>6, <2>1, Zenon
  <1> QED BY <1>8, <1>9, <1>10 DEF s

LEMMA IdentityRead ==
  ASSUME NEW o \in ConnectOptions, NEW d, Presents(o, d),
         NEW x, x.username = o.username, x.clientID = o.clientID
  PROVE  IdentityFromConnect(x) = d
  <1> DEFINE user == Cut(o.username, 38)
             id == Cut(Cut(o.clientID, 124).before, 46)
             user_x == Cut(x.username, 38)
             id_x == Cut(Cut(x.clientID, 124).before, 46)
  <1>0. IdentityFromConnect(x) =
          IF WholeCut(user_x) THEN user_x.before ELSE IF WholeCut(id_x) THEN id_x.after ELSE Nil
    BY DEF IdentityFromConnect, WholeCut
  <1>9. user_x = user /\ id_x = id
    BY Zenon
  <1> HIDE DEF user_x, id_x
  <1>1. IdentityFromConnect(x) =
          IF WholeCut(user) THEN user.before ELSE IF WholeCut(id) THEN id.after ELSE Nil
    BY <1>0, <1>9
  <1>2. o.username \in Seq(Byte)
    <2>1. o.username \in String
      BY DEF ConnectOptions
    <2> QED BY <2>1, Zenon DEF String
  <1>3. InUsername(o) = Halves(o.username, 38)
    BY Zenon DEF InUsername, Halves
  <1>4. /\ WholeCut(user) <=> InUsername(o) # {}
        /\ \A n \in InUsername(o) : user.before = SubSeq(o.username, 1, n - 1)
    BY <1>2, <1>3, HalvesRead
  <1>5. /\ WholeCut(id) <=> InClientID(o) # {}
        /\ \A p \in InClientID(o) : id.after = SubSeq(o.clientID, p[1] + 1, p[2] - 1)
    BY ClientIDRead
  <1> HIDE DEF user, id
  <1>6. CASE InUsername(o) # {}
    <2>1. PICK n \in InUsername(o) : d = SubSeq(o.username, 1, n - 1)
      BY <1>6, Zenon DEF Presents
    <2>2. IdentityFromConnect(x) = user.before
      BY <1>1, <1>4, <1>6, Zenon
    <2> QED BY <1>4, <2>1, <2>2, Zenon
  <1>7. CASE InUsername(o) = {} /\ InClientID(o) # {}
    <2>1. PICK p \in InClientID(o) : d = SubSeq(o.clientID, p[1] + 1, p[2] - 1)
      BY <1>7, Zenon DEF Presents
    <2>2. IdentityFromConnect(x) = id.after
      BY <1>1, <1>4, <1>5, <1>7, Zenon
    <2> QED BY <1>5, <2>1, <2>2, Zenon
  <1>8. CASE InUsername(o) = {} /\ InClientID(o) = {}
    BY <1>1, <1>4, <1>5, <1>8, Zenon DEF Presents
  <1> QED BY <1>6, <1>7, <1>8

-----------------------------------------------------------------------------
(* What has come of a stream that begins with c.                           *)
Comes(b, c) ==
  /\ b \in Seq(Byte) /\ c \in Seq(Byte)
  /\ \A i \in 1..Len(b) : i <= Len(c) => b[i] = c[i]

LEMMA StreamCut ==
  ASSUME NEW c \in Seq(Byte), NEW s \in Seq(Byte), NEW k \in 0..Len(c \o s)
  PROVE  /\ Comes(SubSeq(c \o s, 1, k), c) /\ Len(SubSeq(c \o s, 1, k)) = k
         /\ k >= Len(c) => At(SubSeq(c \o s, 1, k), 0, c)
  <1>1. PICK t : t = c \o s
    OBVIOUS
  <1>2. t \in Seq(Byte) /\ Len(c) \in Nat /\ Len(t) \in Nat /\ Len(c) <= Len(t) /\ \A i \in 1..Len(c) : t[i] = c[i]
    BY <1>1
  <1>3. PICK b : b = SubSeq(t, 1, k)
    OBVIOUS
  <1>4. b \in Seq(Byte) /\ Len(b) = k /\ \A i \in 1..k : b[i] = t[i]
    BY <1>1, <1>2, <1>3
  <1>5. Comes(b, c)
    BY <1>2, <1>4 DEF Comes
  <1>6. k >= Len(c) => At(b, 0, c)
    BY <1>2, <1>4 DEF At
  <1> QED BY <1>1, <1>3, <1>4, <1>5, <1>6

LEMMA Opened ==
  ASSUME NEW b, NEW c, Comes(b, c), NEW h \in Byte, NEW n, Sayable(n),
         At(c, 0, <<h>> \o AppendVarint(n))
  PROVE  \E d \in 1..4 : /\ Digits(AppendVarint(n), d, n) /\ Len(AppendVarint(n)) = d
                         /\ Starts(b, h, AppendVarint(n), d)
  <1>1. PICK v : v = AppendVarint(n)
    OBVIOUS
  <1>2. v \in Seq(Byte) /\ Varint(v, n)
    BY <1>1, VarintAppended
  <1>3. PICK d \in 1..4 : Digits(v, d, n)
    BY <1>2, Zenon DEF Varint
  <1>4. Len(v) = d
    <2>1. v \in [1..d -> Byte]
      BY <1>3, SMT DEF Digits, Ends
    <2> QED BY <1>2, <2>1
  <1>5. PICK o : o = <<h>> \o v
    OBVIOUS
  <1>6. Len(o) = 1 + d /\ o[1] = h /\ \A i \in 1..d : o[i + 1] = v[i]
    BY <1>2, <1>4, <1>5
  <1>7. 1 + d <= Len(c) /\ \A j \in 1..(1 + d) : c[j] = o[j]
    <2>1. At(c, 0, o)
      BY <1>1, <1>5
    <2>2. 0 + (1 + d) <= Len(c) /\ \A j \in 1..(1 + d) : c[0 + j] = o[j]
      BY <1>6, <2>1, Zenon DEF At
    <2> QED BY <2>2
  <1>8. b \in Seq(Byte) /\ c \in Seq(Byte) /\ \A i \in 1..Len(b) : i <= Len(c) => b[i] = c[i]
    BY Zenon DEF Comes
  <1>9. Len(b) \in Nat /\ Len(c) \in Nat
    BY <1>8
  <1>10. 1 <= Len(b) => b[1] = h
    <2>1. c[1] = h
      BY <1>6, <1>7
    <2> QED BY <1>7, <1>8, <1>9, <2>1
  <1>11. ASSUME NEW i \in 1..d, i + 1 <= Len(b) PROVE b[i + 1] = v[i]
    <2>1. i + 1 \in 1..Len(b) /\ i + 1 <= Len(c) /\ i + 1 \in 1..(1 + d)
      BY <1>7, <1>9, <1>11
    <2> QED BY <1>6, <1>7, <1>8, <2>1
  <1>12. Starts(b, h, v, d)
    BY <1>8, <1>10, <1>11 DEF Starts
  <1> QED BY <1>1, <1>3, <1>4, <1>12

(* The digits of any number, of those that are too large for them as well. *)
LEMMA VarintLength ==
  ASSUME NEW n \in Nat
  PROVE  AppendVarint(n) \in Seq(Int) /\ Len(AppendVarint(n)) \in 1..5
  <1> DEFINE Fits(k) == (k = 5 \/ n < Weight[k + 1]) /\ (k = 1 \/ n >= Weight[k])
             digit(k) == [i \in 1..k |-> ((n \div Weight[i]) % 128) + IF i < k THEN 128 ELSE 0]
             k == CHOOSE k \in 1..5 : Fits(k)
  <1>1. AppendVarint(n) = digit(k)
    BY DEF AppendVarint
  <1>2. Weight[1] = 1 /\ Weight[2] = 128 /\ Weight[3] = 16384 /\ Weight[4] = 2097152 /\ Weight[5] = 268435456
    BY DEF Weight
  <1>3. Fits(1) \/ Fits(2) \/ Fits(3) \/ Fits(4) \/ Fits(5)
    BY <1>2, SMT
  <1>4. k \in 1..5
    <2> HIDE DEF Fits
    <2> QED BY <1>3
  <1> HIDE DEF k
  <1>5. \A i \in 1..5 : Weight[i] \in Nat \ {0}
    BY <1>2, SMT
  <1>6. digit(k) \in [1..k -> Int]
    BY <1>4, <1>5
  <1> HIDE DEF digit
  <1>7. PICK j \in 1..5 : j = k
    BY <1>4
  <1>8. PICK v : v = AppendVarint(n)
    OBVIOUS
  <1>9. v \in [1..j -> Int]
    BY <1>1, <1>6, <1>7, <1>8, Zenon
  <1>10. v \in Seq(Int) /\ Len(v) = j
    BY <1>9
  <1> QED BY <1>7, <1>8, <1>10

(* The encoding e of a packet that ReadPacket accepts.                     *)
IsPacket(e, type, flags, p) ==
  /\ type \in 0..15 /\ flags \in 0..15 /\ p \in Seq(Byte)
  /\ Sayable(Len(p)) /\ Len(p) <= MaxPacketSize
  /\ e = Encode(type, flags, p)

LEMMA ShortIsPacket ==
  ASSUME NEW type \in 0..15, NEW flags \in 0..15, NEW p \in Seq(Byte), Len(p) <= MaxPacketSize
  PROVE  IsPacket(Encode(type, flags, p), type, flags, p)
  <1>1. Len(p) \in Nat
    OBVIOUS
  <1>2. Sayable(Len(p))
    BY <1>1, SMT DEF Sayable, MaxPacketSize
  <1> QED BY <1>2, Zenon DEF IsPacket

(* What is not too long as a whole has no part that is too long.           *)
LEMMA EncodedIsPacket ==
  ASSUME NEW type \in 0..15, NEW flags \in 0..15, NEW p \in Seq(Byte),
         Len(Encode(type, flags, p)) <= MaxPacketSize
  PROVE  IsPacket(Encode(type, flags, p), type, flags, p)
  <1>1. PICK v : v = AppendVarint(Len(p))
    OBVIOUS
  <1>2. Len(p) \in Nat /\ p \in Seq(Int)
    <2>1. Byte \subseteq Int
      BY DEF Byte
    <2>2. Len(p) \in Nat /\ p \in [1..Len(p) -> Byte]
      OBVIOUS
    <2>3. p \in [1..Len(p) -> Int]
      BY <2>1, <2>2
    <2> QED BY <2>2, <2>3
  <1>3. v \in Seq(Int) /\ Len(v) \in 1..5
    BY <1>1, <1>2, VarintLength
  <1>4. Encode(type, flags, p) = <<16 * type + flags>> \o v \o p
    BY <1>1, Zenon DEF Encode
  <1>5. Len(Encode(type, flags, p)) = 1 + Len(v) + Len(p)
    <2>1. <<16 * type + flags>> \in Seq(Int) /\ Len(<<16 * type + flags>>) = 1
      OBVIOUS
    <2>2. <<16 * type + flags>> \o v \in Seq(Int) /\ Len(<<16 * type + flags>> \o v) = 1 + Len(v)
      BY <1>3, <2>1, Concat
    <2> QED BY <1>2, <1>4, <2>2, Concat
  <1>6. MaxPacketSize \in Nat
    BY SMT DEF MaxPacketSize
  <1>7. Len(p) <= MaxPacketSize
    BY <1>2, <1>3, <1>5, <1>6
  <1> QED BY <1>7, ShortIsPacket

(* What is left of a cut stream behind c is what came of s.                *)
LEMMA CutRest ==
  ASSUME NEW c \in Seq(Byte), NEW s \in Seq(Byte), NEW k \in 0..Len(c \o s), k >= Len(c)
  PROVE  SubSeq(SubSeq(c \o s, 1, k), Len(c) + 1, k) = SubSeq(s, 1, k - Len(c))
  <1>1. PICK t : t = c \o s
    OBVIOUS
  <1>2. PICK m \in Nat : m = Len(c)
    OBVIOUS
  <1>3. t \in Seq(Byte) /\ Len(t) = m + Len(s) /\ Len(s) \in Nat /\ \A i \in 1..Len(s) : t[m + i] = s[i]
    BY <1>1, <1>2
  <1>4. PICK b : b = SubSeq(t, 1, k)
    OBVIOUS
  <1>5. b \in Seq(Byte) /\ Len(b) = k /\ k \in Nat /\ k >= m /\ k - m <= Len(s) /\ \A i \in 1..k : b[i] = t[i]
    BY <1>1, <1>2, <1>3, <1>4
  <1>6. SubSeq(b, m + 1, k) = [i \in 1..(k - m) |-> b[m + i]]
    BY <1>5
  <1>7. SubSeq(s, 1, k - m) = [i \in 1..(k - m) |-> s[i]]
    BY <1>3, <1>5
  <1>8. \A i \in 1..(k - m) : b[m + i] = s[i]
    <2>1. ASSUME NEW i \in 1..(k - m) PROVE b[m + i] = s[i]
      <3>1. m + i \in 1..k /\ i \in 1..Len(s)
        BY <1>3, <1>5
      <3> QED BY <1>3, <1>5, <3>1
    <2> QED BY <2>1
  <1>9. SubSeq(b, m + 1, k) = SubSeq(s, 1, k - m)
    BY <1>6, <1>7, <1>8, Zenon
  <1> QED BY <1>1, <1>2, <1>4, <1>9

(* A packet is read if the whole of it came, as what was encoded, and what *)
(* came behind it is left.                                                 *)
LEMMA PacketArrives ==
  ASSUME NEW e, NEW type, NEW flags, NEW p, IsPacket(e, type, flags, p),
         NEW t \in Seq(Byte), NEW k \in 0..Len(e \o t)
  PROVE  /\ e \in Seq(Byte) /\ Len(e) >= 2
         /\ k < Len(e) => ReadPacket(SubSeq(e \o t, 1, k)) = Failed
         /\ k >= Len(e) => ReadPacket(SubSeq(e \o t, 1, k)) = Read(type, flags, p, SubSeq(t, 1, k - Len(e)))
  <1>0. /\ type \in 0..15 /\ flags \in 0..15 /\ p \in Seq(Byte)
        /\ Sayable(Len(p)) /\ Len(p) <= MaxPacketSize /\ e = Encode(type, flags, p)
    BY Zenon DEF IsPacket
  <1>1. PICK n \in Nat : n = Len(p)
    BY <1>0
  <1>2. PICK v : v = AppendVarint(n)
    OBVIOUS
  <1>3. PICK h \in Byte : h = 16 * type + flags /\ h \div 16 = type /\ h % 16 = flags
    BY <1>0 DEF Byte
  <1>4. e = (<<h>> \o v) \o p
    BY <1>0, <1>1, <1>2, <1>3, Zenon DEF Encode
  <1>5. v \in Seq(Byte) /\ Sayable(n) /\ n <= MaxPacketSize
    BY <1>0, <1>1, <1>2, VarintAppended
  <1>6. PICK q : q = <<h>> \o v
    OBVIOUS
  <1>7. q \in Seq(Byte) /\ Len(q) = 1 + Len(v)
    <2>1. <<h>> \in Seq(Byte) /\ Len(<<h>>) = 1
      OBVIOUS
    <2> QED BY <1>5, <1>6, <2>1, Concat
  <1>8. e \in Seq(Byte) /\ Len(e) = Len(q) + n /\ At(e, 0, q) /\ At(e, Len(q), p)
    <2>1. e = q \o p /\ q \in Seq(Byte) /\ p \in Seq(Byte)
      BY <1>0, <1>4, <1>6, <1>7
    <2>2. e \in Seq(Byte) /\ Len(e) = Len(q) + Len(p) /\ At(e, 0, q) /\ At(e, Len(q), p)
      BY <2>1, Concat
    <2> QED BY <1>1, <2>2
  <1>9. PICK b : b = SubSeq(e \o t, 1, k)
    OBVIOUS
  <1>10. /\ Comes(b, e) /\ Len(b) = k
         /\ k >= Len(e) => At(b, 0, e)
         /\ k >= Len(e) => SubSeq(b, Len(e) + 1, k) = SubSeq(t, 1, k - Len(e))
    BY <1>8, <1>9, StreamCut, CutRest
  <1>11. PICK d \in 1..4 : Digits(v, d, n) /\ Len(v) = d /\ Starts(b, h, v, d)
    <2>1. At(e, 0, <<h>> \o AppendVarint(n))
      BY <1>2, <1>6, <1>8
    <2> QED BY <1>2, <1>5, <1>10, <2>1, Opened
  <1>12. Len(e) = d + 1 + n /\ Len(q) = d + 1 /\ Len(e) \in Nat /\ k \in Nat
    <2>1. k \in Nat
      BY <1>10 DEF Comes
    <2> QED BY <1>7, <1>8, <1>11, <2>1
  <1>13. ReadPacket(b) = IF Whole(b, d, n)
                         THEN Read(type, flags, SubSeq(b, d + 2, d + 1 + n), SubSeq(b, d + 2 + n, Len(b)))
                         ELSE Failed
    BY <1>3, <1>11, PacketRead
  <1>14. ASSUME k < Len(e) PROVE ReadPacket(b) = Failed
    <2>1. ~Whole(b, d, n)
      BY <1>10, <1>12, <1>14 DEF Whole
    <2> QED BY <1>13, <2>1, Zenon
  <1>15. ASSUME k >= Len(e) PROVE ReadPacket(b) = Read(type, flags, p, SubSeq(t, 1, k - Len(e)))
    <2>1. Whole(b, d, n)
      BY <1>5, <1>10, <1>12, <1>15 DEF Whole
    <2>2. SubSeq(b, d + 2, d + 1 + n) = p
      <3>1. At(b, 0, e) /\ b \in Seq(Byte)
        BY <1>10, <1>15 DEF Comes
      <3>2. At(b, 0 + (d + 1), p)
        BY <1>0, <1>8, <1>12, <3>1, AtTrans
      <3>3. 0 + (d + 1) = d + 1 /\ (d + 1) + 1 = d + 2 /\ d + 1 \in 0..Len(b)
        BY <1>10, <1>12, <1>15
      <3>4. SubSeq(b, (d + 1) + 1, (d + 1) + Len(p)) = p
        BY <1>0, <3>1, <3>2, <3>3, Sub
      <3> QED BY <1>1, <3>3, <3>4
    <2>3. SubSeq(b, d + 2 + n, Len(b)) = SubSeq(t, 1, k - Len(e))
      <3>1. Len(e) + 1 = d + 2 + n
        BY <1>12
      <3> QED BY <1>10, <1>15, <3>1
    <2> QED BY <1>13, <2>1, <2>2, <2>3, Zenon
  <1>16. Len(e) >= 2
    BY <1>12
  <1> QED BY <1>8, <1>9, <1>14, <1>15, <1>16

-----------------------------------------------------------------------------
(* Parts put together, and FlattenSeq of them.                             *)

LEMMA Joining ==
  ASSUME NEW S, NEW q \in Seq(S), NEW r \in Seq(S), NEW s \in Seq(S)
  PROVE  /\ (q \o r) \o s = q \o (r \o s)
         /\ <<>> \o s = s /\ s \o <<>> = s /\ <<>> \in Seq(S)
  OBVIOUS

(* What came, g, and what is left, u, are the whole after i parts.         *)
Complete(g, u, i) == g[i] \o u[i] = u[0]

(* The parts f[1..n] put together, one after the other, are g, and u are   *)
(* what is left of the whole.                                              *)
Together(S, n, f, g, u) ==
  /\ f \in [1..n -> Seq(S)] /\ g \in [0..n -> Seq(S)] /\ u \in [0..n -> Seq(S)]
  /\ g[0] = <<>> /\ u[n] = <<>>
  /\ \A i \in 1..n : g[i] = g[i - 1] \o f[i] /\ u[i - 1] = f[i] \o u[i]
  /\ \A i \in 0..n : Complete(g, u, i)

(* Parts can be put together from the left and taken off from the left.    *)
LEMMA PartsTogether ==
  ASSUME NEW S, NEW n \in Nat, NEW f \in [1..n -> Seq(S)]
  PROVE  \E g, u : Together(S, n, f, g, u)
  <1> DEFINE A == Seq(S)
             onward == [i \in 1..n |-> [x \in A |-> x \o f[i]]]
             back == [i \in 1..n |-> [x \in A |-> f[n - i + 1] \o x]]
  <1>1. <<>> \in A /\ \A x, y \in A : x \o y \in A
    OBVIOUS
  <1>2. onward \in [1..n -> [A -> A]] /\ back \in [1..n -> [A -> A]]
    <2>1. \A i \in 1..n : n - i + 1 \in 1..n
      OBVIOUS
    <2>2. f \in [1..n -> A]
      OBVIOUS
    <2> HIDE DEF A
    <2> QED BY <1>1, <2>1, <2>2
  <1> HIDE DEF onward, back
  <1>3. PICK g : Iterates(g, A, n, <<>>, onward)
    BY <1>1, <1>2, Iteration
  <1>4. PICK v : Iterates(v, A, n, <<>>, back)
    BY <1>1, <1>2, Iteration
  <1>5. g \in [0..n -> A] /\ g[0] = <<>> /\ \A i \in 1..n : g[i] = g[i - 1] \o f[i]
    <2>1. g \in [0..n -> A] /\ g[0] = <<>> /\ \A i \in 1..n : g[i] = onward[i][g[i - 1]]
      BY <1>3 DEF Iterates
    <2>2. \A i \in 1..n : g[i - 1] \in A
      BY <2>1
    <2> HIDE DEF A
    <2> QED BY <2>1, <2>2 DEF onward
  <1>6. v \in [0..n -> A] /\ v[0] = <<>> /\ \A i \in 1..n : v[i] = f[n - i + 1] \o v[i - 1]
    <2>1. v \in [0..n -> A] /\ v[0] = <<>> /\ \A i \in 1..n : v[i] = back[i][v[i - 1]]
      BY <1>4 DEF Iterates
    <2>2. \A i \in 1..n : v[i - 1] \in A
      BY <2>1
    <2> HIDE DEF A
    <2> QED BY <2>1, <2>2 DEF back
  <1>7. PICK u : u = [i \in 0..n |-> v[n - i]]
    OBVIOUS
  <1>8. u \in [0..n -> A] /\ u[n] = <<>>
    <2> HIDE DEF A
    <2> QED BY <1>6, <1>7
  <1>9. ASSUME NEW i \in 1..n PROVE u[i - 1] = f[i] \o u[i]
    <2>1. n - (i - 1) \in 1..n /\ n - (n - (i - 1)) + 1 = i /\ (n - (i - 1)) - 1 = n - i /\ i - 1 \in 0..n /\ i \in 0..n
      OBVIOUS
    <2>2. v[n - (i - 1)] = f[i] \o v[n - i]
      BY <1>6, <2>1
    <2>3. u[i - 1] = v[n - (i - 1)] /\ u[i] = v[n - i]
      BY <1>7, <2>1
    <2> QED BY <2>2, <2>3
  <1> DEFINE T == {i \in Nat : i <= n => Complete(g, u, i)}
  <1>10. 0 \in T
    <2>1. u[0] \in Seq(S)
      BY <1>8
    <2>2. Complete(g, u, 0)
      BY <1>5, <2>1, Joining, Zenon DEF Complete
    <2> QED BY <2>2
  <1>11. ASSUME NEW i \in T PROVE i + 1 \in T
    <2>1. ASSUME i + 1 <= n PROVE Complete(g, u, i + 1)
      <3>1. i + 1 \in 1..n /\ i \in 0..n /\ i + 1 \in 0..n /\ (i + 1) - 1 = i
        BY <2>1
      <3>2. g[i + 1] = g[i] \o f[i + 1] /\ u[i] = f[i + 1] \o u[i + 1]
        BY <1>5, <1>9, <3>1
      <3>3. PICK x \in Seq(S), y \in Seq(S), z \in Seq(S) : x = g[i] /\ y = f[i + 1] /\ z = u[i + 1]
        BY <1>5, <1>8, <3>1
      <3>4. (x \o y) \o z = x \o (y \o z)
        BY Joining
      <3>5. Complete(g, u, i)
        BY <3>1
      <3> QED BY <3>2, <3>3, <3>4, <3>5, Zenon DEF Complete
    <2> QED BY <2>1
  <1>12. T = Nat
    <2>1. T \in SUBSET Nat
      OBVIOUS
    <2> HIDE DEF T
    <2> QED BY <1>10, <1>11, <2>1, Induction
  <1>13. \A i \in 0..n : Complete(g, u, i)
    BY <1>12
  <1>14. Together(S, n, f, g, u)
    BY <1>5, <1>8, <1>9, <1>13, Zenon DEF Together
  <1> QED BY <1>14

(* The first m parts, flattened.                                           *)
First(f, m) == [i \in 1..m |-> f[i]]

LEMMA Flattened ==
  ASSUME NEW S, NEW n \in Nat, NEW f, NEW g, NEW u, Together(S, n, f, g, u), NEW m \in 0..n
  PROVE  FlattenSeq(First(f, m)) = g[m]
  <1> DEFINE e == [i \in 1..m |-> f[i]]
             flatten == CHOOSE h : h = [i \in 1..m |-> IF i = 1 THEN e[i] ELSE h[i - 1] \o e[i]]
  <1>1. /\ f \in [1..n -> Seq(S)] /\ g \in [0..n -> Seq(S)] /\ g[0] = <<>>
        /\ \A i \in 1..n : g[i] = g[i - 1] \o f[i]
    BY Zenon DEF Together
  <1>2. e \in [1..m -> Seq(S)] /\ \A i \in 1..m : e[i] = f[i]
    BY <1>1
  <1>3. Len(e) = m
    BY <1>2
  <1> HIDE DEF e
  <1>4. CASE m = 0
    <2>1. FlattenSeq(e) = e
      BY <1>3, <1>4, Zenon DEF FlattenSeq
    <2>2. e = <<>>
      BY <1>2, <1>4
    <2> QED BY <1>1, <1>4, <2>1, <2>2 DEF e, First
  <1>5. CASE m # 0
    <2>1. FlattenSeq(e) = flatten[m]
      BY <1>3, <1>5, Zenon DEF FlattenSeq
    <2>2. \A i \in 1..m : g[i] = IF i = 1 THEN e[i] ELSE g[i - 1] \o e[i]
      <3>1. ASSUME NEW i \in 1..m PROVE g[i] = IF i = 1 THEN e[i] ELSE g[i - 1] \o e[i]
        <4>0. i \in 1..n
          OBVIOUS
        <4>1. g[i] = g[i - 1] \o e[i] /\ e[i] \in Seq(S)
          <5>1. e[i] \in Seq(S)
            BY <1>2
          <5> QED BY <1>1, <1>2, <4>0, <5>1, Zenon
        <4>2. CASE i = 1
          <5>1. g[i - 1] = <<>>
            BY <1>1, <4>2
          <5> QED BY <4>1, <4>2, <5>1
        <4>3. CASE i # 1
          BY <4>1, <4>3
        <4> QED BY <4>2, <4>3
      <3> QED BY <3>1
    <2>3. PICK h : h = [i \in 1..m |-> g[i]]
      OBVIOUS
    <2>4. h = [i \in 1..m |-> IF i = 1 THEN e[i] ELSE h[i - 1] \o e[i]]
      <3>1. ASSUME NEW i \in 1..m PROVE h[i] = IF i = 1 THEN e[i] ELSE h[i - 1] \o e[i]
        <4>1. h[i] = g[i] /\ (i # 1 => h[i - 1] = g[i - 1])
          BY <2>3
        <4> QED BY <2>2, <4>1, Zenon
      <3>2. h = [i \in 1..m |-> h[i]]
        BY <2>3
      <3> QED BY <3>1, <3>2, Zenon
    <2>5. flatten = [i \in 1..m |-> IF i = 1 THEN e[i] ELSE flatten[i - 1] \o e[i]]
      BY <2>4, Zenon
    <2> HIDE DEF flatten
    <2>6. \A i \in 1..m : flatten[i] = IF i = 1 THEN e[i] ELSE flatten[i - 1] \o e[i]
      BY <2>5, Zenon
    <2> DEFINE T == {k \in Nat : k \in 1..m => flatten[k] = g[k]}
    <2>7. 0 \in T
      OBVIOUS
    <2>8. ASSUME NEW k \in T PROVE k + 1 \in T
      <3>1. ASSUME k + 1 \in 1..m PROVE flatten[k + 1] = g[k + 1]
        <4>1. (k + 1) - 1 = k
          OBVIOUS
        <4>2. k # 0 => flatten[k] = g[k]
          BY <3>1
        <4>3. k + 1 = 1 <=> k = 0
          OBVIOUS
        <4>4. flatten[k + 1] = IF k + 1 = 1 THEN e[k + 1] ELSE flatten[k] \o e[k + 1]
          BY <2>6, <3>1, <4>1, Zenon
        <4>5. g[k + 1] = IF k + 1 = 1 THEN e[k + 1] ELSE g[k] \o e[k + 1]
          BY <2>2, <3>1, <4>1, Zenon
        <4> QED BY <4>2, <4>3, <4>4, <4>5, Zenon
      <3> QED BY <3>1
    <2>9. T = Nat
      <3>1. T \in SUBSET Nat
        OBVIOUS
      <3> HIDE DEF T
      <3> QED BY <2>7, <2>8, <3>1, Induction
    <2>10. m \in T /\ m \in 1..m
      BY <1>5, <2>9
    <2>11. flatten[m] = g[m]
      BY <2>10
    <2> QED BY <2>1, <2>11 DEF e, First
  <1> QED BY <1>4, <1>5

(* The parts are no shorter than two.                                      *)
Lengths(n, f, g, u) ==
  /\ \A i \in 0..n : Len(g[i]) \in Nat /\ Len(u[i]) \in Nat /\ 2 * i <= Len(g[i])
                     /\ Len(g[i]) + Len(u[i]) = Len(u[0])
  /\ \A i \in 1..n : Len(g[i]) = Len(g[i - 1]) + Len(f[i])
  /\ \A i, j \in 0..n : i <= j => Len(g[i]) <= Len(g[j])

LEMMA PartsLong ==
  ASSUME NEW S, NEW n \in Nat, NEW f, NEW g, NEW u, Together(S, n, f, g, u),
         \A i \in 1..n : Len(f[i]) >= 2
  PROVE  Lengths(n, f, g, u)
  <1>0. f \in [1..n -> Seq(S)] /\ g \in [0..n -> Seq(S)] /\ u \in [0..n -> Seq(S)] /\ g[0] = <<>>
    BY Zenon DEF Together
  <1>1. /\ \A i \in 1..n : g[i] = g[i - 1] \o f[i]
        /\ \A i \in 0..n : g[i] \o u[i] = u[0]
    BY Zenon DEF Together, Complete
  <1>2. PICK lf : lf = [i \in 1..n |-> Len(f[i])]
    OBVIOUS
  <1>3. PICK lg : lg = [i \in 0..n |-> Len(g[i])]
    OBVIOUS
  <1>4. PICK lu : lu = [i \in 0..n |-> Len(u[i])]
    OBVIOUS
  <1>5. \A i \in 1..n : lf[i] = Len(f[i]) /\ lf[i] \in Nat /\ lf[i] >= 2
    <2>1. \A x \in Seq(S) : Len(x) \in Nat
      OBVIOUS
    <2>2. \A i \in 1..n : f[i] \in Seq(S) /\ lf[i] = Len(f[i])
      BY <1>0, <1>2, Zenon
    <2> QED BY <2>1, <2>2, Zenon
  <1>6. \A i \in 0..n : lg[i] = Len(g[i]) /\ lg[i] \in Nat /\ lu[i] = Len(u[i]) /\ lu[i] \in Nat
    <2>1. \A x \in Seq(S) : Len(x) \in Nat
      OBVIOUS
    <2>2. \A i \in 0..n : g[i] \in Seq(S) /\ u[i] \in Seq(S) /\ lg[i] = Len(g[i]) /\ lu[i] = Len(u[i])
      BY <1>0, <1>3, <1>4, Zenon
    <2> QED BY <2>1, <2>2, Zenon
  <1>7. \A i \in 0..n : lg[i] + lu[i] = lu[0]
    <2>1. ASSUME NEW i \in 0..n PROVE lg[i] + lu[i] = lu[0]
      <3>1. PICK x \in Seq(S), y \in Seq(S) : x = g[i] /\ y = u[i]
        BY <1>0
      <3>2. Len(x \o y) = Len(x) + Len(y)
        OBVIOUS
      <3>3. x \o y = u[0]
        BY <1>1, <3>1, Zenon
      <3>4. 0 \in 0..n
        OBVIOUS
      <3> QED BY <1>6, <3>1, <3>2, <3>3, <3>4, Zenon
    <2> QED BY <2>1
  <1>8. \A i \in 1..n : lg[i] = lg[i - 1] + lf[i]
    <2>1. ASSUME NEW i \in 1..n PROVE lg[i] = lg[i - 1] + lf[i]
      <3>0. i - 1 \in 0..n /\ i \in 0..n
        OBVIOUS
      <3>1. PICK x \in Seq(S), y \in Seq(S) : x = g[i - 1] /\ y = f[i]
        BY <1>0, <3>0
      <3>2. Len(x \o y) = Len(x) + Len(y)
        OBVIOUS
      <3>3. x \o y = g[i]
        BY <1>1, <3>1, Zenon
      <3> QED BY <1>5, <1>6, <3>0, <3>1, <3>2, <3>3, Zenon
    <2> QED BY <2>1
  <1>9. lg[0] = 0
    <2>1. g[0] = <<>>
      BY <1>0, Zenon
    <2>2. 0 \in 0..n /\ Len(<<>>) = 0
      OBVIOUS
    <2> QED BY <1>6, <2>1, <2>2, Zenon
  <1> DEFINE T == {j \in Nat : j <= n => 2 * j <= lg[j] /\ \A i \in 0..j : lg[i] <= lg[j]}
  <1>10. 0 \in T
    BY <1>9
  <1>11. ASSUME NEW j \in T PROVE j + 1 \in T
    <2>1. ASSUME j + 1 <= n PROVE 2 * (j + 1) <= lg[j + 1] /\ \A i \in 0..(j + 1) : lg[i] <= lg[j + 1]
      <3>1. j + 1 \in 1..n /\ (j + 1) - 1 = j /\ j \in 0..n
        BY <2>1
      <3>2. lg[j + 1] = lg[j] + lf[j + 1] /\ lf[j + 1] \in Nat /\ lf[j + 1] >= 2 /\ lg[j] \in Nat
        BY <1>5, <1>6, <1>8, <3>1
      <3>3. 2 * j <= lg[j] /\ \A i \in 0..j : lg[i] <= lg[j]
        BY <3>1
      <3>4. ASSUME NEW i \in 0..(j + 1) PROVE lg[i] <= lg[j + 1]
        <4>1. CASE i \in 0..j
          <5>1. lg[i] \in Nat
            BY <1>6, <3>1, <4>1
          <5> QED BY <3>2, <3>3, <4>1, <5>1
        <4>2. CASE i = j + 1
          BY <3>2, <4>2
        <4> QED BY <4>1, <4>2
      <3> QED BY <3>2, <3>3, <3>4
    <2> QED BY <2>1
  <1>12. T = Nat
    <2>1. T \in SUBSET Nat
      OBVIOUS
    <2> HIDE DEF T
    <2> QED BY <1>10, <1>11, <2>1, Induction
  <1>13. \A j \in 0..n : 2 * j <= lg[j] /\ \A i \in 0..j : lg[i] <= lg[j]
    BY <1>12
  <1>14. \A i \in 0..n : 2 * i <= lg[i]
    BY <1>13
  <1>15. \A i, j \in 0..n : i <= j => lg[i] <= lg[j]
    BY <1>13
  <1>16. \A i \in 0..n : Len(g[i]) \in Nat /\ Len(u[i]) \in Nat /\ 2 * i <= Len(g[i])
                     /\ Len(g[i]) + Len(u[i]) = Len(u[0])
    <2>1. 0 \in 0..n
      OBVIOUS
    <2> QED BY <1>6, <1>7, <1>14, <2>1, Zenon
  <1>17. \A i \in 1..n : Len(g[i]) = Len(g[i - 1]) + Len(f[i])
    <2>1. \A i \in 1..n : i - 1 \in 0..n /\ i \in 0..n
      OBVIOUS
    <2> QED BY <1>5, <1>6, <1>8, <2>1, Zenon
  <1>18. \A i, j \in 0..n : i <= j => Len(g[i]) <= Len(g[j])
    BY <1>6, <1>15, Zenon
  <1> QED BY <1>16, <1>17, <1>18, Zenon DEF Lengths

-----------------------------------------------------------------------------
(* The loop of session.serve, turn by turn.                                *)

Going(rest, written) == [rest |-> rest, written |-> written, over |-> FALSE]
Over(rest, written) == [rest |-> rest, written |-> written, over |-> TRUE]

(* A turn of the loop of serve, from the state x.                          *)
Turn(x) ==
  IF x.over THEN x
  ELSE IF ~ReadPacket(x.rest).ok THEN Over(x.rest, x.written)
  ELSE IF ~Handle(ReadPacket(x.rest)).ok THEN Over(x.rest, x.written)
  ELSE Going(ReadPacket(x.rest).rest, x.written \o Handle(ReadPacket(x.rest)).written)

(* The packet at the start of r is handled, w is written and q is left.    *)
Handled(r, w, q) ==
  /\ ReadPacket(r).ok /\ ReadPacket(r).rest = q
  /\ Handle(ReadPacket(r)).ok /\ Handle(ReadPacket(r)).written = w

Stuck(r) == ~ReadPacket(r).ok \/ ~Handle(ReadPacket(r)).ok

LEMMA StateIs ==
  ASSUME NEW r, NEW w
  PROVE  /\ ~Going(r, w).over /\ Going(r, w).rest = r /\ Going(r, w).written = w
         /\ Over(r, w).over /\ Over(r, w).written = w
  BY DEF Going, Over

LEMMA TurnOn ==
  ASSUME NEW r, NEW w, NEW v, NEW q, Handled(r, v, q)
  PROVE  Turn(Going(r, w)) = Going(q, w \o v)
  <1>1. /\ ~Going(r, w).over /\ Going(r, w).rest = r /\ Going(r, w).written = w
        /\ Over(r, w).over /\ Over(r, w).written = w
    BY StateIs
  <1> QED BY <1>1, Zenon DEF Turn, Handled

LEMMA TurnOver ==
  ASSUME NEW r, NEW w
  PROVE  /\ Stuck(r) => Turn(Going(r, w)) = Over(r, w)
         /\ Turn(Over(r, w)) = Over(r, w)
  <1>1. /\ ~Going(r, w).over /\ Going(r, w).rest = r /\ Going(r, w).written = w
        /\ Over(r, w).over /\ Over(r, w).written = w
    BY StateIs
  <1>2. ASSUME Stuck(r) PROVE Turn(Going(r, w)) = Over(r, w)
    BY <1>1, <1>2, Zenon DEF Turn, Stuck
  <1>3. Turn(Over(r, w)) = Over(r, w)
    BY <1>1, Zenon DEF Turn
  <1> QED BY <1>2, <1>3

(* A conversation of m turns, after which it is stuck: what there is to    *)
(* read, r, and what is written in a turn, w, and by then, a.              *)
Turns(m, r, w, a) ==
  /\ a[0] = <<>> /\ \A i \in 1..m : a[i] = a[i - 1] \o w[i]
  /\ \A i \in 1..m : Handled(r[i - 1], w[i], r[i])
  /\ Stuck(r[m])

LEMMA Halved ==
  ASSUME NEW l \in Nat, NEW m \in Nat, 2 * m <= l
  PROVE  l \div 2 + 1 \in Nat /\ m <= l \div 2 + 1
  OBVIOUS

(* The loop has turns enough for every packet, for each has two bytes.     *)
LEMMA Conversed ==
  ASSUME NEW m \in Nat, NEW r, NEW w, NEW a, Turns(m, r, w, a),
         Len(r[0]) \in Nat, 2 * m <= Len(r[0])
  PROVE  Conversation(r[0]) = a[m]
  <1> DEFINE turn == CHOOSE h : h = [n \in 0..(Len(r[0]) \div 2 + 1) |->
                       IF n = 0 THEN Going(r[0], <<>>) ELSE Turn(h[n - 1])]
  <1>1. Conversation(r[0]) = turn[Len(r[0]) \div 2 + 1].written
    BY Zenon DEF Conversation, Turn, Going, Over
  <1>2. PICK M \in Nat : M = Len(r[0]) \div 2 + 1 /\ m <= M
    <2>1. PICK l \in Nat : l = Len(r[0])
      OBVIOUS
    <2>2. l \div 2 + 1 \in Nat /\ m <= l \div 2 + 1
      BY <2>1, Halved, Zenon
    <2> QED BY <2>1, <2>2, Zenon
  <1>3. PICK t : t = [n \in 0..M |-> IF n <= m THEN Going(r[n], a[n]) ELSE Over(r[m], a[m])]
    OBVIOUS
  <1>4. t = [n \in 0..M |-> IF n = 0 THEN Going(r[0], <<>>) ELSE Turn(t[n - 1])]
    <2>1. ASSUME NEW n \in 0..M PROVE t[n] = IF n = 0 THEN Going(r[0], <<>>) ELSE Turn(t[n - 1])
      <3>1. CASE n = 0
        <4>1. 0 \in 0..M /\ 0 <= m
          OBVIOUS
        <4>2. t[0] = Going(r[0], a[0]) /\ a[0] = <<>>
          BY <1>3, <4>1, Zenon DEF Turns
        <4> QED BY <3>1, <4>2, Zenon
      <3>2. CASE n # 0 /\ n <= m
        <4>1. n \in 1..m /\ n - 1 \in 0..M /\ n - 1 <= m
          BY <3>2
        <4>2. t[n] = Going(r[n], a[n]) /\ t[n - 1] = Going(r[n - 1], a[n - 1])
          BY <1>3, <3>2, <4>1, Zenon
        <4>3. Handled(r[n - 1], w[n], r[n]) /\ a[n] = a[n - 1] \o w[n]
          BY <4>1, Zenon DEF Turns
        <4>4. Turn(Going(r[n - 1], a[n - 1])) = Going(r[n], a[n - 1] \o w[n])
          <5>1. PICK x, y, v, q : x = r[n - 1] /\ y = a[n - 1] /\ v = w[n] /\ q = r[n]
            OBVIOUS
          <5>2. Handled(x, v, q)
            BY <4>3, <5>1, Zenon
          <5>3. Turn(Going(x, y)) = Going(q, y \o v)
            BY <5>2, TurnOn
          <5> QED BY <5>1, <5>3, Zenon
        <4> QED BY <3>2, <4>2, <4>3, <4>4, Zenon
      <3>3. CASE n = m + 1
        <4>1. n # 0 /\ n - 1 = m /\ m \in 0..M /\ m <= m /\ ~(n <= m)
          BY <3>3
        <4>2. t[n] = Over(r[m], a[m]) /\ t[n - 1] = Going(r[m], a[m])
          BY <1>3, <4>1, Zenon
        <4>3. Stuck(r[m])
          BY Zenon DEF Turns
        <4> QED BY <4>1, <4>2, <4>3, TurnOver, Zenon
      <3>4. CASE n > m + 1
        <4>1. n # 0 /\ n - 1 \in 0..M /\ ~(n <= m) /\ ~(n - 1 <= m)
          BY <3>4
        <4>2. t[n] = Over(r[m], a[m]) /\ t[n - 1] = Over(r[m], a[m])
          BY <1>3, <4>1, Zenon
        <4> QED BY <4>1, <4>2, TurnOver, Zenon
      <3>5. n = 0 \/ (n # 0 /\ n <= m) \/ n = m + 1 \/ n > m + 1
        OBVIOUS
      <3> QED BY <3>1, <3>2, <3>3, <3>4, <3>5, Zenon
    <2>2. t = [n \in 0..M |-> t[n]]
      BY <1>3
    <2> QED BY <2>1, <2>2, Zenon
  <1>5. turn = [n \in 0..M |-> IF n = 0 THEN Going(r[0], <<>>) ELSE Turn(turn[n - 1])]
    BY <1>2, <1>4, Zenon
  <1> HIDE DEF turn
  <1> DEFINE S == {n \in Nat : n <= M => turn[n] = t[n]}
  <1>6. 0 \in S
    <2>1. 0 \in 0..M
      OBVIOUS
    <2>2. turn[0] = t[0]
      BY <1>4, <1>5, <2>1, Zenon
    <2> QED BY <2>2
  <1>7. ASSUME NEW n \in S PROVE n + 1 \in S
    <2>1. ASSUME n + 1 <= M PROVE turn[n + 1] = t[n + 1]
      <3>1. n + 1 \in 0..M /\ n + 1 # 0 /\ (n + 1) - 1 = n
        BY <2>1
      <3>2. turn[n] = t[n]
        BY <2>1
      <3>3. turn[n + 1] = Turn(turn[n])
        BY <1>5, <3>1, Zenon
      <3>4. t[n + 1] = Turn(t[n])
        BY <1>4, <3>1, Zenon
      <3> QED BY <3>2, <3>3, <3>4, Zenon
    <2> QED BY <2>1
  <1>8. S = Nat
    <2>1. S \in SUBSET Nat
      OBVIOUS
    <2> HIDE DEF S
    <2> QED BY <1>6, <1>7, <2>1, Induction
  <1>9. turn[M] = t[M]
    BY <1>8
  <1>10. M \in 0..M
    OBVIOUS
  <1>11. t[M] = Going(r[m], a[m]) \/ t[M] = Over(r[m], a[m])
    <2>1. m <= M
      BY <1>2, Zenon
    <2>2. M <= m => M = m
      BY <2>1
    <2> QED BY <1>3, <1>10, <2>2, Zenon
  <1>12. t[M].written = a[m]
    <2>1. Going(r[m], a[m]).written = a[m] /\ Over(r[m], a[m]).written = a[m]
      BY StateIs
    <2> QED BY <1>11, <2>1, Zenon
  <1> QED BY <1>1, <1>2, <1>9, <1>12, Zenon

-----------------------------------------------------------------------------
(* The topic filters of a SUBSCRIBE, round by round.                       *)

After(topics, next) == [ok |-> TRUE, topics |-> topics, next |-> next]

(* A round of the loop of DecodeSubscribe.                                 *)
Round(b, x) ==
  IF ~x.ok \/ x.next >= Len(b) THEN x
  ELSE IF ~ReadString(b, x.next).ok THEN Failed
  ELSE IF ReadString(b, x.next).next >= Len(b) THEN Failed
  ELSE After(Append(x.topics, ReadString(b, x.next).value), ReadString(b, x.next).next + 1)

LEMMA AfterIs ==
  ASSUME NEW ts, NEW i
  PROVE  After(ts, i).ok /\ After(ts, i).topics = ts /\ After(ts, i).next = i
  BY DEF After

LEMMA RoundOn ==
  ASSUME NEW b \in Seq(Byte), NEW i \in Nat, NEW t \in String, StringAt(b, i, t),
         NEW j \in Nat, j = i + Len(AppendString(t)), i <= j, j < Len(b), NEW ts
  PROVE  Round(b, After(ts, i)) = After(Append(ts, t), j + 1)
  <1>1. ReadString(b, i) = [ok |-> TRUE, value |-> t, next |-> j]
    BY StringRead
  <1>2. ReadString(b, i).ok /\ ReadString(b, i).value = t /\ ReadString(b, i).next = j
    BY <1>1
  <1>3. ~(i >= Len(b)) /\ ~(j >= Len(b))
    <2>1. Len(b) \in Nat
      OBVIOUS
    <2> QED BY <2>1
  <1>4. After(ts, i).ok /\ After(ts, i).topics = ts /\ After(ts, i).next = i
    BY AfterIs
  <1>5. Round(b, After(ts, i)) =
          IF ~After(ts, i).ok \/ i >= Len(b) THEN After(ts, i)
          ELSE IF ~ReadString(b, i).ok THEN Failed
          ELSE IF ReadString(b, i).next >= Len(b) THEN Failed
          ELSE After(Append(ts, ReadString(b, i).value), ReadString(b, i).next + 1)
    BY <1>4, Zenon DEF Round
  <1> QED BY <1>2, <1>3, <1>4, <1>5, Zenon

LEMMA RoundOver ==
  ASSUME NEW b, NEW ts, NEW i, i >= Len(b)
  PROVE  Round(b, After(ts, i)) = After(ts, i)
  <1>1. After(ts, i).next = i
    BY AfterIs
  <1> QED BY <1>1, Zenon DEF Round

LEMMA FilterBytes ==
  ASSUME NEW t \in String, NEW qos \in Byte
  PROVE  /\ AppendString(t) \o <<qos>> \in Seq(Byte)
         /\ Len(AppendString(t) \o <<qos>>) = Len(AppendString(t)) + 1
         /\ Len(AppendString(t)) \in Nat /\ Len(AppendString(t)) >= 2
         /\ At(AppendString(t) \o <<qos>>, 0, AppendString(t))
  <1>1. AppendString(t) \in Seq(Byte) /\ Len(AppendString(t)) = 2 + Len(t) /\ Len(t) \in Nat
    BY StringWritten
  <1>2. <<qos>> \in Seq(Byte) /\ Len(<<qos>>) = 1
    OBVIOUS
  <1>3. Len(AppendString(t)) \in Nat /\ Len(AppendString(t)) >= 2
    BY <1>1
  <1>4. PICK s \in Seq(Byte), q \in Seq(Byte) : s = AppendString(t) /\ q = <<qos>>
    BY <1>1, <1>2, Zenon
  <1>5. s \o q \in Seq(Byte) /\ Len(s \o q) = Len(s) + Len(q) /\ At(s \o q, 0, s)
    BY Concat
  <1> QED BY <1>2, <1>3, <1>4, <1>5, Zenon

LEMMA OneTopicMore ==
  ASSUME NEW S, NEW s \in Seq(S), NEW n \in 1..Len(s)
  PROVE  SubSeq(s, 1, n) = Append(SubSeq(s, 1, n - 1), s[n])
  OBVIOUS

LEMMA WholeSeq ==
  ASSUME NEW S, NEW s \in Seq(S)
  PROVE  SubSeq(s, 1, Len(s)) = s /\ SubSeq(s, 1, 0) = <<>>
  OBVIOUS

(* The filters ts in b, each with a byte behind it; filter number i begins *)
(* after p[i - 1] bytes.                                                   *)
Filters(b, ts, n, p) ==
  /\ b \in Seq(Byte) /\ n = Len(ts) /\ ts \in Seq(String)
  /\ p[0] = 2 /\ p[n] = Len(b) /\ 2 + n <= Len(b)
  /\ \A i \in 1..n : /\ p[i - 1] \in Nat /\ StringAt(b, p[i - 1], ts[i])
                     /\ p[i] = p[i - 1] + Len(AppendString(ts[i])) + 1
                     /\ p[i] <= Len(b)

(* What EncodeSubscribe lays down is a filter after the other.             *)
LEMMA FiltersWritten ==
  ASSUME NEW id \in 0..MaxUint16, NEW ts \in Seq(String), NEW qos \in Byte
  PROVE  \E b, p : /\ EncodeSubscribe(id, qos, ts) = Encode(TypeSubscribe, 2, b)
                   /\ Filters(b, ts, Len(ts), p) /\ At(b, 0, AppendUint16(id))
  <1>1. PICK n \in Nat : n = Len(ts)
    OBVIOUS
  <1>2. DOMAIN ts = 1..n /\ \A i \in 1..n : ts[i] \in String
    BY <1>1
  <1>3. PICK f : f = [i \in 1..n |-> AppendString(ts[i]) \o <<qos>>]
    OBVIOUS
  <1>4. \A i \in 1..n : f[i] = AppendString(ts[i]) \o <<qos>>
    BY <1>3
  <1>5. \A i \in 1..n : f[i] \in Seq(Byte) /\ Len(f[i]) = Len(AppendString(ts[i])) + 1
                        /\ Len(AppendString(ts[i])) \in Nat /\ Len(AppendString(ts[i])) >= 2
                        /\ At(f[i], 0, AppendString(ts[i]))
    BY <1>2, <1>4, FilterBytes, Zenon
  <1>6. f \in [1..n -> Seq(Byte)] /\ \A i \in 1..n : Len(f[i]) >= 2
    <2>1. \A i \in 1..n : Len(f[i]) >= 2
      BY <1>5
    <2> QED BY <1>3, <1>5, <2>1, Zenon
  <1>7. PICK g, u : Together(Byte, n, f, g, u)
    BY <1>6, PartsTogether
  <1>8. Lengths(n, f, g, u)
    BY <1>6, <1>7, PartsLong
  <1>9. /\ g \in [0..n -> Seq(Byte)] /\ u \in [0..n -> Seq(Byte)] /\ g[0] = <<>> /\ u[n] = <<>>
        /\ \A i \in 1..n : u[i - 1] = f[i] \o u[i]
        /\ \A i \in 0..n : g[i] \o u[i] = u[0]
    BY <1>7, Zenon DEF Together, Complete
  <1>10. FlattenSeq(f) = u[0]
    <2>1. n \in 0..n
      OBVIOUS
    <2>2. FlattenSeq(First(f, n)) = g[n]
      BY <1>7, <2>1, Flattened
    <2>3. First(f, n) = f
      BY <1>3 DEF First
    <2>4. g[n] = u[0]
      <3>1. PICK x \in Seq(Byte) : x = g[n]
        BY <1>9, <2>1
      <3>2. x \o <<>> = x
        OBVIOUS
      <3>3. g[n] \o u[n] = u[0]
        BY <1>9, <2>1, Zenon
      <3> QED BY <1>9, <3>1, <3>2, <3>3, Zenon
    <2> QED BY <2>2, <2>3, <2>4, Zenon
  <1>11. PICK hd : hd = AppendUint16(id)
    OBVIOUS
  <1>12. hd \in Seq(Byte) /\ Len(hd) = 2
    BY <1>11, Uint16Read
  <1>13. PICK b : b = hd \o u[0]
    OBVIOUS
  <1>14. EncodeSubscribe(id, qos, ts) = Encode(TypeSubscribe, 2, b)
    <2>1. f = [i \in DOMAIN ts |-> AppendString(ts[i]) \o <<qos>>]
      BY <1>2, <1>3, Zenon
    <2> QED BY <1>10, <1>11, <1>13, <2>1, Zenon DEF EncodeSubscribe
  <1>15. PICK v \in Seq(Byte) : v = u[0]
    BY <1>9
  <1>16. b \in Seq(Byte) /\ Len(b) = 2 + Len(v) /\ At(b, 0, hd) /\ At(b, 2, v) /\ Len(v) \in Nat
    <2>1. hd \o v \in Seq(Byte) /\ Len(hd \o v) = Len(hd) + Len(v) /\ Len(v) \in Nat
          /\ At(hd \o v, 0, hd) /\ At(hd \o v, Len(hd), v)
      BY <1>12, Concat
    <2> QED BY <1>12, <1>13, <1>15, <2>1, Zenon
  <1>17. PICK p : p = [i \in 0..n |-> 2 + Len(g[i])]
    OBVIOUS
  <1>18. /\ \A i \in 0..n : p[i] = 2 + Len(g[i]) /\ Len(g[i]) \in Nat /\ Len(u[i]) \in Nat
                            /\ Len(g[i]) + Len(u[i]) = Len(v) /\ 2 * i <= Len(g[i])
         /\ \A i \in 1..n : Len(g[i]) = Len(g[i - 1]) + Len(f[i])
    BY <1>8, <1>15, <1>17, Zenon DEF Lengths
  <1>19. ASSUME NEW i \in 1..n
         PROVE  /\ p[i - 1] \in Nat /\ StringAt(b, p[i - 1], ts[i])
                /\ p[i] = p[i - 1] + Len(AppendString(ts[i])) + 1
                /\ p[i] <= Len(b)
    <2>1. i \in 0..n /\ i - 1 \in 0..n
      OBVIOUS
    <2>2. PICK a \in Seq(Byte), c \in Seq(Byte), x \in Seq(Byte), y \in Seq(Byte), s \in Seq(Byte) :
            a = g[i - 1] /\ c = u[i - 1] /\ x = f[i] /\ y = u[i] /\ s = AppendString(ts[i])
      <3>1. AppendString(ts[i]) \in Seq(Byte)
        BY <1>2, StringWritten, Zenon
      <3> QED BY <1>6, <1>9, <2>1, <3>1
    <2>3. v = a \o c /\ c = x \o y
      BY <1>9, <1>15, <2>1, <2>2, Zenon
    <2>4. Len(a) \in Nat /\ At(v, Len(a), c)
      BY <2>3, Concat
    <2>5. At(c, 0, x)
      BY <2>3, Concat
    <2>6. At(x, 0, s) /\ Len(x) = Len(s) + 1 /\ Len(s) \in Nat
      BY <1>5, <2>2, Zenon
    <2>7. At(v, Len(a), x)
      <3>1. At(v, Len(a) + 0, x) /\ Len(a) + 0 = Len(a)
        BY <2>4, <2>5, AtTrans
      <3> QED BY <3>1, Zenon
    <2>8. At(v, Len(a), s)
      <3>1. At(v, Len(a) + 0, s) /\ Len(a) + 0 = Len(a)
        BY <2>4, <2>6, <2>7, AtTrans
      <3> QED BY <3>1, Zenon
    <2>9. At(b, 2 + Len(a), s)
      BY <1>16, <2>4, <2>8, AtTrans
    <2>10. p[i - 1] = 2 + Len(a) /\ p[i] = 2 + Len(g[i]) /\ Len(g[i]) = Len(a) + Len(x)
           /\ Len(g[i]) + Len(u[i]) = Len(v) /\ Len(g[i]) \in Nat /\ Len(u[i]) \in Nat
      BY <1>18, <2>1, <2>2, Zenon
    <2>11. p[i - 1] \in Nat /\ p[i] = p[i - 1] + Len(s) + 1 /\ p[i] <= Len(b)
      <3>1. PICK m \in Nat, k \in Nat : m = Len(g[i]) /\ k = Len(u[i])
        BY <2>10
      <3>2. p[i] = 2 + m /\ m = Len(a) + Len(x) /\ m + k = Len(v)
        BY <2>10, <3>1, Zenon
      <3>3. p[i - 1] = 2 + Len(a) /\ Len(b) = 2 + Len(v)
        BY <1>16, <2>10
      <3> QED BY <2>4, <2>6, <3>2, <3>3
    <2> QED BY <2>2, <2>9, <2>10, <2>11, Zenon DEF StringAt
  <1>20. p[0] = 2 /\ p[n] = Len(b) /\ 2 + n <= Len(b)
    <2>1. 0 \in 0..n /\ n \in 0..n /\ Len(<<>>) = 0
      OBVIOUS
    <2>2. p[0] = 2 + Len(<<>>) /\ p[n] = 2 + Len(g[n]) /\ Len(g[n]) \in Nat
          /\ Len(g[n]) + Len(<<>>) = Len(v) /\ 2 * n <= Len(g[n])
      BY <1>9, <1>18, <2>1, Zenon
    <2> QED BY <1>16, <2>1, <2>2
  <1>21. Filters(b, ts, Len(ts), p)
    BY <1>1, <1>16, <1>19, <1>20, Zenon DEF Filters
  <1> QED BY <1>11, <1>14, <1>16, <1>21, Zenon

(* DecodeSubscribe has rounds enough, and reads the filters it was sent.   *)
LEMMA FiltersRead ==
  ASSUME NEW b, NEW ts, NEW n \in Nat, NEW p, Filters(b, ts, n, p)
  PROVE  DecodeSubscribe(b) = [ok |-> TRUE, id |-> Uint16(b, 0), topics |-> ts]
  <1>1. /\ b \in Seq(Byte) /\ n = Len(ts) /\ ts \in Seq(String)
        /\ p[0] = 2 /\ p[n] = Len(b) /\ 2 + n <= Len(b)
    BY Zenon DEF Filters
  <1>2. PICK M \in Nat : M = Len(b)
    BY <1>1
  <1>3. 2 + n <= M /\ ~(M < 2) /\ p[n] = M /\ p[n] >= M /\ n <= M
    <2>1. 2 + n <= M
      BY <1>1, <1>2, Zenon
    <2>2. ~(M < 2) /\ n <= M /\ M >= M
      BY <2>1
    <2> QED BY <1>1, <1>2, <2>1, <2>2, Zenon
  <1> DEFINE after == CHOOSE h : h = [i \in 0..Len(b) |->
                        IF i = 0 THEN After(<<>>, 2) ELSE Round(b, h[i - 1])]
  <1>4. DecodeSubscribe(b) = IF M < 2 \/ ~after[M].ok THEN Failed
                             ELSE [ok |-> TRUE, id |-> Uint16(b, 0), topics |-> after[M].topics]
    BY <1>2, Zenon DEF DecodeSubscribe, Round, After
  <1>5. PICK t : t = [i \in 0..M |-> IF i <= n THEN After(SubSeq(ts, 1, i), p[i]) ELSE After(ts, p[n])]
    OBVIOUS
  <1>6. t = [i \in 0..M |-> IF i = 0 THEN After(<<>>, 2) ELSE Round(b, t[i - 1])]
    <2>1. ASSUME NEW i \in 0..M PROVE t[i] = IF i = 0 THEN After(<<>>, 2) ELSE Round(b, t[i - 1])
      <3>1. CASE i = 0
        <4>1. 0 \in 0..M /\ 0 <= n
          OBVIOUS
        <4>2. SubSeq(ts, 1, 0) = <<>>
          BY <1>1, WholeSeq, Zenon
        <4> QED BY <1>1, <1>5, <3>1, <4>1, <4>2, Zenon
      <3>2. CASE i # 0 /\ i <= n
        <4>1. i \in 1..n /\ i - 1 \in 0..M /\ i - 1 <= n
          BY <3>2
        <4>2. t[i] = After(SubSeq(ts, 1, i), p[i]) /\ t[i - 1] = After(SubSeq(ts, 1, i - 1), p[i - 1])
          BY <1>5, <3>2, <4>1, Zenon
        <4>3. /\ p[i - 1] \in Nat /\ StringAt(b, p[i - 1], ts[i])
              /\ p[i] = p[i - 1] + Len(AppendString(ts[i])) + 1
              /\ p[i] <= Len(b)
          BY <4>1, Zenon DEF Filters
        <4>4. ts[i] \in String
          BY <1>1, <4>1
        <4>5. PICK q \in Nat, s \in String : q = p[i - 1] /\ s = ts[i]
          BY <4>3, <4>4
        <4>6. PICK x : x = SubSeq(ts, 1, i - 1)
          OBVIOUS
        <4>7. PICK k \in Nat : k = Len(AppendString(s))
          <5>1. AppendString(s) \in Seq(Byte)
            BY StringWritten
          <5> QED BY <5>1
        <4>8. PICK j \in Nat : j = q + k
          OBVIOUS
        <4>9. StringAt(b, q, s) /\ p[i] = j + 1
          BY <4>3, <4>5, <4>7, <4>8, Zenon
        <4>10. q <= j /\ j < Len(b)
          <5>1. j + 1 <= M
            BY <1>2, <4>3, <4>9, Zenon
          <5>2. j < M
            BY <5>1
          <5> QED BY <1>2, <4>8, <5>2
        <4>11. Round(b, After(x, q)) = After(Append(x, s), j + 1)
          <5>1. j = q + Len(AppendString(s))
            BY <4>7, <4>8, Zenon
          <5> QED BY <1>1, <4>9, <4>10, <5>1, RoundOn
        <4>12. SubSeq(ts, 1, i) = Append(x, s)
          BY <1>1, <4>1, <4>5, <4>6, OneTopicMore, Zenon
        <4> QED BY <3>2, <4>2, <4>5, <4>6, <4>9, <4>11, <4>12, Zenon
      <3>3. CASE i = n + 1
        <4>1. i # 0 /\ i - 1 = n /\ n \in 0..M /\ n <= n /\ ~(i <= n)
          BY <3>3
        <4>2. SubSeq(ts, 1, n) = ts
          BY <1>1, WholeSeq, Zenon
        <4>3. t[i] = After(ts, p[n]) /\ t[i - 1] = After(ts, p[n])
          BY <1>5, <4>1, <4>2, Zenon
        <4>4. Round(b, After(ts, p[n])) = After(ts, p[n])
          BY <1>2, <1>3, RoundOver, Zenon
        <4> QED BY <4>1, <4>3, <4>4, Zenon
      <3>4. CASE i > n + 1
        <4>1. i # 0 /\ i - 1 \in 0..M /\ ~(i <= n) /\ ~(i - 1 <= n)
          BY <3>4
        <4>2. t[i] = After(ts, p[n]) /\ t[i - 1] = After(ts, p[n])
          BY <1>5, <4>1, Zenon
        <4>3. Round(b, After(ts, p[n])) = After(ts, p[n])
          BY <1>2, <1>3, RoundOver, Zenon
        <4> QED BY <4>1, <4>2, <4>3, Zenon
      <3>5. i = 0 \/ (i # 0 /\ i <= n) \/ i = n + 1 \/ i > n + 1
        OBVIOUS
      <3> QED BY <3>1, <3>2, <3>3, <3>4, <3>5, Zenon
    <2>2. t = [i \in 0..M |-> t[i]]
      BY <1>5
    <2> QED BY <2>1, <2>2, Zenon
  <1>7. after = [i \in 0..M |-> IF i = 0 THEN After(<<>>, 2) ELSE Round(b, after[i - 1])]
    BY <1>2, <1>6, Zenon
  <1> HIDE DEF after
  <1> DEFINE S == {i \in Nat : i <= M => after[i] = t[i]}
  <1>8. 0 \in S
    <2>1. 0 \in 0..M
      OBVIOUS
    <2>2. after[0] = t[0]
      BY <1>6, <1>7, <2>1, Zenon
    <2> QED BY <2>2
  <1>9. ASSUME NEW i \in S PROVE i + 1 \in S
    <2>1. ASSUME i + 1 <= M PROVE after[i + 1] = t[i + 1]
      <3>1. i + 1 \in 0..M /\ i + 1 # 0 /\ (i + 1) - 1 = i
        BY <2>1
      <3>2. after[i] = t[i]
        BY <2>1
      <3>3. after[i + 1] = Round(b, after[i])
        BY <1>7, <3>1, Zenon
      <3>4. t[i + 1] = Round(b, t[i])
        BY <1>6, <3>1, Zenon
      <3> QED BY <3>2, <3>3, <3>4, Zenon
    <2> QED BY <2>1
  <1>10. S = Nat
    <2>1. S \in SUBSET Nat
      OBVIOUS
    <2> HIDE DEF S
    <2> QED BY <1>8, <1>9, <2>1, Induction
  <1>11. after[M] = t[M]
    BY <1>10
  <1>12. t[M] = After(ts, p[n])
    <2>1. M \in 0..M /\ ~(M <= n)
      BY <1>3
    <2> QED BY <1>5, <2>1, Zenon
  <1>13. after[M].ok /\ after[M].topics = ts
    <2>1. After(ts, p[n]).ok /\ After(ts, p[n]).topics = ts
      BY AfterIs
    <2> QED BY <1>11, <1>12, <2>1, Zenon
  <1> QED BY <1>3, <1>4, <1>13, Zenon

-----------------------------------------------------------------------------
(* Each kind of request is understood, and what is answered to it is what  *)
(* the client waits for.                                                   *)

LEMMA PublishQoS1Read ==
  ASSUME NEW topic \in String, NEW id \in 0..MaxUint16, NEW payload \in Seq(Byte)
  PROVE  \E b \in Seq(Byte) : /\ b = AppendString(topic) \o AppendUint16(id) \o payload
                              /\ DecodePublish(b, 1).ok /\ DecodePublish(b, 1).id = id
  <1>1. PICK s \in Seq(Byte), q \in Seq(Byte) : s = AppendString(topic) /\ q = AppendUint16(id)
    BY StringWritten, Uint16Read
  <1>2. Len(q) = 2 /\ Len(s) \in Nat /\ Len(payload) \in Nat
    BY <1>1, Uint16Read
  <1>3. PICK a \in Seq(Byte) : a = s \o q
    <2>1. s \o q \in Seq(Byte)
      OBVIOUS
    <2> QED BY <2>1, Zenon
  <1>4. PICK b \in Seq(Byte) : b = a \o payload
    <2>1. a \o payload \in Seq(Byte)
      OBVIOUS
    <2> QED BY <2>1, Zenon
  <1>5. b = AppendString(topic) \o AppendUint16(id) \o payload
    BY <1>1, <1>3, <1>4, Zenon
  <1>6. Len(a) = Len(s) + 2 /\ At(a, 0, s) /\ At(a, Len(s), q)
    <2>1. Len(s \o q) = Len(s) + Len(q) /\ At(s \o q, 0, s) /\ At(s \o q, Len(s), q)
      BY Concat
    <2> QED BY <1>2, <1>3, <2>1, Zenon
  <1>7. Len(b) = Len(a) + Len(payload) /\ At(b, 0, a)
    BY <1>4, Concat
  <1>8. At(b, 0, s) /\ At(b, Len(s), q)
    <2>1. At(b, 0 + 0, s) /\ 0 + 0 = 0
      BY <1>6, <1>7, AtTrans
    <2>2. At(b, 0 + Len(s), q) /\ 0 + Len(s) = Len(s)
      BY <1>2, <1>6, <1>7, AtTrans
    <2> QED BY <2>1, <2>2, Zenon
  <1>9. PICK l \in Nat : l = Len(s)
    BY <1>2
  <1>10. ReadString(b, 0) = [ok |-> TRUE, value |-> topic, next |-> l]
    <2>1. StringAt(b, 0, topic)
      BY <1>1, <1>8, Zenon DEF StringAt
    <2>2. ReadString(b, 0) = [ok |-> TRUE, value |-> topic, next |-> 0 + Len(AppendString(topic))]
      BY <2>1, StringRead
    <2>3. 0 + l = l
      OBVIOUS
    <2> QED BY <1>1, <1>9, <2>2, <2>3, Zenon
  <1>11. ReadString(b, 0).ok /\ ReadString(b, 0).next = l
    BY <1>10
  <1>12. Uint16(b, l) = id
    BY <1>1, <1>8, <1>9, Uint16Read
  <1>13. ~(l + 2 > Len(b)) /\ 1 > 0
    BY <1>2, <1>6, <1>7, <1>9
  <1>14. DecodePublish(b, 1) = [ok |-> TRUE, topic |-> ReadString(b, 0).value,
                                payload |-> SubSeq(b, l + 2 + 1, Len(b)), id |-> id]
    BY <1>11, <1>12, <1>13, Zenon DEF DecodePublish
  <1>15. DecodePublish(b, 1).ok /\ DecodePublish(b, 1).id = id
    BY <1>14
  <1> QED BY <1>5, <1>15

LEMMA PublishQoS0Read ==
  ASSUME NEW topic \in String, NEW payload \in Seq(Byte)
  PROVE  \E b \in Seq(Byte) : b = AppendString(topic) \o payload /\ DecodePublish(b, 0).ok
  <1>1. PICK s \in Seq(Byte) : s = AppendString(topic)
    BY StringWritten
  <1>2. Len(s) \in Nat /\ Len(payload) \in Nat
    OBVIOUS
  <1>3. PICK b \in Seq(Byte) : b = s \o payload
    <2>1. s \o payload \in Seq(Byte)
      OBVIOUS
    <2> QED BY <2>1, Zenon
  <1>4. Len(b) = Len(s) + Len(payload) /\ At(b, 0, s)
    BY <1>3, Concat
  <1>5. PICK l \in Nat : l = Len(s)
    BY <1>2
  <1>6. ReadString(b, 0) = [ok |-> TRUE, value |-> topic, next |-> l]
    <2>1. StringAt(b, 0, topic)
      BY <1>1, <1>4, Zenon DEF StringAt
    <2>2. ReadString(b, 0) = [ok |-> TRUE, value |-> topic, next |-> 0 + Len(AppendString(topic))]
      BY <2>1, StringRead
    <2>3. 0 + l = l
      OBVIOUS
    <2> QED BY <1>1, <1>5, <2>2, <2>3, Zenon
  <1>7. ReadString(b, 0).ok /\ ReadString(b, 0).next = l
    BY <1>6
  <1>8. ~(l + 0 > Len(b)) /\ ~(0 > 0)
    BY <1>2, <1>4, <1>5
  <1>9. DecodePublish(b, 0) = [ok |-> TRUE, topic |-> ReadString(b, 0).value,
                               payload |-> SubSeq(b, l + 0 + 1, Len(b)), id |-> 0]
    BY <1>7, <1>8, Zenon DEF DecodePublish
  <1>10. DecodePublish(b, 0).ok
    BY <1>9
  <1> QED BY <1>1, <1>3, <1>10, Zenon

Answer(r) ==
  CASE r.kind = "subscribe" -> EncodeSuback(r.id, Len(r.topics))
    [] r.kind = "publish"   -> EncodePuback(r.id)
    [] r.kind = "ping"      -> Pingresp
    [] r.kind = "log"       -> <<>>
    [] r.kind = "bye"       -> <<>>

(* The request r is a packet that the server handles and answers; it ends  *)
(* the conversation if it is a DISCONNECT.                                 *)
Answers(pkt, r) ==
  IF r.kind = "bye" THEN ~Handle(pkt).ok ELSE Handle(pkt).ok /\ Handle(pkt).written = Answer(r)

Understands(r) ==
  \E type, flags, p : /\ IsPacket(Bytes(r), type, flags, p)
                      /\ \A rest : Answers(Read(type, flags, p, rest), r)

LEMMA ReadIs ==
  ASSUME NEW type, NEW flags, NEW p, NEW rest
  PROVE  /\ Read(type, flags, p, rest).ok /\ Read(type, flags, p, rest).type = type
         /\ Read(type, flags, p, rest).payload = p /\ Read(type, flags, p, rest).rest = rest
         /\ Read(type, flags, p, rest).flags = flags
  BY DEF Read

LEMMA PingUnderstood ==
  ASSUME NEW r, Proper(r), r.kind = "ping"
  PROVE  Understands(r)
  <1>1. Bytes(r) = Encode(TypePingreq, 0, <<>>) /\ Answer(r) = Pingresp /\ r.kind # "bye"
    BY DEF Bytes, Answer
  <1>2. IsPacket(Bytes(r), TypePingreq, 0, <<>>)
    <2>1. Len(Encode(TypePingreq, 0, <<>>)) <= MaxPacketSize
      BY <1>1, Zenon DEF Proper
    <2>2. TypePingreq \in 0..15 /\ 0 \in 0..15 /\ <<>> \in Seq(Byte)
      BY DEF TypePingreq
    <2> QED BY <1>1, <2>1, <2>2, EncodedIsPacket
  <1>3. ASSUME NEW rest PROVE Answers(Read(TypePingreq, 0, <<>>, rest), r)
    <2>1. PICK pkt : pkt = Read(TypePingreq, 0, <<>>, rest)
      OBVIOUS
    <2>2. pkt.type = TypePingreq
      BY <2>1, ReadIs
    <2>3. Handle(pkt) = [ok |-> TRUE, written |-> Pingresp]
      BY <2>2 DEF Handle, TypePingreq, TypeSubscribe, TypeDisconnect, TypePublish
    <2>4. Handle(pkt).ok /\ Handle(pkt).written = Pingresp
      BY <2>3
    <2> QED BY <1>1, <2>1, <2>4, Zenon DEF Answers
  <1> QED BY <1>2, <1>3, Zenon DEF Understands

LEMMA ByeUnderstood ==
  ASSUME NEW r, Proper(r), r.kind = "bye"
  PROVE  Understands(r)
  <1>1. Bytes(r) = Encode(TypeDisconnect, 0, <<>>)
    BY DEF Bytes, EncodeDisconnect
  <1>2. IsPacket(Bytes(r), TypeDisconnect, 0, <<>>)
    <2>1. Len(Encode(TypeDisconnect, 0, <<>>)) <= MaxPacketSize
      BY <1>1, Zenon DEF Proper
    <2>2. TypeDisconnect \in 0..15 /\ 0 \in 0..15 /\ <<>> \in Seq(Byte)
      BY DEF TypeDisconnect
    <2> QED BY <1>1, <2>1, <2>2, EncodedIsPacket
  <1>3. ASSUME NEW rest PROVE Answers(Read(TypeDisconnect, 0, <<>>, rest), r)
    <2>1. PICK pkt : pkt = Read(TypeDisconnect, 0, <<>>, rest)
      OBVIOUS
    <2>2. pkt.type = TypeDisconnect
      BY <2>1, ReadIs
    <2>3. Handle(pkt) = Failed
      BY <2>2 DEF Handle, TypePingreq, TypeSubscribe, TypeDisconnect, TypePublish
    <2>4. ~Handle(pkt).ok
      BY <2>3 DEF Failed
    <2> QED BY <2>1, <2>4, Zenon DEF Answers
  <1> QED BY <1>2, <1>3, Zenon DEF Understands

(* What a proper request consists of.                                      *)
LEMMA RequestHas ==
  ASSUME NEW r, Proper(r)
  PROVE  /\ r.kind \in {"subscribe", "publish", "log", "ping", "bye"}
         /\ r.id \in 0..MaxUint16 /\ r.topics \in Seq(String) /\ r.qos \in Byte
         /\ r.payload \in Seq(Byte) /\ r.retain \in BOOLEAN
         /\ r.kind \in {"publish", "log"} => r.topics[1] \in String
         /\ Len(Bytes(r)) <= MaxPacketSize
  <1>1. r \in Request /\ Len(Bytes(r)) <= MaxPacketSize
        /\ (r.kind \in {"subscribe", "publish", "log"} => r.topics # <<>>)
    BY Zenon DEF Proper
  <1>2. /\ r.kind \in {"subscribe", "publish", "log", "ping", "bye"}
        /\ r.id \in 0..MaxUint16 /\ r.topics \in Seq(String) /\ r.qos \in 0..2
        /\ r.payload \in Seq(Byte) /\ r.retain \in BOOLEAN
    BY <1>1 DEF Request
  <1>3. r.qos \in Byte
    BY <1>2 DEF Byte
  <1>4. ASSUME r.topics # <<>> PROVE r.topics[1] \in String
    <2>1. PICK ts \in Seq(String) : ts = r.topics
      BY <1>2
    <2>2. ts # <<>> => ts[1] \in String
      OBVIOUS
    <2> QED BY <1>4, <2>1, <2>2
  <1> QED BY <1>1, <1>2, <1>3, <1>4, Zenon

LEMMA LogUnderstood ==
  ASSUME NEW r, Proper(r), r.kind = "log"
  PROVE  Understands(r)
  <1>1. r.topics[1] \in String /\ r.payload \in Seq(Byte) /\ Len(Bytes(r)) <= MaxPacketSize /\ r.retain \in BOOLEAN
    BY RequestHas, Zenon
  <1>2. PICK b \in Seq(Byte) : b = AppendString(r.topics[1]) \o r.payload /\ DecodePublish(b, 0).ok
    BY <1>1, PublishQoS0Read
  <1>3. PICK flags \in 0..1 : flags = IF r.retain THEN 1 ELSE 0
    BY <1>1
  <1>4. Bytes(r) = Encode(TypePublish, flags, b) /\ Answer(r) = <<>> /\ r.kind # "bye"
    <2>1. Bytes(r) = EncodePublishQoS0(r.topics[1], r.payload, r.retain)
      BY DEF Bytes
    <2>2. Answer(r) = <<>> /\ r.kind # "bye"
      BY DEF Answer
    <2> QED BY <1>2, <1>3, <2>1, <2>2, Zenon DEF EncodePublishQoS0
  <1>5. IsPacket(Bytes(r), TypePublish, flags, b)
    <2>1. TypePublish \in 0..15 /\ flags \in 0..15
      BY DEF TypePublish
    <2> QED BY <1>1, <1>4, <2>1, EncodedIsPacket
  <1>6. ASSUME NEW rest PROVE Answers(Read(TypePublish, flags, b, rest), r)
    <2>1. PICK pkt : pkt = Read(TypePublish, flags, b, rest)
      OBVIOUS
    <2>2. pkt.type = TypePublish /\ pkt.payload = b /\ pkt.flags = flags
      BY <2>1, ReadIs
    <2>3. QoS(pkt) = 0
      BY <2>2 DEF QoS
    <2>4. DecodePublish(pkt.payload, QoS(pkt)).ok
      BY <1>2, <2>2, <2>3, Zenon
    <2>5. Handle(pkt) = [ok |-> TRUE, written |-> <<>>]
      BY <2>2, <2>3, <2>4 DEF Handle, TypePingreq, TypeSubscribe, TypeDisconnect, TypePublish
    <2>6. Handle(pkt).ok /\ Handle(pkt).written = <<>>
      BY <2>5
    <2> QED BY <1>4, <2>1, <2>6, Zenon DEF Answers
  <1> QED BY <1>5, <1>6, Zenon DEF Understands

LEMMA PublishUnderstood ==
  ASSUME NEW r, Proper(r), r.kind = "publish"
  PROVE  Understands(r)
  <1>1. /\ r.topics[1] \in String /\ r.payload \in Seq(Byte) /\ Len(Bytes(r)) <= MaxPacketSize
        /\ r.retain \in BOOLEAN /\ r.id \in 0..MaxUint16
    BY RequestHas, Zenon
  <1>2. PICK b \in Seq(Byte) : /\ b = AppendString(r.topics[1]) \o AppendUint16(r.id) \o r.payload
                               /\ DecodePublish(b, 1).ok /\ DecodePublish(b, 1).id = r.id
    BY <1>1, PublishQoS1Read
  <1>3. PICK flags \in 2..3 : flags = IF r.retain THEN 3 ELSE 2
    BY <1>1
  <1>4. Bytes(r) = Encode(TypePublish, flags, b) /\ Answer(r) = EncodePuback(r.id) /\ r.kind # "bye"
    <2>1. Bytes(r) = EncodePublishQoS1(r.topics[1], r.payload, r.id, r.retain)
      BY DEF Bytes
    <2>2. Answer(r) = EncodePuback(r.id) /\ r.kind # "bye"
      BY DEF Answer
    <2> QED BY <1>2, <1>3, <2>1, <2>2, Zenon DEF EncodePublishQoS1
  <1>5. IsPacket(Bytes(r), TypePublish, flags, b)
    <2>1. TypePublish \in 0..15 /\ flags \in 0..15
      BY DEF TypePublish
    <2> QED BY <1>1, <1>4, <2>1, EncodedIsPacket
  <1>6. ASSUME NEW rest PROVE Answers(Read(TypePublish, flags, b, rest), r)
    <2>1. PICK pkt : pkt = Read(TypePublish, flags, b, rest)
      OBVIOUS
    <2>2. pkt.type = TypePublish /\ pkt.payload = b /\ pkt.flags = flags
      BY <2>1, ReadIs
    <2>3. QoS(pkt) = 1
      BY <2>2 DEF QoS
    <2>4. DecodePublish(pkt.payload, QoS(pkt)).ok /\ DecodePublish(pkt.payload, QoS(pkt)).id = r.id
      BY <1>2, <2>2, <2>3, Zenon
    <2>5. Handle(pkt) = [ok |-> TRUE, written |-> EncodePuback(r.id)]
      <3>1. Handle(pkt) = IF ~DecodePublish(pkt.payload, QoS(pkt)).ok THEN Failed
              ELSE [ok |-> TRUE, written |-> IF QoS(pkt) = 1
                                             THEN EncodePuback(DecodePublish(pkt.payload, QoS(pkt)).id) ELSE <<>>]
        BY <2>2 DEF Handle, TypePingreq, TypeSubscribe, TypeDisconnect, TypePublish
      <3> QED BY <2>3, <2>4, <3>1, Zenon
    <2>6. Handle(pkt).ok /\ Handle(pkt).written = EncodePuback(r.id)
      BY <2>5
    <2> QED BY <1>4, <2>1, <2>6, Zenon DEF Answers
  <1> QED BY <1>5, <1>6, Zenon DEF Understands

LEMMA SubscribeUnderstood ==
  ASSUME NEW r, Proper(r), r.kind = "subscribe"
  PROVE  Understands(r) /\ 2 + Len(r.topics) <= MaxPacketSize
  <1>1. r.id \in 0..MaxUint16 /\ r.topics \in Seq(String) /\ r.qos \in Byte /\ Len(Bytes(r)) <= MaxPacketSize
    BY RequestHas, Zenon
  <1>2. PICK b, p : /\ EncodeSubscribe(r.id, r.qos, r.topics) = Encode(TypeSubscribe, 2, b)
                    /\ Filters(b, r.topics, Len(r.topics), p) /\ At(b, 0, AppendUint16(r.id))
    BY <1>1, FiltersWritten
  <1>3. PICK n \in Nat : n = Len(r.topics)
    BY <1>1
  <1>4. b \in Seq(Byte) /\ 2 + n <= Len(b)
    BY <1>2, <1>3, Zenon DEF Filters
  <1>5. DecodeSubscribe(b) = [ok |-> TRUE, id |-> r.id, topics |-> r.topics]
    <2>1. Uint16(b, 0) = r.id
      BY <1>1, <1>2, Uint16Read
    <2>2. Filters(b, r.topics, n, p)
      BY <1>2, <1>3, Zenon
    <2>3. DecodeSubscribe(b) = [ok |-> TRUE, id |-> Uint16(b, 0), topics |-> r.topics]
      BY <2>2, FiltersRead
    <2> QED BY <2>1, <2>3, Zenon
  <1>6. /\ Bytes(r) = Encode(TypeSubscribe, 2, b) /\ Answer(r) = EncodeSuback(r.id, Len(r.topics))
        /\ r.kind # "bye"
    <2>1. Bytes(r) = EncodeSubscribe(r.id, r.qos, r.topics)
      BY DEF Bytes
    <2>2. Answer(r) = EncodeSuback(r.id, Len(r.topics)) /\ r.kind # "bye"
      BY DEF Answer
    <2> QED BY <1>2, <2>1, <2>2, Zenon
  <1>7. IsPacket(Bytes(r), TypeSubscribe, 2, b)
    <2>1. TypeSubscribe \in 0..15 /\ 2 \in 0..15
      BY DEF TypeSubscribe
    <2> QED BY <1>1, <1>4, <1>6, <2>1, EncodedIsPacket
  <1>8. ASSUME NEW rest PROVE Answers(Read(TypeSubscribe, 2, b, rest), r)
    <2>1. PICK pkt : pkt = Read(TypeSubscribe, 2, b, rest)
      OBVIOUS
    <2>2. pkt.type = TypeSubscribe /\ pkt.payload = b
      BY <2>1, ReadIs
    <2>3. PICK sub : sub = DecodeSubscribe(pkt.payload) /\ sub.ok /\ sub.id = r.id /\ sub.topics = r.topics
      BY <1>5, <2>2
    <2>4. Handle(pkt) = [ok |-> TRUE, written |-> EncodeSuback(r.id, Len(r.topics))]
      BY <2>2, <2>3 DEF Handle, TypePingreq, TypeSubscribe, TypeDisconnect, TypePublish
    <2>5. Handle(pkt).ok /\ Handle(pkt).written = EncodeSuback(r.id, Len(r.topics))
      BY <2>4
    <2> QED BY <1>6, <2>1, <2>5, Zenon DEF Answers
  <1>9. 2 + Len(r.topics) <= MaxPacketSize
    <2>1. Len(b) <= MaxPacketSize
      BY <1>7, Zenon DEF IsPacket
    <2>2. MaxPacketSize \in Nat /\ Len(b) \in Nat
      BY <1>4, SMT DEF MaxPacketSize
    <2>3. 2 + n <= MaxPacketSize
      BY <1>4, <2>1, <2>2
    <2> QED BY <1>3, <2>3, Zenon
  <1> QED BY <1>7, <1>8, <1>9, Zenon DEF Understands

(* Of what is written, w, the client makes the answer to the request r,    *)
(* and t is left.                                                          *)
Heard(w, r, t) ==
  ReadPacket(w).ok /\ Hears(ReadPacket(w)) = Wanted(r) /\ ReadPacket(w).rest = t

LEMMA PacketHeard ==
  ASSUME NEW e, NEW type, NEW flags, NEW p, IsPacket(e, type, flags, p), NEW t \in Seq(Byte)
  PROVE  e \in Seq(Byte) /\ ReadPacket(e \o t) = Read(type, flags, p, t)
  <1>1. e \in Seq(Byte)
    <2>1. 0 \in 0..Len(e \o t)
      <3>1. e = Encode(type, flags, p)
        BY Zenon DEF IsPacket
      <3>2. p \in Seq(Byte) /\ type \in 0..15 /\ flags \in 0..15 /\ Sayable(Len(p))
        BY Zenon DEF IsPacket
      <3>3. <<16 * type + flags>> \in Seq(Byte)
        BY <3>2 DEF Byte
      <3>4. AppendVarint(Len(p)) \in Seq(Byte)
        BY <3>2, VarintAppended
      <3>5. e \in Seq(Byte)
        <4>1. PICK x \in Seq(Byte), y \in Seq(Byte) : x = <<16 * type + flags>> /\ y = AppendVarint(Len(p))
          BY <3>3, <3>4
        <4>2. (x \o y) \o p \in Seq(Byte)
          BY <3>2
        <4> QED BY <3>1, <4>1, <4>2, Zenon DEF Encode
      <3> QED BY <3>5
    <2> QED BY <2>1, PacketArrives
  <1>2. PICK b \in Seq(Byte) : b = e \o t
    <2>1. e \o t \in Seq(Byte)
      BY <1>1
    <2> QED BY <2>1, Zenon
  <1>3. Len(b) = Len(e) + Len(t) /\ Len(e) \in Nat /\ Len(t) \in Nat
    BY <1>1, <1>2, Concat
  <1>4. PICK k \in Nat : k = Len(b)
    BY <1>3
  <1>5. k \in 0..Len(e \o t) /\ k >= Len(e) /\ k - Len(e) = Len(t)
    <2>1. k \in 0..k /\ k >= Len(e) /\ k - Len(e) = Len(t)
      BY <1>3, <1>4
    <2> QED BY <1>2, <1>4, <2>1, Zenon
  <1>6. ReadPacket(SubSeq(e \o t, 1, k)) = Read(type, flags, p, SubSeq(t, 1, k - Len(e)))
    BY <1>5, PacketArrives
  <1>7. SubSeq(b, 1, k) = b /\ SubSeq(t, 1, Len(t)) = t
    BY <1>4, WholeSeq, Zenon
  <1> QED BY <1>1, <1>2, <1>5, <1>6, <1>7, Zenon

LEMMA PingAnswered ==
  ASSUME NEW r, r.kind = "ping", NEW t \in Seq(Byte)
  PROVE  Answer(r) \in Seq(Byte) /\ Heard(Answer(r) \o t, r, t)
  <1>1. Answer(r) = Pingresp /\ Wanted(r) = [kind |-> "ping", id |-> 0, count |-> 1]
    BY DEF Answer, Wanted
  <1>2. PICK e \in Seq(Byte) : e = Pingresp /\ Len(e) = 2 /\ e[1] = 208 /\ e[2] = 0
    <2>1. Pingresp = <<208, 0>>
      BY DEF Pingresp, TypePingresp
    <2>2. <<208, 0>> \in Seq(Byte) /\ Len(<<208, 0>>) = 2 /\ <<208, 0>>[1] = 208 /\ <<208, 0>>[2] = 0
      <3>1. 208 \in Byte /\ 0 \in Byte
        BY SMT DEF Byte
      <3> QED BY <3>1, TwoBytes, SMT
    <2> QED BY <2>1, <2>2, Zenon
  <1>3. PICK b \in Seq(Byte) : b = e \o t
    <2>1. e \o t \in Seq(Byte)
      OBVIOUS
    <2> QED BY <2>1, Zenon
  <1>4. PICK l \in Nat : l = Len(t)
    OBVIOUS
  <1>5. Len(b) = 2 + l /\ b[1] = 208 /\ b[2] = 0 /\ \A i \in 1..l : b[2 + i] = t[i]
    <2>1. Len(b) = Len(e) + Len(t) /\ At(b, 0, e) /\ At(b, Len(e), t)
      BY <1>3, Concat
    <2>2. At(b, 2, t) /\ Len(b) = 2 + l
      BY <1>2, <1>4, <2>1, Zenon
    <2>3. \A j \in 1..2 : b[0 + j] = e[j]
      BY <1>2, <2>1, Zenon DEF At
    <2>4. b[1] = 208 /\ b[2] = 0
      BY <1>2, <2>3
    <2>5. \A i \in 1..l : b[2 + i] = t[i]
      BY <1>4, <2>2, Zenon DEF At
    <2> QED BY <2>2, <2>4, <2>5
  <1>6. PICK v : v = [i \in 1..1 |-> 0]
    OBVIOUS
  <1>7. Digits(v, 1, 0)
    BY <1>6 DEF Digits, Ends, Byte
  <1>8. Starts(b, 208, v, 1)
    BY <1>5, <1>6 DEF Starts
  <1>9. Whole(b, 1, 0)
    <2>1. 0 <= MaxPacketSize
      BY SMT DEF MaxPacketSize
    <2>2. 1 + 1 + 0 <= Len(b)
      BY <1>5
    <2> QED BY <2>1, <2>2, Zenon DEF Whole
  <1>10. ReadPacket(b) = IF Whole(b, 1, 0)
                         THEN Read(208 \div 16, 208 % 16, SubSeq(b, 1 + 2, 1 + 1 + 0), SubSeq(b, 1 + 2 + 0, Len(b)))
                         ELSE Failed
    <2>1. 1 \in 1..4 /\ 0 \in Nat
      OBVIOUS
    <2> QED BY <1>7, <1>8, <2>1, PacketRead
  <1>11. SubSeq(b, 1 + 2 + 0, Len(b)) = t
    <2>1. SubSeq(b, 1 + 2 + 0, Len(b)) = [i \in 1..l |-> b[2 + i]]
      BY <1>5
    <2>2. t = [i \in 1..l |-> t[i]]
      BY <1>4
    <2> QED BY <1>5, <2>1, <2>2, Zenon
  <1>12. PICK pkt : pkt = ReadPacket(b) /\ pkt.ok /\ pkt.type = 208 \div 16 /\ pkt.rest = t
    <2>1. PICK f, x : ReadPacket(b) = Read(208 \div 16, f, x, t)
      BY <1>9, <1>10, <1>11, Zenon
    <2>2. PICK pkt : pkt = Read(208 \div 16, f, x, t)
      OBVIOUS
    <2>3. pkt.ok /\ pkt.type = 208 \div 16 /\ pkt.rest = t
      BY <2>2, ReadIs
    <2> QED BY <2>1, <2>2, <2>3, Zenon
  <1>13. pkt.type = TypePingresp
    BY <1>12 DEF TypePingresp
  <1>14. Hears(pkt) = [kind |-> "ping", id |-> 0, count |-> 1]
    BY <1>13 DEF Hears, TypePingresp, TypeSuback, TypePuback
  <1> QED BY <1>1, <1>2, <1>3, <1>12, <1>14, Zenon DEF Heard

LEMMA PublishAnswered ==
  ASSUME NEW r, Proper(r), r.kind = "publish", NEW t \in Seq(Byte)
  PROVE  Answer(r) \in Seq(Byte) /\ Heard(Answer(r) \o t, r, t)
  <1>1. r.id \in 0..MaxUint16
    BY RequestHas, Zenon
  <1>2. Answer(r) = EncodePuback(r.id) /\ Wanted(r) = [kind |-> "publish", id |-> r.id, count |-> 1]
    BY DEF Answer, Wanted
  <1>3. PICK p \in Seq(Byte) : p = AppendUint16(r.id) /\ Len(p) = 2
    BY <1>1, Uint16Read
  <1>4. Uint16(p, 0) = r.id
    <2>1. At(p, 0, p)
      BY <1>3 DEF At
    <2> QED BY <1>1, <1>3, <2>1, Uint16Read
  <1>5. IsPacket(Encode(TypePuback, 0, p), TypePuback, 0, p)
    <2>1. TypePuback \in 0..15 /\ 0 \in 0..15
      BY DEF TypePuback
    <2>2. Len(p) <= MaxPacketSize
      BY <1>3, SMT DEF MaxPacketSize
    <2> QED BY <2>1, <2>2, ShortIsPacket
  <1>6. PICK e \in Seq(Byte) : e = Encode(TypePuback, 0, p) /\ ReadPacket(e \o t) = Read(TypePuback, 0, p, t)
    BY <1>5, PacketHeard
  <1>7. e = Answer(r)
    BY <1>2, <1>3, <1>6, Zenon DEF EncodePuback
  <1>8. PICK pkt : pkt = ReadPacket(e \o t) /\ pkt.ok /\ pkt.type = TypePuback /\ pkt.payload = p /\ pkt.rest = t
    <2>1. PICK pkt : pkt = Read(TypePuback, 0, p, t)
      OBVIOUS
    <2>2. pkt.ok /\ pkt.type = TypePuback /\ pkt.payload = p /\ pkt.rest = t
      BY <2>1, ReadIs
    <2> QED BY <1>6, <2>1, <2>2, Zenon
  <1>9. Hears(pkt) = [kind |-> "publish", id |-> r.id, count |-> 1]
    <2>1. Hears(pkt) = [kind |-> "publish", id |-> Uint16(pkt.payload, 0), count |-> 1]
      BY <1>8 DEF Hears, TypePingresp, TypeSuback, TypePuback
    <2> QED BY <1>4, <1>8, <2>1, Zenon
  <1> QED BY <1>2, <1>7, <1>8, <1>9, Zenon DEF Heard

LEMMA SubscribeAnswered ==
  ASSUME NEW r, Proper(r), r.kind = "subscribe", NEW t \in Seq(Byte)
  PROVE  Answer(r) \in Seq(Byte) /\ Heard(Answer(r) \o t, r, t)
  <1>1. r.id \in 0..MaxUint16 /\ r.topics \in Seq(String) /\ r.topics # <<>>
    BY RequestHas, Zenon DEF Proper
  <1>2. PICK n \in Nat : n = Len(r.topics) /\ n # 0
    <2>1. PICK ts \in Seq(String) : ts = r.topics
      BY <1>1
    <2>2. ts # <<>> => Len(ts) # 0
      OBVIOUS
    <2>3. Len(ts) \in Nat
      OBVIOUS
    <2> QED BY <1>1, <2>1, <2>2, <2>3, Zenon
  <1>3. 2 + n <= MaxPacketSize
    BY <1>2, SubscribeUnderstood, Zenon
  <1>4. Answer(r) = EncodeSuback(r.id, n) /\ Wanted(r) = [kind |-> "subscribe", id |-> r.id, count |-> n]
    BY <1>2 DEF Answer, Wanted
  <1>5. PICK q \in Seq(Byte) : q = AppendUint16(r.id) /\ Len(q) = 2
    BY <1>1, Uint16Read
  <1>6. PICK g \in Seq(Byte) : g = [i \in 1..n |-> 0] /\ Len(g) = n
    <2>1. [i \in 1..n |-> 0] \in Seq(Byte)
      BY DEF Byte
    <2>2. Len([i \in 1..n |-> 0]) = n
      OBVIOUS
    <2> QED BY <2>1, <2>2, Zenon
  <1>7. PICK p \in Seq(Byte) : p = q \o g
    <2>1. q \o g \in Seq(Byte)
      OBVIOUS
    <2> QED BY <2>1, Zenon
  <1>8. Len(p) = 2 + n /\ At(p, 0, q)
    <2>1. Len(q \o g) = Len(q) + Len(g) /\ At(q \o g, 0, q)
      BY Concat
    <2> QED BY <1>5, <1>6, <1>7, <2>1, Zenon
  <1>9. Uint16(p, 0) = r.id
    BY <1>1, <1>5, <1>8, Uint16Read
  <1>10. PICK a : a = DecodeSuback(p) /\ a.id = r.id /\ Len(a.granted) = n
    <2>1. ~(Len(p) < 3)
      BY <1>2, <1>8
    <2>2. DecodeSuback(p) = [ok |-> TRUE, id |-> Uint16(p, 0), granted |-> SubSeq(p, 3, Len(p))]
      BY <2>1, Zenon DEF DecodeSuback
    <2>3. Len(SubSeq(p, 3, Len(p))) = n
      BY <1>8
    <2>4. DecodeSuback(p).id = Uint16(p, 0) /\ DecodeSuback(p).granted = SubSeq(p, 3, Len(p))
      BY <2>2
    <2> QED BY <1>9, <2>3, <2>4, Zenon
  <1>11. IsPacket(Encode(TypeSuback, 0, p), TypeSuback, 0, p)
    <2>1. TypeSuback \in 0..15 /\ 0 \in 0..15
      BY DEF TypeSuback
    <2> QED BY <1>3, <1>8, <2>1, ShortIsPacket
  <1>12. PICK e \in Seq(Byte) : e = Encode(TypeSuback, 0, p) /\ ReadPacket(e \o t) = Read(TypeSuback, 0, p, t)
    BY <1>11, PacketHeard
  <1>13. e = Answer(r)
    BY <1>4, <1>5, <1>6, <1>7, <1>12, Zenon DEF EncodeSuback
  <1>14. PICK pkt : pkt = ReadPacket(e \o t) /\ pkt.ok /\ pkt.type = TypeSuback /\ pkt.payload = p /\ pkt.rest = t
    <2>1. PICK pkt : pkt = Read(TypeSuback, 0, p, t)
      OBVIOUS
    <2>2. pkt.ok /\ pkt.type = TypeSuback /\ pkt.payload = p /\ pkt.rest = t
      BY <2>1, ReadIs
    <2> QED BY <1>12, <2>1, <2>2, Zenon
  <1>15. Hears(pkt) = [kind |-> "subscribe", id |-> r.id, count |-> n]
    <2>1. Hears(pkt) = [kind |-> "subscribe", id |-> DecodeSuback(pkt.payload).id,
                        count |-> Len(DecodeSuback(pkt.payload).granted)]
      BY <1>14 DEF Hears, TypePingresp, TypeSuback, TypePuback
    <2> QED BY <1>10, <1>14, <2>1, Zenon
  <1> QED BY <1>4, <1>13, <1>14, <1>15, Zenon DEF Heard

-----------------------------------------------------------------------------
(* A stream of requests, cut anywhere.                                     *)

(* Whatever its kind, a request is understood and answered as wanted.      *)
LEMMA ProperUnderstood ==
  ASSUME NEW r, Proper(r)
  PROVE  /\ Understands(r)
         /\ \A t \in Seq(Byte) : WantsAnswer(r) => Heard(Answer(r) \o t, r, t)
         /\ ~WantsAnswer(r) => Answer(r) = <<>>
         /\ Answer(r) \in Seq(Byte)
         /\ r.kind = "bye" => Answer(r) = <<>>
  <1>1. r.kind \in {"subscribe", "publish", "log", "ping", "bye"}
    BY RequestHas, Zenon
  <1>2. <<>> \in Seq(Byte)
    OBVIOUS
  <1>3. CASE r.kind = "subscribe"
    <2>1. Understands(r)
      BY <1>3, SubscribeUnderstood
    <2>2. \A t \in Seq(Byte) : Answer(r) \in Seq(Byte) /\ Heard(Answer(r) \o t, r, t)
      BY <1>3, SubscribeAnswered
    <2>3. WantsAnswer(r) /\ r.kind # "bye"
      BY <1>3 DEF WantsAnswer
    <2> QED BY <1>2, <2>1, <2>2, <2>3, Zenon
  <1>4. CASE r.kind = "publish"
    <2>1. Understands(r)
      BY <1>4, PublishUnderstood
    <2>2. \A t \in Seq(Byte) : Answer(r) \in Seq(Byte) /\ Heard(Answer(r) \o t, r, t)
      BY <1>4, PublishAnswered
    <2>3. WantsAnswer(r) /\ r.kind # "bye"
      BY <1>4 DEF WantsAnswer
    <2> QED BY <1>2, <2>1, <2>2, <2>3, Zenon
  <1>5. CASE r.kind = "ping"
    <2>1. Understands(r)
      BY <1>5, PingUnderstood
    <2>2. \A t \in Seq(Byte) : Answer(r) \in Seq(Byte) /\ Heard(Answer(r) \o t, r, t)
      BY <1>5, PingAnswered
    <2>3. WantsAnswer(r) /\ r.kind # "bye"
      BY <1>5 DEF WantsAnswer
    <2> QED BY <1>2, <2>1, <2>2, <2>3, Zenon
  <1>6. CASE r.kind = "log"
    <2>1. Understands(r)
      BY <1>6, LogUnderstood
    <2>2. Answer(r) = <<>>
      BY <1>6 DEF Answer
    <2>3. ~WantsAnswer(r)
      BY <1>6 DEF WantsAnswer
    <2> QED BY <1>2, <2>1, <2>2, <2>3, Zenon
  <1>7. CASE r.kind = "bye"
    <2>1. Understands(r)
      BY <1>7, ByeUnderstood
    <2>2. Answer(r) = <<>>
      BY <1>7 DEF Answer
    <2>3. ~WantsAnswer(r)
      BY <1>7 DEF WantsAnswer
    <2> QED BY <1>2, <2>1, <2>2, <2>3, Zenon
  <1> QED BY <1>1, <1>3, <1>4, <1>5, <1>6, <1>7, Zenon

LEMMA FailedIsStuck ==
  ASSUME NEW b, ReadPacket(b) = Failed
  PROVE  Stuck(b)
  <1>1. ~ReadPacket(b).ok
    BY DEF Failed
  <1> QED BY <1>1, Zenon DEF Stuck

(* A request in front of t, in a stream that is cut after j bytes.         *)
LEMMA RequestArrives ==
  ASSUME NEW r, Proper(r), NEW t \in Seq(Byte), NEW j \in 0..Len(Bytes(r) \o t)
  PROVE  /\ Bytes(r) \in Seq(Byte) /\ Len(Bytes(r)) >= 2
         /\ j >= Len(Bytes(r)) /\ r.kind # "bye" =>
              Handled(SubSeq(Bytes(r) \o t, 1, j), Answer(r), SubSeq(t, 1, j - Len(Bytes(r))))
         /\ j >= Len(Bytes(r)) /\ r.kind = "bye" => Stuck(SubSeq(Bytes(r) \o t, 1, j))
         /\ j < Len(Bytes(r)) => Stuck(SubSeq(Bytes(r) \o t, 1, j))
  <1>1. Understands(r)
    BY ProperUnderstood
  <1>2. PICK type, flags, p : /\ IsPacket(Bytes(r), type, flags, p)
                              /\ \A rest : Answers(Read(type, flags, p, rest), r)
    BY <1>1, Zenon DEF Understands
  <1>3. PICK e : e = Bytes(r)
    OBVIOUS
  <1>4. IsPacket(e, type, flags, p) /\ j \in 0..Len(e \o t)
    BY <1>2, <1>3, Zenon
  <1>5. /\ e \in Seq(Byte) /\ Len(e) >= 2
        /\ j < Len(e) => ReadPacket(SubSeq(e \o t, 1, j)) = Failed
        /\ j >= Len(e) => ReadPacket(SubSeq(e \o t, 1, j)) = Read(type, flags, p, SubSeq(t, 1, j - Len(e)))
    BY <1>4, PacketArrives
  <1>6. PICK b, q : b = SubSeq(e \o t, 1, j) /\ q = SubSeq(t, 1, j - Len(e))
    OBVIOUS
  <1>7. (j < Len(e) => ReadPacket(b) = Failed) /\ (j >= Len(e) => ReadPacket(b) = Read(type, flags, p, q))
    BY <1>5, <1>6, Zenon
  <1>8. ASSUME j < Len(e) PROVE Stuck(b)
    BY <1>7, <1>8, FailedIsStuck
  <1>9. PICK pkt : pkt = Read(type, flags, p, q)
    OBVIOUS
  <1>10. pkt.ok /\ pkt.rest = q
    BY <1>9, ReadIs
  <1>11. Answers(pkt, r)
    BY <1>2, <1>9, Zenon
  <1>12. ASSUME j >= Len(e), r.kind # "bye" PROVE Handled(b, Answer(r), q)
    BY <1>7, <1>9, <1>10, <1>11, <1>12, Zenon DEF Handled, Answers
  <1>13. ASSUME j >= Len(e), r.kind = "bye" PROVE Stuck(b)
    BY <1>7, <1>9, <1>11, <1>13, Zenon DEF Stuck, Answers
  <1> QED BY <1>3, <1>5, <1>6, <1>8, <1>12, <1>13, Zenon

LEMMA TogetherWhole ==
  ASSUME NEW S, NEW n \in Nat, NEW f, NEW g, NEW u, Together(S, n, f, g, u)
  PROVE  g[n] = u[0]
  <1>1. n \in 0..n
    OBVIOUS
  <1>2. g \in [0..n -> Seq(S)] /\ u[n] = <<>> /\ g[n] \o u[n] = u[0]
    BY <1>1, Zenon DEF Together, Complete
  <1>3. PICK x \in Seq(S) : x = g[n]
    BY <1>1, <1>2
  <1>4. x \o <<>> = x
    OBVIOUS
  <1> QED BY <1>2, <1>3, <1>4, Zenon

LEMMA NothingIsStuck == Stuck(<<>>)
  <1>1. ReadPacket(<<>>) = Failed
    BY Zenon DEF ReadPacket
  <1> QED BY <1>1, FailedIsStuck

(* Of the lengths l, which grow, those of number m and less are within k.  *)
Grows(l, n) ==
  l \in [0..n -> Nat] /\ l[0] = 0 /\ \A i, j \in 0..n : i <= j => l[i] <= l[j]

WithinUpto(l, n, k, m) ==
  l[m] <= k /\ (m < n => k < l[m + 1]) /\ {i \in 1..n : l[i] <= k} = 1..m

(* Of growing lengths, those within k are the first m, for some m.         *)
LEMMA LastWithin ==
  ASSUME NEW n \in Nat, NEW k \in Nat, NEW l, Grows(l, n)
  PROVE  \E m \in 0..n : WithinUpto(l, n, k, m)
  <1> DEFINE Upto(j) == \E m \in 0..j : l[m] <= k /\ (m < j => k < l[m + 1])
             T == {j \in Nat : j <= n => Upto(j)}
  <1>0. l \in [0..n -> Nat] /\ l[0] = 0 /\ \A i, j \in 0..n : i <= j => l[i] <= l[j]
    BY Zenon DEF Grows
  <1>1. 0 \in T
    BY <1>0
  <1>2. ASSUME NEW j \in T PROVE j + 1 \in T
    <2>1. ASSUME j + 1 <= n PROVE Upto(j + 1)
      <3>1. PICK m \in 0..j : l[m] <= k /\ (m < j => k < l[m + 1])
        BY <2>1
      <3>2. CASE l[j + 1] <= k
        BY <3>2
      <3>3. CASE ~(l[j + 1] <= k)
        <4>1. l[j + 1] \in Nat
          BY <1>0, <2>1
        <4>2. k < l[j + 1]
          BY <3>3, <4>1
        <4>3. m < j + 1 => k < l[m + 1]
          BY <3>1, <4>2
        <4> QED BY <3>1, <4>3
      <3> QED BY <3>2, <3>3
    <2> HIDE DEF Upto
    <2> QED BY <2>1
  <1> HIDE DEF Upto
  <1>3. T = Nat
    <2>1. T \in SUBSET Nat
      OBVIOUS
    <2> HIDE DEF T
    <2> QED BY <1>1, <1>2, <2>1, Induction
  <1>4. Upto(n)
    BY <1>3
  <1>5. PICK m \in 0..n : l[m] <= k /\ (m < n => k < l[m + 1])
    BY <1>4 DEF Upto
  <1>6. ASSUME NEW i \in 1..n PROVE l[i] <= k <=> i \in 1..m
    <2>1. l[i] \in Nat /\ l[m] \in Nat
      BY <1>0
    <2>2. CASE i <= m
      <3>1. l[i] <= l[m]
        BY <1>0, <2>2
      <3> QED BY <1>5, <2>1, <2>2, <3>1
    <2>3. CASE i > m
      <3>1. m < n /\ m + 1 \in 0..n /\ m + 1 <= i
        BY <2>3
      <3>2. l[m + 1] <= l[i] /\ l[m + 1] \in Nat /\ k < l[m + 1]
        BY <1>0, <1>5, <3>1
      <3> QED BY <2>1, <2>3, <3>2
    <2> QED BY <2>2, <2>3
  <1>7. {i \in 1..n : l[i] <= k} = 1..m
    BY <1>6
  <1>8. WithinUpto(l, n, k, m)
    BY <1>5, <1>7, Zenon DEF WithinUpto
  <1> QED BY <1>8

(* The requests q, number n at most a DISCONNECT.                          *)
Asks(q, n) ==
  \A i \in 1..n : Proper(q[i]) /\ (q[i].kind = "bye" => i = n)

(* What is written, w, read by a client that has asked q[1..m]: v is what  *)
(* is left of it.                                                          *)
Reads(q, m, w, v) ==
  /\ v \in [0..m -> Seq(Byte)] /\ v[0] = w /\ v[m] = <<>>
  /\ \A i \in 1..m : /\ WantsAnswer(q[i]) => Heard(v[i - 1], q[i], v[i])
                     /\ ~WantsAnswer(q[i]) => v[i] = v[i - 1]

(* The answers to the first m requests, read one after the other.          *)
LEMMA AnswersTogether ==
  ASSUME NEW n \in Nat, NEW q, Asks(q, n), NEW m \in 0..n
  PROVE  \E f, a, v : /\ f = [i \in 1..m |-> Answer(q[i])] /\ Together(Byte, m, f, a, v)
                      /\ Reads(q, m, a[m], v)
  <1>1. \A i \in 1..m : Proper(q[i])
    BY DEF Asks
  <1>2. PICK f : f = [i \in 1..m |-> Answer(q[i])]
    OBVIOUS
  <1>3. f \in [1..m -> Seq(Byte)]
    BY <1>1, <1>2, ProperUnderstood, Zenon
  <1>4. PICK a, v : Together(Byte, m, f, a, v)
    <2>1. m \in Nat
      OBVIOUS
    <2> QED BY <1>3, <2>1, PartsTogether
  <1>5. a[m] = v[0]
    BY <1>4, TogetherWhole
  <1>6. v \in [0..m -> Seq(Byte)] /\ v[m] = <<>> /\ \A i \in 1..m : v[i - 1] = f[i] \o v[i]
    BY <1>4, Zenon DEF Together
  <1>7. ASSUME NEW i \in 1..m
        PROVE  /\ WantsAnswer(q[i]) => Heard(v[i - 1], q[i], v[i])
               /\ ~WantsAnswer(q[i]) => v[i] = v[i - 1]
    <2>1. f[i] = Answer(q[i])
      BY <1>2
    <2>2. PICK t \in Seq(Byte) : t = v[i]
      BY <1>6
    <2>3. PICK r : r = q[i]
      OBVIOUS
    <2>4. Proper(r)
      BY <1>1, <2>3, Zenon
    <2>5. v[i - 1] = Answer(r) \o t
      BY <1>6, <2>1, <2>2, <2>3, Zenon
    <2>6. WantsAnswer(r) => Heard(Answer(r) \o t, r, t)
      BY <2>4, ProperUnderstood
    <2>7. ~WantsAnswer(r) => Answer(r) = <<>>
      BY <2>4, ProperUnderstood
    <2>8. <<>> \o t = t
      OBVIOUS
    <2> QED BY <2>2, <2>3, <2>5, <2>6, <2>7, <2>8, Zenon
  <1>8. Reads(q, m, a[m], v)
    BY <1>5, <1>6, <1>7, Zenon DEF Reads
  <1> QED BY <1>2, <1>4, <1>8

(* The packets e of the requests, one after the other: g by then and u     *)
(* still to come.                                                          *)
Stream(q, n, e, g, u) ==
  Asks(q, n) /\ e = [i \in 1..n |-> Bytes(q[i])] /\ Together(Byte, n, e, g, u) /\ Lengths(n, e, g, u)

LEMMA AsksStream ==
  ASSUME NEW n \in Nat, NEW q, Asks(q, n)
  PROVE  \E e, g, u : Stream(q, n, e, g, u)
  <1>1. PICK e : e = [i \in 1..n |-> Bytes(q[i])]
    OBVIOUS
  <1>2. ASSUME NEW i \in 1..n PROVE e[i] \in Seq(Byte) /\ Len(e[i]) >= 2
    <2>1. PICK r : r = q[i]
      OBVIOUS
    <2>2. Proper(r)
      BY <2>1, Zenon DEF Asks
    <2>3. Bytes(r) \in Seq(Byte) /\ Len(Bytes(r)) >= 2
      <3>1. Understands(r)
        BY <2>2, ProperUnderstood
      <3>2. PICK type, flags, p : IsPacket(Bytes(r), type, flags, p)
        BY <3>1, Zenon DEF Understands
      <3>3. PICK b : b = Bytes(r)
        OBVIOUS
      <3>4. IsPacket(b, type, flags, p)
        BY <3>2, <3>3, Zenon
      <3>5. <<>> \in Seq(Byte)
        OBVIOUS
      <3>6. b \in Seq(Byte)
        BY <3>4, <3>5, PacketHeard
      <3>7. 0 \in 0..Len(b \o <<>>)
        BY <3>6
      <3>8. Len(b) >= 2
        BY <3>4, <3>5, <3>7, PacketArrives
      <3> QED BY <3>3, <3>6, <3>8, Zenon
    <2>4. e[i] = Bytes(r)
      BY <1>1, <2>1
    <2> QED BY <2>3, <2>4, Zenon
  <1>3. e \in [1..n -> Seq(Byte)]
    BY <1>1, <1>2, Zenon
  <1>4. PICK g, u : Together(Byte, n, e, g, u)
    BY <1>3, PartsTogether
  <1>5. Lengths(n, e, g, u)
    BY <1>2, <1>4, PartsLong
  <1>6. Stream(q, n, e, g, u)
    BY <1>1, <1>4, <1>5, Zenon DEF Stream
  <1> QED BY <1>6

(* Of a stream cut after k bytes, what is left after i requests.           *)
Left(g, u, k, i) == SubSeq(u[i], 1, k - Len(g[i]))

(* At request i of a cut stream: it is handled, or the loop ends.          *)
LEMMA StepOfStream ==
  ASSUME NEW n \in Nat, NEW q, NEW e, NEW g, NEW u, Stream(q, n, e, g, u),
         NEW k \in 0..Len(u[0]), NEW i \in 1..n, Len(g[i - 1]) <= k
  PROVE  /\ Len(g[i]) <= k /\ q[i].kind # "bye" =>
              Handled(Left(g, u, k, i - 1), Answer(q[i]), Left(g, u, k, i))
         /\ Len(g[i]) <= k /\ q[i].kind = "bye" => Stuck(Left(g, u, k, i - 1))
         /\ k < Len(g[i]) => Stuck(Left(g, u, k, i - 1))
  <1>1. /\ Asks(q, n) /\ e = [j \in 1..n |-> Bytes(q[j])]
        /\ Together(Byte, n, e, g, u) /\ Lengths(n, e, g, u)
    BY Zenon DEF Stream
  <1>2. i \in 0..n /\ i - 1 \in 0..n
    OBVIOUS
  <1>3. PICK r : r = q[i]
    OBVIOUS
  <1>4. Proper(r)
    BY <1>1, <1>3, Zenon DEF Asks
  <1>5. e[i] = Bytes(r)
    BY <1>1, <1>3
  <1>6. u[i - 1] = e[i] \o u[i] /\ u \in [0..n -> Seq(Byte)]
    BY <1>1, Zenon DEF Together
  <1>7. PICK t \in Seq(Byte) : t = u[i]
    BY <1>2, <1>6
  <1>8. /\ Len(g[i - 1]) \in Nat /\ Len(g[i]) \in Nat /\ Len(g[i]) = Len(g[i - 1]) + Len(e[i])
        /\ Len(g[i - 1]) + Len(u[i - 1]) = Len(u[0]) /\ Len(u[i - 1]) \in Nat /\ Len(u[0]) \in Nat
    <2>1. 0 \in 0..n
      OBVIOUS
    <2> QED BY <1>1, <1>2, <2>1, Zenon DEF Lengths
  <1>9. PICK l \in Nat, m \in Nat, z \in Nat, w \in Nat :
          l = Len(g[i - 1]) /\ m = Len(g[i]) /\ z = Len(u[i - 1]) /\ w = Len(u[0])
    BY <1>8
  <1>10. m = l + Len(e[i]) /\ l + z = w /\ l <= k /\ k \in 0..w
    BY <1>8, <1>9, Zenon
  <1>11. PICK j \in Nat : j = k - l /\ j <= z
    BY <1>10
  <1>12. PICK x : x = Bytes(r)
    OBVIOUS
  <1>13. u[i - 1] = x \o t /\ m = l + Len(x)
    BY <1>5, <1>6, <1>7, <1>10, <1>12, Zenon
  <1>14. j \in 0..Len(x \o t)
    <2>1. j \in 0..z
      BY <1>11
    <2> QED BY <1>9, <1>13, <2>1, Zenon
  <1>15. /\ x \in Seq(Byte) /\ Len(x) >= 2
         /\ j >= Len(x) /\ r.kind # "bye" => Handled(SubSeq(x \o t, 1, j), Answer(r), SubSeq(t, 1, j - Len(x)))
         /\ j >= Len(x) /\ r.kind = "bye" => Stuck(SubSeq(x \o t, 1, j))
         /\ j < Len(x) => Stuck(SubSeq(x \o t, 1, j))
    <2>1. j \in 0..Len(Bytes(r) \o t)
      BY <1>12, <1>14, Zenon
    <2> QED BY <1>4, <1>12, <2>1, RequestArrives, Zenon
  <1>16. Len(x) \in Nat
    BY <1>15
  <1>17. (m <= k <=> j >= Len(x)) /\ (k < m <=> j < Len(x)) /\ j - Len(x) = k - m
    <2>1. PICK y \in Nat : y = Len(x)
      BY <1>16
    <2>2. k \in Nat /\ m = l + y /\ j = k - l
      BY <1>10, <1>11, <1>13, <2>1
    <2>3. (m <= k <=> j >= y) /\ (k < m <=> j < y) /\ j - y = k - m
      BY <2>2
    <2> QED BY <2>1, <2>3, Zenon
  <1>18. Left(g, u, k, i - 1) = SubSeq(x \o t, 1, j)
    BY <1>9, <1>11, <1>13, Zenon DEF Left
  <1>19. Left(g, u, k, i) = SubSeq(t, 1, j - Len(x))
    BY <1>7, <1>9, <1>17, Zenon DEF Left
  <1> QED BY <1>3, <1>9, <1>15, <1>17, <1>18, <1>19, Zenon

(* The server answers the requests that came through whole, and a client   *)
(* that reads what is written makes an answer of each.                     *)
LEMMA RequestsHandled ==
  ASSUME NEW n \in Nat, NEW q, NEW e, NEW g, NEW u, Stream(q, n, e, g, u),
         NEW k \in 0..Len(u[0])
  PROVE  \E m, v : /\ m \in 0..n /\ {i \in 1..n : Len(g[i]) <= k} = 1..m
                   /\ Reads(q, m, Conversation(SubSeq(u[0], 1, k)), v)
  <1>1. Asks(q, n) /\ Together(Byte, n, e, g, u) /\ Lengths(n, e, g, u)
    BY Zenon DEF Stream
  <1>2. /\ g \in [0..n -> Seq(Byte)] /\ u \in [0..n -> Seq(Byte)] /\ g[0] = <<>> /\ u[n] = <<>>
    BY <1>1, Zenon DEF Together
  <1>3. PICK l : l = [i \in 0..n |-> Len(g[i])]
    OBVIOUS
  <1>4. /\ \A i \in 0..n : l[i] = Len(g[i]) /\ l[i] \in Nat /\ 2 * i <= l[i]
                           /\ Len(u[i]) \in Nat /\ l[i] + Len(u[i]) = Len(u[0])
        /\ \A i, j \in 0..n : i <= j => l[i] <= l[j]
    BY <1>1, <1>3, Zenon DEF Lengths
  <1>5. l \in [0..n -> Nat] /\ l[0] = 0 /\ 0 \in 0..n /\ n \in 0..n
    <2>1. 0 \in 0..n /\ n \in 0..n /\ Len(<<>>) = 0
      OBVIOUS
    <2>2. l[0] = 0
      BY <1>2, <1>4, <2>1, Zenon
    <2>3. l \in [0..n -> Nat]
      BY <1>3, <1>4, Zenon
    <2> QED BY <2>1, <2>2, <2>3
  <1>6. Len(u[0]) \in Nat /\ l[n] = Len(u[0])
    <2>1. Len(<<>>) = 0
      OBVIOUS
    <2>2. l[n] \in Nat /\ l[n] + 0 = Len(u[0]) /\ Len(u[0]) \in Nat
      BY <1>2, <1>4, <1>5, <2>1, Zenon
    <2> QED BY <2>2
  <1>7. PICK L \in Nat : L = Len(u[0])
    BY <1>6
  <1>8. k \in Nat /\ k <= L
    BY <1>7
  <1>9. PICK m \in 0..n : l[m] <= k /\ (m < n => k < l[m + 1]) /\ {i \in 1..n : l[i] <= k} = 1..m
    <2>1. Grows(l, n)
      BY <1>4, <1>5, Zenon DEF Grows
    <2>2. PICK m \in 0..n : WithinUpto(l, n, k, m)
      BY <1>8, <2>1, LastWithin
    <2> QED BY <2>2, Zenon DEF WithinUpto
  <1>10. {i \in 1..n : Len(g[i]) <= k} = 1..m
    <2>1. \A i \in 1..n : l[i] = Len(g[i])
      BY <1>4
    <2> QED BY <1>9, <2>1, Zenon
  <1>11. PICK f, a, v : /\ f = [i \in 1..m |-> Answer(q[i])] /\ Together(Byte, m, f, a, v)
                        /\ Reads(q, m, a[m], v)
    BY <1>1, AnswersTogether
  <1>12. a[0] = <<>> /\ a \in [0..m -> Seq(Byte)] /\ \A i \in 1..m : a[i] = a[i - 1] \o f[i]
    BY <1>11, Zenon DEF Together
  <1>13. PICK r : r = [i \in 0..n |-> Left(g, u, k, i)]
    OBVIOUS
  <1>14. r[0] = SubSeq(u[0], 1, k) /\ Len(r[0]) = k
    <2>1. PICK x \in Seq(Byte) : x = u[0]
      BY <1>2, <1>5
    <2>2. k <= Len(x)
      BY <1>7, <1>8, <2>1
    <2>3. Len(SubSeq(x, 1, k)) = k
      BY <1>8, <2>2
    <2>4. k - 0 = k
      BY <1>8
    <2>5. r[0] = SubSeq(u[0], 1, k - Len(g[0])) /\ Len(g[0]) = 0
      BY <1>4, <1>5, <1>13, Zenon DEF Left
    <2> QED BY <2>1, <2>3, <2>4, <2>5, Zenon
  <1>15. ASSUME NEW i \in 1..n, l[i - 1] <= k
         PROVE  /\ l[i] <= k /\ q[i].kind # "bye" => Handled(r[i - 1], Answer(q[i]), r[i])
                /\ l[i] <= k /\ q[i].kind = "bye" => Stuck(r[i - 1])
                /\ k < l[i] => Stuck(r[i - 1])
    <2>1. i \in 0..n /\ i - 1 \in 0..n
      OBVIOUS
    <2>2. Len(g[i - 1]) <= k /\ l[i] = Len(g[i])
      BY <1>4, <1>15, <2>1, Zenon
    <2>3. r[i] = Left(g, u, k, i) /\ r[i - 1] = Left(g, u, k, i - 1)
      BY <1>13, <2>1, Zenon
    <2> QED BY <2>2, <2>3, StepOfStream, Zenon
  <1>16. ASSUME NEW i \in 1..m PROVE i \in 1..n /\ l[i] <= k /\ l[i - 1] <= k
    <2>1. i \in 1..n /\ i - 1 \in 0..n /\ i <= m /\ i - 1 <= m /\ m \in 0..n /\ i \in 0..n
      OBVIOUS
    <2>2. l[i] <= l[m] /\ l[i - 1] <= l[m] /\ l[i] \in Nat /\ l[i - 1] \in Nat /\ l[m] \in Nat
      BY <1>4, <2>1
    <2> QED BY <1>8, <1>9, <2>1, <2>2
  <1>17. ASSUME NEW j \in 0..m, \A i \in 1..j : q[i].kind # "bye", Stuck(r[j])
         PROVE  Conversation(SubSeq(u[0], 1, k)) = a[j]
    <2>1. \A i \in 1..j : i \in 1..m /\ f[i] = Answer(q[i])
      BY <1>11
    <2>2. \A i \in 1..j : Handled(r[i - 1], f[i], r[i])
      BY <1>15, <1>16, <1>17, <2>1, Zenon
    <2>3. Turns(j, r, f, a)
      BY <1>12, <1>17, <2>1, <2>2, Zenon DEF Turns
    <2>4. 2 * j <= k
      <3>1. j \in 0..n /\ m \in 0..n /\ j <= m
        OBVIOUS
      <3>2. 2 * j <= l[j] /\ l[j] <= l[m] /\ l[j] \in Nat /\ l[m] \in Nat
        BY <1>4, <3>1
      <3> QED BY <1>8, <1>9, <3>1, <3>2
    <2>5. j \in Nat /\ Len(r[0]) \in Nat /\ 2 * j <= Len(r[0])
      BY <1>8, <1>14, <2>4
    <2>6. Conversation(r[0]) = a[j]
      BY <2>3, <2>5, Conversed
    <2> QED BY <1>14, <2>6, Zenon
  <1>18. CASE m # 0 /\ q[m].kind = "bye"
    <2>1. m \in 1..m /\ m \in 1..n /\ m - 1 \in 0..m /\ \A i \in 1..(m - 1) : i \in 1..n /\ i # n
      BY <1>18
    <2>2. \A i \in 1..(m - 1) : q[i].kind # "bye"
      BY <1>1, <2>1, Zenon DEF Asks
    <2>3. Stuck(r[m - 1])
      BY <1>15, <1>16, <1>18, <2>1, Zenon
    <2>4. Conversation(SubSeq(u[0], 1, k)) = a[m - 1]
      BY <1>17, <2>1, <2>2, <2>3, Zenon
    <2>5. a[m] = a[m - 1]
      <3>1. Proper(q[m])
        BY <1>1, <2>1, Zenon DEF Asks
      <3>2. PICK s : s = q[m]
        OBVIOUS
      <3>3. Answer(s) = <<>>
        BY <1>18, <3>1, <3>2, ProperUnderstood
      <3>4. f[m] = <<>>
        BY <1>11, <2>1, <3>2, <3>3, Zenon
      <3>5. PICK x \in Seq(Byte) : x = a[m - 1]
        BY <1>12, <2>1
      <3>6. x \o <<>> = x
        OBVIOUS
      <3> QED BY <1>12, <2>1, <3>4, <3>5, <3>6, Zenon
    <2> QED BY <1>10, <1>11, <2>4, <2>5, Zenon
  <1>19. CASE ~(m # 0 /\ q[m].kind = "bye")
    <2>1. \A i \in 1..m : q[i].kind # "bye"
      <3>1. ASSUME NEW i \in 1..m, q[i].kind = "bye" PROVE FALSE
        <4>1. i \in 1..n
          OBVIOUS
        <4>2. i = n
          BY <1>1, <3>1, <4>1, Zenon DEF Asks
        <4>3. i = m /\ m # 0
          BY <4>2
        <4> QED BY <1>19, <3>1, <4>3, Zenon
      <3> QED BY <3>1
    <2>2. m \in 0..m
      OBVIOUS
    <2>3. Stuck(r[m])
      <3>1. CASE m < n
        <4>1. m + 1 \in 1..n /\ (m + 1) - 1 = m
          BY <3>1
        <4>2. l[(m + 1) - 1] <= k /\ k < l[m + 1]
          BY <1>9, <3>1, <4>1, Zenon
        <4> QED BY <1>15, <4>1, <4>2, Zenon
      <3>2. CASE ~(m < n)
        <4>1. m = n
          BY <3>2
        <4>2. k - l[n] = 0
          BY <1>6, <1>7, <1>8, <1>9, <4>1
        <4>3. r[n] = SubSeq(<<>>, 1, 0)
          BY <1>2, <1>4, <1>5, <1>13, <4>2, Zenon DEF Left
        <4>4. SubSeq(<<>>, 1, 0) = <<>>
          OBVIOUS
        <4> QED BY <4>1, <4>3, <4>4, NothingIsStuck, Zenon
      <3> QED BY <3>1, <3>2
    <2>4. Conversation(SubSeq(u[0], 1, k)) = a[m]
      BY <1>17, <2>1, <2>2, <2>3, Zenon
    <2> QED BY <1>10, <1>11, <2>4, Zenon
  <1> QED BY <1>18, <1>19

-----------------------------------------------------------------------------
(* What is read of a stream that does not begin with a whole CONNECT.      *)
LEMMA NoConnect ==
  ASSUME NEW b, NEW c, Comes(b, c), c # <<>>, c[1] \div 16 # TypeConnect \/ Endless(c)
  PROVE  LET pkt == ReadPacket(b) IN ~pkt.ok \/ pkt.type # TypeConnect
  <1>1. PICK pkt : pkt = ReadPacket(b)
    OBVIOUS
  <1>2. b \in Seq(Byte) /\ c \in Seq(Byte) /\ \A i \in 1..Len(b) : i <= Len(c) => b[i] = c[i]
    BY Zenon DEF Comes
  <1>3. Len(b) \in Nat /\ Len(c) \in Nat /\ 1 <= Len(c) /\ c[1] \in Byte
    BY <1>2
  <1>4. CASE c[1] \div 16 # TypeConnect
    <2>1. CASE b = <<>>
      <3>1. pkt = Failed
        BY <1>1, <2>1, Zenon DEF ReadPacket
      <3> QED BY <1>1, <3>1 DEF Failed
    <2>2. CASE b # <<>>
      <3>1. b[1] = c[1]
        BY <1>2, <1>3, <2>2
      <3>2. pkt = Failed \/ \E flags, payload, rest : pkt = Read(b[1] \div 16, flags, payload, rest)
        BY <1>1, Zenon DEF ReadPacket, Read
      <3>3. ASSUME NEW flags, NEW payload, NEW rest PROVE Read(b[1] \div 16, flags, payload, rest).type = b[1] \div 16
        BY Zenon DEF Read
      <3>4. ~Failed.ok
        BY DEF Failed
      <3> QED BY <1>1, <1>4, <3>1, <3>2, <3>3, <3>4, Zenon
    <2> QED BY <2>1, <2>2
  <1>5. CASE Endless(c)
    <2>1. PICK n : n \in Nat /\ n > MaxPacketSize /\ Sayable(n) /\ IsPrefix(<<c[1]>> \o AppendVarint(n), c)
      <3>1. PICK n \in (MaxPacketSize + 1)..MaxVarint : IsPrefix(<<c[1]>> \o AppendVarint(n), c)
        BY <1>5, Zenon DEF Endless
      <3>2. n \in Nat /\ n > MaxPacketSize /\ Sayable(n)
        <4>1. MaxPacketSize \in Nat
          BY SMT DEF MaxPacketSize
        <4>2. n \in Nat /\ n > MaxPacketSize /\ n <= MaxVarint
          BY <4>1
        <4>3. Sayable(n)
          BY <4>2, SMT DEF Sayable, MaxVarint
        <4> QED BY <4>2, <4>3
      <3> QED BY <3>1, <3>2
    <2>2. PICK q : q = <<c[1]>> \o AppendVarint(n)
      OBVIOUS
    <2>3. q \in Seq(Byte)
      <3>1. AppendVarint(n) \in Seq(Byte) /\ <<c[1]>> \in Seq(Byte)
        BY <1>3, <2>1, VarintAppended
      <3> QED BY <2>2, <3>1, Concat
    <2>4. At(c, 0, q)
      <3>1. Len(q) <= Len(c) /\ SubSeq(q, 1, Len(q)) = SubSeq(c, 1, Len(q)) /\ Len(q) \in Nat
        BY <2>1, <2>2, <2>3 DEF IsPrefix
      <3>2. \A i \in 1..Len(q) : SubSeq(q, 1, Len(q))[i] = q[i] /\ SubSeq(c, 1, Len(q))[i] = c[i]
        BY <1>2, <2>3, <3>1
      <3> QED BY <1>3, <3>1, <3>2 DEF At
    <2>5. PICK d \in 1..4 : Digits(AppendVarint(n), d, n) /\ Starts(b, c[1], AppendVarint(n), d)
      BY <1>3, <2>1, <2>2, <2>4, Opened
    <2>6. ~Whole(b, d, n)
      <3>1. ~(n <= MaxPacketSize)
        <4>1. MaxPacketSize \in Nat
          BY SMT DEF MaxPacketSize
        <4> QED BY <2>1, <4>1
      <3> QED BY <3>1, Zenon DEF Whole
    <2>7. ReadPacket(b) = Failed
      BY <2>1, <2>5, <2>6, PacketRead
    <2> QED BY <2>7 DEF Failed
  <1> QED BY <1>4, <1>5

Unread == [identity |-> Nil, rest |-> <<>>]

LEMMA HandshakeFails ==
  ASSUME NEW b, ~ReadPacket(b).ok \/ ReadPacket(b).type # TypeConnect
  PROVE  HandshakeOf(b).identity = Nil /\ HandshakeOf(b).rest = <<>>
  <1>1. HandshakeOf(b) = Unread
    BY Zenon DEF HandshakeOf, Unread
  <1> QED BY <1>1 DEF Unread

LEMMA HandshakeSucceeds ==
  ASSUME NEW o \in ConnectOptions, NEW d, Presents(o, d),
         NEW b, NEW rest, ReadPacket(b) = Read(TypeConnect, 0, ConnectBody(o), rest)
  PROVE  HandshakeOf(b).identity = d /\ HandshakeOf(b).rest = rest
  <1>1. PICK x : x = [ok |-> TRUE, keepAlive |-> o.keepAlive, clientID |-> o.clientID,
                      username |-> o.username, password |-> o.password]
    OBVIOUS
  <1>2. x.ok /\ x.clientID = o.clientID /\ x.username = o.username
    BY <1>1
  <1>3. DecodeConnect(ConnectBody(o)) = x
    BY <1>1, ConnectRead
  <1>4. PICK pkt : pkt = ReadPacket(b)
    OBVIOUS
  <1>5. pkt.ok /\ pkt.type = TypeConnect /\ pkt.payload = ConnectBody(o) /\ pkt.rest = rest
    BY <1>4, ReadIs
  <1>6. HandshakeOf(b) = [identity |-> IdentityFromConnect(x), rest |-> pkt.rest]
    BY <1>2, <1>3, <1>4, <1>5, Zenon DEF HandshakeOf
  <1>7. IdentityFromConnect(x) = d
    BY <1>2, IdentityRead
  <1> QED BY <1>5, <1>6, <1>7

(* What the requests q of a client look like, one after the other.         *)
Sends(q, n, e, g, u) ==
  /\ n = Len(q) /\ Asks(q, n) /\ Stream(q, n, e, g, u)
  /\ FlattenSeq([i \in DOMAIN q |-> Bytes(q[i])]) = u[0]
  /\ \A m \in 0..n : FlattenSeq([i \in 1..m |-> Bytes(q[i])]) = g[m]

LEMMA RequestsSent ==
  ASSUME NEW c \in DOMAIN Client
  PROVE  \E n, e, g, u : n \in Nat /\ Sends(Client[c].asks, n, e, g, u) /\ u[0] \in Seq(Byte)
  <1>1. PICK q : q = Client[c].asks
    OBVIOUS
  <1>2. /\ q \in Seq(Request)
        /\ \A i \in DOMAIN q : Proper(q[i]) /\ (q[i].kind = "bye" => i = Len(q))
    BY <1>1, ClientAssumption, Zenon
  <1>3. PICK n \in Nat : n = Len(q) /\ DOMAIN q = 1..n
    BY <1>2
  <1>4. Asks(q, n)
    BY <1>2, <1>3, Zenon DEF Asks
  <1>5. PICK e, g, u : Stream(q, n, e, g, u)
    BY <1>4, AsksStream
  <1>6. e = [i \in 1..n |-> Bytes(q[i])] /\ Together(Byte, n, e, g, u)
    BY <1>5, Zenon DEF Stream
  <1>7. ASSUME NEW m \in 0..n PROVE FlattenSeq([i \in 1..m |-> Bytes(q[i])]) = g[m]
    <2>1. \A i \in 1..m : i \in 1..n
      OBVIOUS
    <2>2. \A i \in 1..m : e[i] = Bytes(q[i])
      BY <1>6, <2>1, Zenon
    <2>3. First(e, m) = [i \in 1..m |-> Bytes(q[i])]
      BY <2>2, Zenon DEF First
    <2>4. FlattenSeq(First(e, m)) = g[m]
      BY <1>6, Flattened
    <2> QED BY <2>3, <2>4, Zenon
  <1>8. n \in 0..n /\ 0 \in 0..n
    OBVIOUS
  <1>9. g[n] = u[0]
    BY <1>6, TogetherWhole
  <1>10. FlattenSeq([i \in DOMAIN q |-> Bytes(q[i])]) = u[0]
    BY <1>3, <1>7, <1>8, <1>9, Zenon
  <1>11. u \in [0..n -> Seq(Byte)]
    BY <1>6, Zenon DEF Together
  <1>12. u[0] \in Seq(Byte)
    BY <1>8, <1>11
  <1>13. Sends(q, n, e, g, u)
    BY <1>3, <1>4, <1>5, <1>7, <1>10, Zenon DEF Sends
  <1> QED BY <1>1, <1>12, <1>13, Zenon

LEMMA AllSent ==
  ASSUME NEW c \in DOMAIN Client, NEW n \in Nat, NEW e, NEW g, NEW u,
         Sends(Client[c].asks, n, e, g, u), u[0] \in Seq(Byte)
  PROVE  Sent(c) = Client[c].connect \o u[0] /\ (Client[c].asks = <<>> => u[0] = <<>>)
  <1>1. PICK q : q = Client[c].asks
    OBVIOUS
  <1>2. /\ n = Len(q) /\ Together(Byte, n, e, g, u)
        /\ FlattenSeq([i \in DOMAIN q |-> Bytes(q[i])]) = u[0]
    BY <1>1, Zenon DEF Sends, Stream
  <1>3. Sent(c) = Client[c].connect \o u[0]
    BY <1>1, <1>2, Zenon DEF Sent
  <1>4. ASSUME q = <<>> PROVE u[0] = <<>>
    <2>1. n = 0
      BY <1>2, <1>4
    <2> QED BY <1>2, <2>1, Zenon DEF Together
  <1> QED BY <1>1, <1>3, <1>4, Zenon

(* The whole CONNECT came, or it did not, of a client that sends s then.   *)
LEMMA Understood ==
  ASSUME NEW c \in DOMAIN Client, NEW s \in Seq(Byte), Sent(c) = Client[c].connect \o s,
         Client[c].asks = <<>> => s = <<>>,
         NEW k \in 0..Len(Sent(c))
  PROVE  /\ HandshakeOf(CutAfter(c, k)).identity =
              IF k >= Len(Client[c].connect) THEN Client[c].device ELSE Nil
         /\ k >= Len(Client[c].connect) =>
              HandshakeOf(CutAfter(c, k)).rest = SubSeq(s, 1, k - Len(Client[c].connect))
  <1>1. PICK connect : connect = Client[c].connect
    OBVIOUS
  <1>2. Sent(c) = connect \o s
    BY <1>1
  <1>3. PICK b : b = CutAfter(c, k)
    OBVIOUS
  <1>4. connect \in Seq(Byte) /\ connect # <<>>
    BY <1>1, ClientAssumption, Zenon
  <1>5. b = SubSeq(connect \o s, 1, k) /\ k \in 0..Len(connect \o s)
    BY <1>2, <1>3, Zenon DEF CutAfter
  <1>6. k \in Nat /\ Len(connect) \in Nat /\ (k < Len(connect) <=> ~(k >= Len(connect)))
    <2>1. k \in Nat
      OBVIOUS
    <2> QED BY <1>4, <2>1
  <1>7. CASE /\ Client[c].options \in ConnectOptions
             /\ connect = EncodeConnect(Client[c].options)
             /\ Presents(Client[c].options, Client[c].device)
    <2>1. PICK o \in ConnectOptions : o = Client[c].options
      BY <1>7
    <2>2. PICK p : p = ConnectBody(o)
      OBVIOUS
    <2>3. p \in Seq(Byte) /\ Len(p) <= 20 + 5 * MaxUint16
      BY <2>2, ConnectRead
    <2>4. Len(p) <= MaxPacketSize
      <3>1. Len(p) \in Nat
        BY <2>3
      <3> QED BY <2>3, <3>1, SMT DEF MaxPacketSize, MaxUint16
    <2>5. TypeConnect \in 0..15 /\ 0 \in 0..15
      BY DEF TypeConnect
    <2>6. IsPacket(Encode(TypeConnect, 0, p), TypeConnect, 0, p)
      BY <2>3, <2>4, <2>5, ShortIsPacket
    <2>7. IsPacket(connect, TypeConnect, 0, p)
      BY <1>7, <2>1, <2>2, <2>6, Zenon DEF EncodeConnect
    <2>8. /\ k < Len(connect) => ReadPacket(b) = Failed
          /\ k >= Len(connect) => ReadPacket(b) = Read(TypeConnect, 0, p, SubSeq(s, 1, k - Len(connect)))
      BY <1>5, <2>7, PacketArrives
    <2>9. CASE k < Len(connect)
      <3>1. ~ReadPacket(b).ok
        BY <2>8, <2>9 DEF Failed
      <3>2. HandshakeOf(b).identity = Nil
        BY <3>1, HandshakeFails
      <3> QED BY <1>1, <1>3, <1>6, <2>9, <3>2, Zenon
    <2>10. CASE k >= Len(connect)
      <3>1. PICK rest : rest = SubSeq(s, 1, k - Len(connect))
        OBVIOUS
      <3>2. ReadPacket(b) = Read(TypeConnect, 0, ConnectBody(o), rest)
        BY <2>2, <2>8, <2>10, <3>1, Zenon
      <3>3. HandshakeOf(b).identity = Client[c].device /\ HandshakeOf(b).rest = rest
        BY <1>7, <2>1, <3>2, HandshakeSucceeds
      <3> QED BY <1>1, <1>3, <2>10, <3>1, <3>3, Zenon
    <2> QED BY <1>6, <2>9, <2>10
  <1>8. CASE /\ connect[1] \div 16 # TypeConnect \/ Endless(connect)
             /\ Client[c].device = Nil /\ Client[c].asks = <<>>
    <2>1. Comes(b, connect)
      BY <1>4, <1>5, StreamCut
    <2>2. ~ReadPacket(b).ok \/ ReadPacket(b).type # TypeConnect
      BY <1>4, <1>8, <2>1, NoConnect
    <2>3. HandshakeOf(b).identity = Nil /\ HandshakeOf(b).rest = <<>>
      BY <2>2, HandshakeFails
    <2>4. ASSUME k >= Len(connect) PROVE SubSeq(s, 1, k - Len(connect)) = <<>>
      <3>1. s = <<>>
        BY <1>8
      <3>2. Len(connect \o <<>>) = Len(connect)
        BY <1>4
      <3>3. k - Len(connect) = 0
        BY <1>5, <1>6, <2>4, <3>1, <3>2
      <3> QED BY <3>1, <3>3
    <2> QED BY <1>1, <1>3, <1>8, <2>3, <2>4, Zenon
  <1> QED BY <1>1, <1>7, <1>8, ClientAssumption, Zenon

Met(c, k) ==
  [client |-> c, whole |-> k >= Len(Client[c].connect), identity |-> HandshakeOf(CutAfter(c, k)).identity]

LEMMA HandshakeUnderstood ==
  ASSUME NEW h \in Handshakes
  PROVE  h.identity = IF h.whole THEN Client[h.client].device ELSE Nil
  <1>1. Handshakes = UNION {{Met(c, k) : k \in 0..Len(Sent(c))} : c \in DOMAIN Client}
    BY Zenon DEF Handshakes, Met
  <1>9. PICK c \in DOMAIN Client : h \in {Met(c, k) : k \in 0..Len(Sent(c))}
    BY <1>1, Zenon
  <1>2. PICK k \in 0..Len(Sent(c)) : h = Met(c, k)
    BY <1>9, Zenon
  <1>3. /\ h.client = c /\ h.whole = (k >= Len(Client[c].connect))
        /\ h.identity = HandshakeOf(CutAfter(c, k)).identity
    BY <1>2, Zenon DEF Met
  <1>4. HandshakeOf(CutAfter(c, k)).identity = IF k >= Len(Client[c].connect) THEN Client[c].device ELSE Nil
    <2>1. PICK n, e, g, u : n \in Nat /\ Sends(Client[c].asks, n, e, g, u) /\ u[0] \in Seq(Byte)
      BY RequestsSent
    <2>2. PICK s \in Seq(Byte) : s = u[0]
      BY <2>1
    <2>3. Sent(c) = Client[c].connect \o s /\ (Client[c].asks = <<>> => s = <<>>)
      BY <2>1, <2>2, AllSent, Zenon
    <2> QED BY <2>3, Understood
  <1> QED BY <1>3, <1>4, Zenon

(* For all options of a CONNECT whose strings have lengths of 16 bits, for *)
(* every cut of the stream and all that follows CONNECT in it: the server  *)
(* knows a bulb by the id its options present once the whole of CONNECT    *)
(* came through, and by none before; what is no CONNECT, or announces more *)
(* than MaxPacketSize, never gives an identity.                            *)
THEOREM IdentityAlwaysPresented == Spec => []IdentityIsPresented
  <1>1. IdentityIsPresented
    BY HandshakeUnderstood, Zenon DEF IdentityIsPresented
  <1> QED BY <1>1, PTL

(* A client that makes of what is written, w, the answers to its first m   *)
(* requests and is left with nothing, is answered as it asked.             *)
LEMMA ReadsAreAnswers ==
  ASSUME NEW q, NEW m \in Nat, NEW w, NEW v, Reads(q, m, w, v)
  PROVE  Answered(q, m, w)
  <1> DEFINE next(n, x) == IF WantsAnswer(q[n]) THEN ReadPacket(x).rest ELSE x
             left == CHOOSE l : l = [n \in 0..m |-> IF n = 0 THEN w ELSE next(n, l[n - 1])]
  <1>1. /\ v \in [0..m -> Seq(Byte)] /\ v[0] = w /\ v[m] = <<>>
        /\ \A i \in 1..m : /\ WantsAnswer(q[i]) => Heard(v[i - 1], q[i], v[i])
                           /\ ~WantsAnswer(q[i]) => v[i] = v[i - 1]
    BY Zenon DEF Reads
  <1>2. ASSUME NEW i \in 1..m PROVE v[i] = next(i, v[i - 1])
    BY <1>1, Zenon DEF Heard
  <1>3. Answered(q, m, w) = /\ left[m] = <<>>
                            /\ \A n \in 1..m : WantsAnswer(q[n]) =>
                                 LET pkt == ReadPacket(left[n - 1])
                                 IN  pkt.ok /\ Hears(pkt) = Wanted(q[n])
    BY Zenon DEF Answered
  <1> HIDE DEF next
  <1>4. v = [n \in 0..m |-> IF n = 0 THEN w ELSE next(n, v[n - 1])]
    <2>1. ASSUME NEW n \in 0..m PROVE v[n] = IF n = 0 THEN w ELSE next(n, v[n - 1])
      <3>1. n = 0 \/ n \in 1..m
        OBVIOUS
      <3>2. CASE n = 0
        BY <1>1, <3>2, Zenon
      <3>3. CASE n # 0
        BY <1>2, <3>1, <3>3, Zenon
      <3> QED BY <3>2, <3>3, Zenon
    <2>2. v = [n \in 0..m |-> v[n]]
      BY <1>1
    <2> QED BY <2>1, <2>2, Zenon
  <1>5. left = [n \in 0..m |-> IF n = 0 THEN w ELSE next(n, left[n - 1])]
    BY <1>4, Zenon
  <1> HIDE DEF left
  <1> DEFINE S == {n \in Nat : n \in 0..m => left[n] = v[n]}
  <1>6. 0 \in S
    <2>1. ASSUME 0 \in 0..m PROVE left[0] = v[0]
      BY <1>1, <1>5, <2>1
    <2> QED BY <2>1
  <1>7. ASSUME NEW n \in S PROVE n + 1 \in S
    <2>1. ASSUME n + 1 \in 0..m PROVE left[n + 1] = v[n + 1]
      <3>1. n \in 0..m /\ n + 1 \in 1..m /\ n + 1 # 0 /\ (n + 1) - 1 = n
        BY <2>1
      <3>2. left[n] = v[n]
        BY <3>1
      <3>3. left[n + 1] = next(n + 1, left[n])
        BY <1>5, <2>1, <3>1, Zenon
      <3>4. v[n + 1] = next(n + 1, v[n])
        BY <1>2, <3>1, Zenon
      <3> QED BY <3>2, <3>3, <3>4, Zenon
    <2> QED BY <2>1
  <1>8. S = Nat
    <2>1. S \in SUBSET Nat
      OBVIOUS
    <2> HIDE DEF S
    <2> QED BY <1>6, <1>7, <2>1, Induction
  <1>9. \A n \in 0..m : left[n] = v[n]
    BY <1>8
  <1>10. left[m] = <<>>
    <2>1. m \in 0..m
      OBVIOUS
    <2> QED BY <1>1, <1>9, <2>1, Zenon
  <1>11. ASSUME NEW n \in 1..m, WantsAnswer(q[n])
         PROVE  ReadPacket(left[n - 1]).ok /\ Hears(ReadPacket(left[n - 1])) = Wanted(q[n])
    <2>1. n - 1 \in 0..m
      OBVIOUS
    <2>2. left[n - 1] = v[n - 1]
      BY <1>9, <2>1
    <2> QED BY <1>1, <1>11, <2>2, Zenon DEF Heard
  <1> QED BY <1>3, <1>10, <1>11, Zenon

(* How many requests of c came through in the first k bytes, and the       *)
(* record that Conversations has of that.                                  *)
EndOf(c, n) == Len(Client[c].connect) + Len(FlattenSeq([i \in 1..n |-> Bytes(Client[c].asks[i])]))
Through(c, k) == Cardinality({n \in DOMAIN Client[c].asks : EndOf(c, n) <= k})

Talked(c, k) ==
  [client |-> c, heard |-> Through(c, k), written |-> Conversation(HandshakeOf(CutAfter(c, k)).rest)]

(* A client c whose stream is cut after k bytes, behind its CONNECT.       *)
LEMMA TalkedAsAsked ==
  ASSUME NEW c \in DOMAIN Client, NEW k \in Len(Client[c].connect)..Len(Sent(c))
  PROVE  Answered(Client[c].asks, Through(c, k), Conversation(HandshakeOf(CutAfter(c, k)).rest))
  <1>1. PICK n, e, g, u : n \in Nat /\ Sends(Client[c].asks, n, e, g, u) /\ u[0] \in Seq(Byte)
    BY RequestsSent
  <1>2. PICK q, connect : q = Client[c].asks /\ connect = Client[c].connect
    OBVIOUS
  <1>3. /\ n = Len(q) /\ Stream(q, n, e, g, u)
        /\ FlattenSeq([i \in DOMAIN q |-> Bytes(q[i])]) = u[0]
        /\ \A m \in 0..n : FlattenSeq([i \in 1..m |-> Bytes(q[i])]) = g[m]
    BY <1>1, <1>2, Zenon DEF Sends
  <1>4. q \in Seq(Request) /\ connect \in Seq(Byte)
    BY <1>2, ClientAssumption, Zenon
  <1>5. DOMAIN q = 1..n /\ 0 \in 0..n /\ (q = <<>> => n = 0)
    BY <1>3, <1>4
  <1>6. PICK s \in Seq(Byte) : s = u[0]
    BY <1>1
  <1>7. Sent(c) = connect \o s /\ (q = <<>> => s = <<>>)
    BY <1>1, <1>2, <1>6, AllSent, Zenon
  <1>8. PICK l \in Nat, z \in Nat : l = Len(connect) /\ z = Len(s)
    BY <1>4
  <1>9. Len(Sent(c)) = l + z
    BY <1>4, <1>7, <1>8
  <1>10. PICK j \in Nat : k = l + j /\ j <= z /\ k - l = j
    <2>1. k \in l..(l + z)
      BY <1>2, <1>8, <1>9, Zenon
    <2>2. k - l \in Nat /\ k = l + (k - l) /\ k - l <= z
      BY <2>1
    <2> QED BY <2>2
  <1>11. k \in 0..Len(Sent(c)) /\ k >= l
    BY <1>9, <1>10
  <1>12. HandshakeOf(CutAfter(c, k)).rest = SubSeq(s, 1, j)
    <2>1. k >= Len(connect) => HandshakeOf(CutAfter(c, k)).rest = SubSeq(s, 1, k - Len(connect))
      BY <1>2, <1>7, <1>11, Understood
    <2> QED BY <1>8, <1>10, <1>11, <2>1, Zenon
  <1>13. PICK m, v : /\ m \in 0..n /\ {i \in 1..n : Len(g[i]) <= j} = 1..m
                     /\ Reads(q, m, Conversation(SubSeq(u[0], 1, j)), v)
    <2>1. j \in 0..Len(u[0])
      BY <1>6, <1>8, <1>10
    <2>2. Stream(q, n, e, g, u)
      BY <1>3
    <2> QED BY <1>1, <2>1, <2>2, RequestsHandled
  <1>14. m \in Nat /\ Cardinality(1..m) = m
    <2>1. m \in Nat
      BY <1>1, <1>13
    <2> QED BY <2>1, FS_Interval
  <1>15. Through(c, k) = m
    <2>1. ASSUME NEW i \in 1..n PROVE EndOf(c, i) <= k <=> Len(g[i]) <= j
      <3>1. i \in 0..n
        OBVIOUS
      <3>2. EndOf(c, i) = l + Len(g[i])
        BY <1>2, <1>3, <1>8, <3>1, Zenon DEF EndOf
      <3>3. Len(g[i]) \in Nat
        BY <1>3, <3>1, Zenon DEF Stream, Lengths
      <3> QED BY <1>10, <3>2, <3>3
    <2>2. {i \in 1..n : EndOf(c, i) <= k} = 1..m
      BY <1>13, <2>1, Zenon
    <2> QED BY <1>2, <1>5, <1>14, <2>2, Zenon DEF Through
  <1>16. Answered(q, m, Conversation(SubSeq(u[0], 1, j)))
    BY <1>13, <1>14, ReadsAreAnswers
  <1> QED BY <1>2, <1>6, <1>12, <1>15, <1>16, Zenon

LEMMA ConversationAnswered ==
  ASSUME NEW h \in Conversations
  PROVE  Answered(Client[h.client].asks, h.heard, h.written)
  <1>1. Conversations = UNION {{Talked(c, k) : k \in Len(Client[c].connect)..Len(Sent(c))} : c \in DOMAIN Client}
    BY Zenon DEF Conversations, Talked, Through, EndOf
  <1>2. PICK c \in DOMAIN Client : h \in {Talked(c, k) : k \in Len(Client[c].connect)..Len(Sent(c))}
    BY <1>1, Zenon
  <1>3. PICK k \in Len(Client[c].connect)..Len(Sent(c)) : h = Talked(c, k)
    BY <1>2, Zenon
  <1>4. /\ h.client = c /\ h.heard = Through(c, k)
        /\ h.written = Conversation(HandshakeOf(CutAfter(c, k)).rest)
    BY <1>3, Zenon DEF Talked
  <1>5. Answered(Client[c].asks, Through(c, k), Conversation(HandshakeOf(CutAfter(c, k)).rest))
    BY TalkedAsAsked
  <1> QED BY <1>4, <1>5, Zenon

(* For any requests, with any topics, filters, ids and payloads, each of   *)
(* which fits into a packet, and for every cut of the stream: what session *)
(* serve writes, read as MQTT, is the answer that was wanted to each of the*)
(* requests that came through whole, in their order, and nothing else.     *)
THEOREM AnswersAlwaysAsAsked == Spec => []AnsweredAsAsked
  <1>1. AnsweredAsAsked
    BY ConversationAnswered, Zenon DEF AnsweredAsAsked
  <1> QED BY <1>1, PTL

=============================================================================
