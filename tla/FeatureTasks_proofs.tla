------------------------- MODULE FeatureTasks_proofs -------------------------
(***************************************************************************)
(* Proofs about the tasks of Features that say and hear something of their *)
(* own: the fobs' radio, the lost-key warning, a window, the roof and the  *)
(* rear door.  What the other tasks leave of it is Features_proofs' Mute;  *)
(* here is one invariant per property, and one lemma for each step of the  *)
(* one to three tasks that it names.                                       *)
(***************************************************************************)
EXTENDS Features_proofs

-----------------------------------------------------------------------------
(* The rolling code of a fob.                                              *)

\* What a RollingCodeState holds.
Rolling == [last : Nat, start : Nat, count : Nat]

\* The codes heard from a on have come in a row.
InARow(heard, a) == \A i \in a..(Len(heard) - 1) : heard[i + 1] = heard[i] + 1

\* The state r knows of every row of codes that ends with the last one heard, newer than
\* the last accepted and inside the resync window.
Follows(r, heard) ==
  LET n == Len(heard) IN
  /\ r.start # 0 => r.start > r.last /\ 1 <= r.count /\ r.count < ResyncRequired
  /\ \A a \in 1..n : InARow(heard, a) =>
        /\ heard[n] = heard[a] + (n - a)
        /\ heard[a] > r.last /\ heard[n] - r.last <= WindowResync =>
              r.start # 0 /\ r.count >= n - a + 1 /\ r.start + r.count = heard[n] + 1

\* validate keeps what it knows of them up to date.
LEMMA FollowsOn ==
  ASSUME NEW r \in Rolling, NEW code \in Nat,
         NEW heard, IsSeq(heard), \A i \in DOMAIN heard : heard[i] \in Nat,
         Follows(r, heard)
  PROVE  /\ Validate(r, code) \in Rolling
         /\ Follows(Validate(r, code), Append(heard, code))
<1> DEFINE n == Len(heard)
           h == Append(heard, code)
           next == r.start # 0 /\ code = r.start + r.count
           v == Validate(r, code)
<1>1. /\ n \in Nat /\ DOMAIN heard = 1..n
      /\ IsSeq(h) /\ Len(h) = n + 1
      /\ \A i \in 1..n : h[i] = heard[i] /\ heard[i] \in Nat
      /\ h[n + 1] = code
  BY SeqPlaces, AppendPlaces
<1>2. /\ {WindowNormal, WindowResync, ResyncRequired} \subseteq Nat
      /\ WindowNormal < WindowResync
      /\ ResyncRequired > 1
  BY RkeAssumption
<1>3. /\ r.last \in Nat /\ r.start \in Nat /\ r.count \in Nat
      /\ r = [last |-> r.last, start |-> r.start, count |-> r.count]
  BY DEF Rolling
<1> DEFINE late == code <= r.last \/ code - r.last > WindowResync
           near == code > r.last /\ code - r.last <= WindowNormal
<1>4. late => v = [last |-> r.last, start |-> 0, count |-> 0]
  <2>1. late => v = [r EXCEPT !.start = 0, !.count = 0]
    BY <1>2, <1>3 DEF Validate
  <2>2. [r EXCEPT !.start = 0, !.count = 0] = [last |-> r.last, start |-> 0, count |-> 0]
    <3> DEFINE q == [r EXCEPT !.start = 0, !.count = 0]
    <3>1. q \in Rolling /\ q.last = r.last /\ q.start = 0 /\ q.count = 0
      BY DEF Rolling
    <3> HIDE DEF q
    <3>2. q = [last |-> r.last, start |-> 0, count |-> 0]
      BY <3>1 DEF Rolling
    <3> QED
      BY <3>2 DEF q
  <2> QED
    BY <2>1, <2>2
<1>5. ~late /\ near => v = [last |-> code, start |-> 0, count |-> 0]
  BY <1>3 DEF Validate, Accepts
<1>6. ~late /\ ~near /\ ~next => v = [last |-> r.last, start |-> code, count |-> 1]
  BY <1>3 DEF Validate
<1>7. ~late /\ ~near /\ next /\ r.count + 1 >= ResyncRequired
      => v = [last |-> code, start |-> 0, count |-> 0]
  BY <1>3 DEF Validate, Accepts
<1>8. ~late /\ ~near /\ next /\ ~(r.count + 1 >= ResyncRequired)
      => v = [last |-> r.last, start |-> r.start, count |-> r.count + 1]
  BY <1>3 DEF Validate
<1>9. \A a \in 1..n : InARow(h, a) =>
        InARow(heard, a) /\ h[n + 1] = heard[n] + 1 /\ h[a] = heard[a]
  <2> SUFFICES ASSUME NEW a \in 1..n, InARow(h, a)
               PROVE  InARow(heard, a) /\ h[n + 1] = heard[n] + 1 /\ h[a] = heard[a]
    OBVIOUS
  <2> HIDE DEF h
  <2>1. \A i \in a..n : h[i + 1] = h[i] + 1
    <3> HIDE DEF n
    <3>1. Len(h) - 1 = n
      BY <1>1
    <3> QED
      BY <3>1 DEF InARow
  <2>2. \A i \in a..(n - 1) : heard[i + 1] = heard[i] + 1
    <3> SUFFICES ASSUME NEW i \in a..(n - 1) PROVE heard[i + 1] = heard[i] + 1
      OBVIOUS
    <3>1. i \in a..n /\ i \in 1..n /\ i + 1 \in 1..n
      BY <1>1
    <3> HIDE DEF n
    <3> QED
      BY <1>1, <2>1, <3>1
  <2>3. n \in a..n /\ n \in 1..n
    BY <1>1
  <2>4. InARow(heard, a)
    BY <2>2 DEF InARow
  <2> HIDE DEF n
  <2> QED
    BY <1>1, <2>1, <2>3, <2>4
<1>10. \A a \in 1..n : InARow(heard, a) =>
        /\ heard[n] = heard[a] + (n - a)
        /\ heard[a] > r.last /\ heard[n] - r.last <= WindowResync =>
              r.start # 0 /\ r.count >= n - a + 1 /\ r.start + r.count = heard[n] + 1
  BY DEF Follows
<1>11. r.start # 0 => r.start > r.last /\ 1 <= r.count /\ r.count < ResyncRequired
  BY DEF Follows
<1> HIDE DEF n, h, v
<1>12. /\ v \in Rolling
       /\ v.start # 0 => v.start > v.last /\ 1 <= v.count /\ v.count < ResyncRequired
  BY SMTT(30), <1>1, <1>2, <1>3, <1>4, <1>5, <1>6, <1>7, <1>8, <1>11 DEF Rolling
<1>13. ASSUME NEW a \in 1..(n + 1), InARow(h, a)
       PROVE  h[n + 1] = h[a] + (n + 1 - a)
  <2>1. CASE a = n + 1
    BY <1>1, <2>1
  <2>2. CASE a # n + 1
    <3>1. a \in 1..n
      BY <1>1, <2>2
    <3> QED
      BY <1>1, <1>9, <1>10, <1>13, <3>1
  <2> QED
    BY <2>1, <2>2
<1>14. ASSUME NEW a \in 1..(n + 1), InARow(h, a), h[a] > v.last, h[n + 1] - v.last <= WindowResync
       PROVE  v.start # 0 /\ v.count >= n + 1 - a + 1 /\ v.start + v.count = h[n + 1] + 1
  <2>1. a = n + 1 => v.last # code
    BY <1>1, <1>14
  <2>2. a \in 1..n /\ code - r.last <= WindowResync /\ h[a] > r.last
        => r.start # 0 /\ r.count >= n - a + 1 /\ r.start + r.count = code
    <3> SUFFICES ASSUME a \in 1..n, code - r.last <= WindowResync, h[a] > r.last
                 PROVE  r.start # 0 /\ r.count >= n - a + 1 /\ r.start + r.count = code
      OBVIOUS
    <3>1. InARow(heard, a) /\ heard[n] \in Nat /\ heard[n] + 1 = code /\ heard[a] = h[a]
      BY <1>1, <1>9, <1>14
    <3>2. heard[n] - r.last <= WindowResync
      BY <1>2, <1>3, <3>1
    <3> QED
      BY <1>10, <3>1, <3>2
  <2>3. a \in 1..n => h[a] <= code
    BY <1>1, <1>13, <1>14
  <2>4. CASE late
    BY <1>1, <1>2, <1>3, <1>4, <1>11, <1>14, <2>2, <2>4
  <2>5. ASSUME v = [last |-> code, start |-> 0, count |-> 0] PROVE FALSE
    <3>1. h[a] > code
      BY <1>14, <2>5
    <3> QED
      BY <1>1, <2>1, <2>3, <3>1
  <2>6. CASE ~late /\ ~near /\ ~next
    <3>1. v = [last |-> r.last, start |-> code, count |-> 1]
      BY <1>6, <2>6
    <3>2. a = n + 1
      BY <1>1, <1>3, <1>14, <2>2, <2>6, <3>1
    <3> QED
      BY <1>1, <1>3, <2>6, <3>1, <3>2
  <2>7. CASE ~late /\ ~near /\ next /\ ~(r.count + 1 >= ResyncRequired)
    <3>1. v = [last |-> r.last, start |-> r.start, count |-> r.count + 1]
      BY <1>8, <2>7
    <3>2. a = n + 1 \/ r.count >= n - a + 1
      BY <1>1, <1>3, <1>14, <2>2, <2>7, <3>1
    <3> QED
      BY SMTT(30), <1>1, <1>3, <1>14, <2>7, <3>1, <3>2
  <2> QED
    BY <1>5, <1>7, <2>4, <2>5, <2>6, <2>7
<1> QED
  BY <1>1, <1>12, <1>13, <1>14 DEF Follows, h, v

\* After one piece of news its signal has the value, and those who follow it read it.
LEMMA OneNews ==
  ASSUME NEW s, NEW v
  PROVE  LET news == << <<s, v>> >> IN
         /\ s \in DOMAIN BusAfter(news) /\ BusAfter(news)[s] = v
         /\ ValuesOf(news, s) = <<v>>
         /\ \A S : s \notin S => Mutes(news, S)
<1> DEFINE news == << <<s, v>> >>
<1>1. DOMAIN news = {1} /\ news[1][1] = s /\ news[1][2] = v
  OBVIOUS
<1> HIDE DEF news
<1>2. PlacesOf(news, s) = {1}
  BY <1>1 DEF PlacesOf
<1>3. s \in DOMAIN BusAfter(news) /\ BusAfter(news)[s] = v
  BY <1>1, <1>2 DEF BusAfter, Over
<1>4. \A i \in {1} : {j \in {1} : j <= i} = {1}
  OBVIOUS
<1>5. Cardinality({1}) = 1
  BY FS_Singleton
<1>6. ValuesOf(news, s) = [n \in 1..1 |-> v]
  BY <1>1, <1>2, <1>4, <1>5 DEF ValuesOf
<1>7. \A S : s \notin S => Mutes(news, S)
  BY <1>1 DEF Mutes
<1> QED
  BY <1>3, <1>6, <1>7 DEF news

-----------------------------------------------------------------------------
(* What rke hears.                                                         *)

\* A message has a code.
Coded(v) == v.code \in Nat

\* The messages on the bus and those that rke has not read have codes.
RadioSignals ==
  \A f \in Fobs :
     /\ Of("rf", f) \in DOMAIN bus
     /\ bus[Of("rf", f)] = None \/ Coded(bus[Of("rf", f)])
     /\ "rke" \in DOMAIN unread /\ Of("rf", f) \in DOMAIN unread["rke"]
     /\ IsSeq(unread["rke"][Of("rf", f)])
     /\ \A i \in DOMAIN unread["rke"][Of("rf", f)] : Coded(unread["rke"][Of("rf", f)][i])

\* Where nobody speaks for a fob they stay as they are.
LEMMA RadioStays ==
  ASSUME RadioSignals, NEW t, t # "rke", NEW S, OfAll("rf", Fobs) \subseteq S, Mute(t, S)
  PROVE  RadioSignals'
<1> SUFFICES ASSUME NEW f \in Fobs
             PROVE  /\ Of("rf", f) \in DOMAIN bus'
                    /\ bus'[Of("rf", f)] = bus[Of("rf", f)]
                    /\ "rke" \in DOMAIN unread' /\ Of("rf", f) \in DOMAIN unread'["rke"]
                    /\ unread'["rke"][Of("rf", f)] = unread["rke"][Of("rf", f)]
  BY DEF RadioSignals
<1>1. Of("rf", f) \in S
  BY DEF OfAll
<1> QED
  BY <1>1 DEF RadioSignals, Mute

\* A message that has a code keeps that so.
LEMMA RadioNews ==
  ASSUME RadioSignals, NEW g \in Fobs, NEW v, Coded(v), NEW queues,
         "rke" \in DOMAIN queues, queues["rke"] = unread["rke"],
         bus' = BusAfter(<< <<Of("rf", g), v>> >>),
         unread' = Delivered(queues, << <<Of("rf", g), v>> >>)
  PROVE  RadioSignals'
<1> DEFINE news == << <<Of("rf", g), v>> >>
<1>1. /\ Of("rf", g) \in DOMAIN BusAfter(news) /\ BusAfter(news)[Of("rf", g)] = v
      /\ ValuesOf(news, Of("rf", g)) = <<v>>
      /\ \A S : Of("rf", g) \notin S => Mutes(news, S)
  BY OneNews
<1> HIDE DEF news
<1>2. bus' = BusAfter(news) /\ unread' = Delivered(queues, news)
  BY DEF news
<1> SUFFICES ASSUME NEW f \in Fobs
             PROVE  /\ Of("rf", f) \in DOMAIN bus'
                    /\ bus'[Of("rf", f)] = None \/ Coded(bus'[Of("rf", f)])
                    /\ "rke" \in DOMAIN unread' /\ Of("rf", f) \in DOMAIN unread'["rke"]
                    /\ IsSeq(unread'["rke"][Of("rf", f)])
                    /\ \A i \in DOMAIN unread'["rke"][Of("rf", f)] :
                          Coded(unread'["rke"][Of("rf", f)][i])
  BY DEF RadioSignals
<1> DEFINE s == Of("rf", f)
<1>3. "rke" \in DOMAIN unread' /\ s \in DOMAIN unread'["rke"]
  BY <1>2 DEF Delivered, RadioSignals
<1>4. unread'["rke"][s] = unread["rke"][s] \o ValuesOf(news, s)
  <2>1. s \in DOMAIN queues["rke"]
    BY DEF RadioSignals
  <2> HIDE DEF s
  <2>2. Delivered(queues, news)["rke"][s] = queues["rke"][s] \o ValuesOf(news, s)
    BY <2>1 DEF Delivered
  <2> QED
    BY <1>2, <2>2
<1>5. CASE f = g
  <2> DEFINE q == unread["rke"][s]
  <2>1. IsSeq(q) /\ \A i \in DOMAIN q : Coded(q[i])
    BY DEF RadioSignals
  <2>2. unread'["rke"][s] = q \o <<v>>
    BY <1>1, <1>4, <1>5
  <2> HIDE DEF q
  <2>3. IsSeq(q \o <<v>>) /\ \A i \in DOMAIN (q \o <<v>>) : Coded((q \o <<v>>)[i])
    <3>1. PICK X : q \in Seq(X)
      BY <2>1 DEF IsSeq
    <3> DEFINE Y == X \cup {v}
               r == q \o <<v>>
    <3>2. q \in Seq(Y) /\ <<v>> \in Seq(Y)
      BY <3>1
    <3>3. /\ r \in Seq(Y) /\ DOMAIN r = 1..(Len(q) + 1) /\ Len(q) \in Nat
          /\ \A i \in 1..Len(q) : r[i] = q[i]
          /\ r[Len(q) + 1] = v
      BY <3>2
    <3>4. DOMAIN q = 1..Len(q)
      BY <3>1
    <3> HIDE DEF Y, r
    <3>5. ASSUME NEW i \in DOMAIN r PROVE Coded(r[i])
      <4>1. i \in 1..Len(q) \/ i = Len(q) + 1
        BY <3>3
      <4>2. CASE i \in 1..Len(q)
        BY <2>1, <3>3, <3>4, <4>2
      <4>3. CASE i = Len(q) + 1
        BY <3>3, <4>3
      <4> QED
        BY <4>1, <4>2, <4>3
    <3> QED
      BY <3>3, <3>5 DEF IsSeq, r
  <2> QED
    BY <1>1, <1>2, <1>3, <1>5, <2>2, <2>3
<1>6. CASE f # g
  <2>1. s # Of("rf", g)
    BY <1>6, NamesAssumption DEF Stems, Bearers, Keys
  <2>2. Mutes(news, {s})
    BY <1>1, <2>1
  <2>3. /\ s \in DOMAIN bus /\ IsSeq(unread["rke"][s]) /\ "rke" \in DOMAIN queues
        /\ s \in DOMAIN queues["rke"] /\ IsSeq(queues["rke"][s])
    BY DEF RadioSignals
  <2> HIDE DEF s
  <2>4. /\ s \in DOMAIN bus => s \in DOMAIN BusAfter(news) /\ BusAfter(news)[s] = bus[s]
        /\ \A u \in DOMAIN queues :
              s \in DOMAIN queues[u] /\ IsSeq(queues[u][s])
                 => Delivered(queues, news)[u][s] = queues[u][s]
    <3> DEFINE S == {s}
    <3>1. Mutes(news, S) /\ s \in S
      BY <2>2
    <3> HIDE DEF S
    <3> QED
      BY <3>1, MuteNews
  <2>5. /\ s \in DOMAIN bus'
        /\ bus'[s] = bus[s]
        /\ unread'["rke"][s] = unread["rke"][s]
    BY <1>2, <2>3, <2>4
  <2> QED
    BY <1>3, <2>5 DEF RadioSignals, s
<1> QED
  BY <1>5, <1>6

\* What a press does beyond the code leaves the codes.
LEMMA ExecutedKeeps ==
  ASSUME NEW m, "code" \in DOMAIN m, NEW f, NEW a
  PROVE  LET n == Executed(m, f, a).mem IN "code" \in DOMAIN n /\ n.code = m.code
<1> DEFINE Same(n) == "code" \in DOMAIN n /\ n.code = m.code
<1>1. \A n, p : Same(n) => Same(Waits(n, p, f)) /\ Same(Clears(n, p))
  BY DEF Waits, Clears
<1>2. \A n, b : Same(n) => Same([n EXCEPT !.panics = b]) /\ Same([n EXCEPT !.first = b])
  OBVIOUS
<1>3. Same(m)
  OBVIOUS
<1> HIDE DEF Same
<1>4. ASSUME NEW n, Same(n)
      PROVE  /\ Same(AfterUnlock(n, f).mem)
             /\ Same(AfterLock(n, f).mem)
             /\ Same(AfterTrunk(n, f).mem)
             /\ Same(AfterPanic(n, f).mem)
  <2>1. AfterUnlock(n, f).mem \in {Clears(n, "unlock"), Waits(n, "unlock", f)}
    BY DEF AfterUnlock
  <2>2. LET c == Clears(n, "unlock")
        IN  AfterLock(n, f).mem \in {Clears(c, "double"), Waits(c, "double", f), c}
    BY DEF AfterLock
  <2>3. AfterTrunk(n, f).mem \in {Clears(n, "trunk"), Waits(n, "trunk", f)}
    BY DEF AfterTrunk
  <2> DEFINE c == Clears(n, "panic")
             k == (c.panics + 1) % 65536
             d == [c EXCEPT !.panics = k]
  <2>4. AfterPanic(n, f).mem = Waits(n, "panic", f) \/ AfterPanic(n, f).mem = d
    <3> DEFINE wait == bus["panicMode"] = "Double" /\ ~Second(n, "panic", f)
    <3>1. wait => AfterPanic(n, f).mem = Waits(n, "panic", f)
      BY DEF AfterPanic
    <3>2. ~wait => AfterPanic(n, f).mem = d
      BY DEF AfterPanic
    <3> HIDE DEF wait, d
    <3> QED
      BY <3>1, <3>2
  <2>5. Same(AfterUnlock(n, f).mem)
    BY <1>1, <1>4, <2>1
  <2>6. Same(AfterLock(n, f).mem)
    BY <1>1, <1>4, <2>2
  <2>7. Same(AfterTrunk(n, f).mem)
    BY <1>1, <1>4, <2>3
  <2>8. Same(c)
    BY <1>1, <1>4
  <2>9. Same(d)
    <3> HIDE DEF c, k
    <3> QED
      BY <2>8 DEF Same
  <2> HIDE DEF c, k, d
  <2>10. Same(AfterPanic(n, f).mem)
    BY <1>1, <1>4, <2>4, <2>9
  <2> QED
    BY <2>5, <2>6, <2>7, <2>10
<1>5. \A n : Same(n) => Same(After(n, f, a).mem)
  BY <1>4 DEF After
<1>6. LET n == IF a \in {"LOCK", "UNLOCK"} THEN [Waits(m, "combo", f) EXCEPT !.first = a]
               ELSE Clears(m, "combo")
      IN  \/ Executed(m, f, a).mem = Clears(m, "combo")
          \/ Executed(m, f, a).mem = After(n, f, a).mem
  BY DEF Executed
<1>7. Same(Executed(m, f, a).mem)
  BY <1>1, <1>2, <1>3, <1>5, <1>6
<1> QED
  BY <1>7 DEF Same

\* The codes rke knows.
Codes == mem["rke"].code

\* A message it reads changes the code of its fob as validate does, and is remembered.
RkeReads ==
  \E f \in Fobs, code \in Nat :
     /\ mem'["rke"].code = [Codes EXCEPT ![f] = Validate(Codes[f], code)]
     /\ world'.heard = [world.heard EXCEPT ![f] = Append(world.heard[f], code)]

\* Its steps.
LEMMA RkeSteps ==
  ASSUME Shape, RkeStep, RadioSignals, "rke" \in DOMAIN mem, "code" \in DOMAIN mem["rke"]
  PROVE  /\ RadioSignals'
         /\ "code" \in DOMAIN mem'["rke"]
         /\ RkeReads \/ (mem'["rke"].code = Codes /\ world'.heard = world.heard)
<1>1. CASE RkeExpires
  <2>1. RadioSignals'
    <3> SUFFICES ASSUME NEW f \in Fobs
                 PROVE  /\ Of("rf", f) \in DOMAIN bus'
                        /\ bus'[Of("rf", f)] = bus[Of("rf", f)]
                        /\ "rke" \in DOMAIN unread' /\ Of("rf", f) \in DOMAIN unread'["rke"]
                        /\ unread'["rke"][Of("rf", f)] = unread["rke"][Of("rf", f)]
      BY DEF RadioSignals
    <3>1. Mutes(<<>>, {Of("rf", f)})
      BY MuteFew
    <3>2. bus' = BusAfter(<<>>) /\ unread' = Delivered(unread, <<>>)
      BY <1>1 DEF RkeExpires, Act, Publish
    <3> DEFINE s == Of("rf", f)
               S == {s}
    <3>3. s \in S /\ Mutes(<<>>, S)
      BY <3>1
    <3>4. s \in DOMAIN bus /\ "rke" \in DOMAIN unread /\ s \in DOMAIN unread["rke"]
          /\ IsSeq(unread["rke"][s])
      BY DEF RadioSignals
    <3> HIDE DEF s, S
    <3>5. /\ s \in DOMAIN bus' /\ bus'[s] = bus[s]
          /\ "rke" \in DOMAIN unread' /\ s \in DOMAIN unread'["rke"]
          /\ unread'["rke"][s] = unread["rke"][s]
      BY <3>2, <3>3, <3>4, MuteNews
    <3> QED
      BY <3>5 DEF s
  <2>2. "code" \in DOMAIN mem'["rke"] /\ mem'["rke"].code = Codes /\ world'.heard = world.heard
    BY <1>1 DEF RkeExpires, Act, Codes
  <2> QED
    BY <2>1, <2>2
<1>2. ASSUME NEW f \in Fobs, RkeHears(f)
      PROVE  /\ RadioSignals'
             /\ "code" \in DOMAIN mem'["rke"]
             /\ RkeReads
  <2> DEFINE r == Of("rf", f)
             q == unread["rke"][r]
             code == Head(q).code
             n == [mem["rke"] EXCEPT !.code[f] = Validate(Codes[f], code)]
             w == [world EXCEPT !.heard[f] = Append(@, code)]
  <2>1. q # <<>> /\ IsSeq(q) /\ \A i \in DOMAIN q : Coded(q[i])
    BY <1>2 DEF RkeHears, Reads, Has, RadioSignals
  <2>2. code \in Nat
    <3>1. Head(q) = q[1] /\ 1 \in DOMAIN q
      BY <2>1, TailPlaces, SeqPlaces
    <3> QED
      BY <2>1, <3>1 DEF Coded
  <2>3. \E m, a, news :
           /\ m = n \/ m = Executed(n, f, a).mem
           /\ React("rke", r, m, news)
           /\ news = <<>> \/ news = Executed(n, f, a).news
    BY <1>2 DEF RkeHears, Val, Codes
  <2>4. world' = w \/ \E o : world' = Ordered(w, "KeyfobRke", o)
    BY <1>2 DEF RkeHears, Val, Codes
  <2>5. "code" \in DOMAIN n /\ n.code = [Codes EXCEPT ![f] = Validate(Codes[f], code)]
    BY DEF Codes
  <2>6. world'.heard = [world.heard EXCEPT ![f] = Append(world.heard[f], code)]
    BY <2>4 DEF Ordered, Shape, WorldFields
  <2> HIDE DEF n, w, q, code
  <2>7. PICK m, news : React("rke", r, m, news) /\ Mutes(news, Told)
                       /\ "code" \in DOMAIN m /\ m.code = n.code
    <3>1. PICK m, a, news :
             /\ m = n \/ m = Executed(n, f, a).mem
             /\ React("rke", r, m, news)
             /\ news = <<>> \/ news = Executed(n, f, a).news
      BY <2>3
    <3>2. Mutes(news, Told)
      BY <3>1, ExecutedIsMute, MuteFew
    <3>3. "code" \in DOMAIN m /\ m.code = n.code
      <4>1. LET e == Executed(n, f, a).mem IN "code" \in DOMAIN e /\ e.code = n.code
        BY <2>5, ExecutedKeeps
      <4> QED
        BY <2>5, <3>1, <4>1
    <3> QED
      BY <3>1, <3>2, <3>3
  <2>8. mem'["rke"] = m
    BY <2>7 DEF React
  <2>9. RadioSignals'
    <3> SUFFICES ASSUME NEW g \in Fobs
                 PROVE  /\ Of("rf", g) \in DOMAIN bus'
                        /\ bus'[Of("rf", g)] = bus[Of("rf", g)]
                        /\ "rke" \in DOMAIN unread' /\ Of("rf", g) \in DOMAIN unread'["rke"]
                        /\ \/ unread'["rke"][Of("rf", g)] = unread["rke"][Of("rf", g)]
                           \/ g = f /\ unread'["rke"][Of("rf", g)] = Tail(q)
      <4>1. IsSeq(Tail(q)) /\ \A i \in DOMAIN Tail(q) : Coded(Tail(q)[i])
        BY <2>1, TailPlaces
      <4> QED
        BY <4>1 DEF RadioSignals, q
    <3> DEFINE s == Of("rf", g)
               queues == [unread EXCEPT !["rke"][r] = Tail(@)]
    <3>1. bus' = BusAfter(news) /\ unread' = Delivered(queues, news)
      BY <2>7 DEF React
    <3>2. s \in TaskSignals /\ s \in DOMAIN bus /\ "rke" \in DOMAIN unread
          /\ s \in DOMAIN unread["rke"] /\ IsSeq(unread["rke"][s]) /\ r \in DOMAIN unread["rke"]
      BY DEF RadioSignals, TaskSignals, OfAll
    <3>3. s = r => f = g
      BY NamesAssumption DEF Stems, Bearers, Keys
    <3>4. /\ "rke" \in DOMAIN queues /\ s \in DOMAIN queues["rke"]
          /\ queues["rke"][s] = IF s = r THEN Tail(q) ELSE unread["rke"][s]
      BY <3>2 DEF q
    <3>5. IsSeq(queues["rke"][s])
      BY <2>1, <3>2, <3>4, TailPlaces
    <3> HIDE DEF s, queues, r
    <3>6. /\ s \in DOMAIN bus' /\ bus'[s] = bus[s]
          /\ "rke" \in DOMAIN unread' /\ s \in DOMAIN unread'["rke"]
          /\ unread'["rke"][s] = queues["rke"][s]
      <4>1. Mutes(news, Told) /\ s \in Told
        BY <2>7, <3>2 DEF Told
      <4>2. /\ s \in DOMAIN bus => s \in DOMAIN BusAfter(news) /\ BusAfter(news)[s] = bus[s]
            /\ DOMAIN Delivered(queues, news) = DOMAIN queues
            /\ \A u \in DOMAIN queues :
                  /\ DOMAIN Delivered(queues, news)[u] = DOMAIN queues[u]
                  /\ s \in DOMAIN queues[u] /\ IsSeq(queues[u][s])
                       => Delivered(queues, news)[u][s] = queues[u][s]
        BY <4>1, MuteNews
      <4> QED
        BY <3>1, <3>2, <3>4, <3>5, <4>2
    <3> QED
      BY <3>3, <3>4, <3>6 DEF s
  <2> QED
    BY <2>2, <2>5, <2>6, <2>7, <2>8, <2>9 DEF RkeReads
<1> QED
  BY <1>1, <1>2 DEF RkeStep

\* The signals of the radio, the panels and the others of these have different names.
LEMMA TaskNames ==
  LET plain == {"motor", "lostKey", "chime"}
      at    == OfAll("at", Panels)
      move  == OfAll("move", Panels)
      rf    == OfAll("rf", Fobs)
  IN  /\ rf \cap (plain \cup at \cup move) = {}
      /\ at \cap (plain \cup move) = {}
      /\ move \cap plain = {}
<1>1. {"motor", "lostKey", "chime"} \subseteq PlainSignals
  BY DEF PlainSignals, EntrySignals
<1>2. \A s \in {"rf", "at", "move"}, k \in Bearers : Of(s, k) \notin {"motor", "lostKey", "chime"}
  BY <1>1, NamesAssumption DEF Stems
<1>3. \A s, r \in {"rf", "at", "move"}, k, j \in Bearers : Of(s, k) = Of(r, j) => s = r
  BY NamesAssumption DEF Stems
<1> QED
  BY <1>2, <1>3 DEF OfAll, Bearers, Keys

\* It runs with the lock features, which do not restart.
LEMMA RkeNeverBoots == "rke" \in DOMAIN mem => ~Reboots
  BY DEF Reboots, ComfortTasks

\* Who speaks for the fobs says messages that have codes.
SentSound ==
  /\ world.sent \in [Fobs -> Nat]
  /\ "peps" \in DOMAIN mem =>
        "counter" \in DOMAIN mem["peps"] /\ mem["peps"].counter \in [Fobs -> Nat]

\* The plant's counters count on.
LEMMA PepsCounts ==
  ASSUME "peps" \in DOMAIN mem, "counter" \in DOMAIN mem["peps"],
         mem["peps"].counter \in [Fobs -> Nat], PepsStep
  PROVE  "counter" \in DOMAIN mem'["peps"] /\ mem'["peps"].counter \in [Fobs -> Nat]
<1>1. ASSUME NEW k \in Keys, PepsHearsZone(k)
      PROVE  "counter" \in DOMAIN mem'["peps"] /\ mem'["peps"].counter = mem["peps"].counter
  BY <1>1 DEF PepsHearsZone, React
<1>2. ASSUME NEW s, PepsHearsChallenge(s)
      PROVE  "counter" \in DOMAIN mem'["peps"] /\ mem'["peps"].counter = mem["peps"].counter
  BY <1>2 DEF PepsHearsChallenge, React
<1>3. ASSUME NEW k \in Fobs, PepsHearsButton(k)
      PROVE  "counter" \in DOMAIN mem'["peps"] /\ mem'["peps"].counter \in [Fobs -> Nat]
  <2> DEFINE old == mem["peps"].counter
             new == [mem["peps"] EXCEPT !.counter[k] = old[k] + 1]
  <2>1. mem'["peps"] = new \/ mem'["peps"] = mem["peps"]
    BY <1>3 DEF PepsHearsButton, React
  <2>2. "counter" \in DOMAIN new /\ new.counter = [old EXCEPT ![k] = old[k] + 1]
    OBVIOUS
  <2>3. [old EXCEPT ![k] = old[k] + 1] \in [Fobs -> Nat]
    OBVIOUS
  <2> HIDE DEF new
  <2> QED
    BY <2>1, <2>2, <2>3
<1> QED
  BY <1>1, <1>2, <1>3 DEF PepsStep

\* So do the radio's.
LEMMA SentKept == ASSUME Shape, SentSound, Next PROVE SentSound'
<1>1. world'.sent \in [Fobs -> Nat]
  <2>1. ASSUME NEW f \in Fobs, NEW r \in Team.radio, Radio(f, r[1], r[2])
        PROVE  world'.sent \in [Fobs -> Nat]
    <3>1. r[2] \in Nat
      BY TeamForms
    <3>2. world'.sent = [world.sent EXCEPT ![f] = world.sent[f] + r[2] + 1]
      BY <2>1 DEF Radio, Shape, WorldFields
    <3> HIDE DEF Team
    <3> QED
      BY <3>1, <3>2 DEF SentSound
  <2> QED
    BY <2>1, WorldSteps DEF Pressed, SentSound
<1>2. ASSUME "peps" \in DOMAIN mem'
      PROVE  "counter" \in DOMAIN mem'["peps"] /\ mem'["peps"].counter \in [Fobs -> Nat]
  <2>1. "peps" \in DOMAIN mem
    BY <1>2, WorldSteps
  <2>2. "counter" \in DOMAIN mem["peps"] /\ mem["peps"].counter \in [Fobs -> Nat]
    BY <2>1 DEF SentSound
  <2> DEFINE Goal == "counter" \in DOMAIN mem'["peps"] /\ mem'["peps"].counter \in [Fobs -> Nat]
  <2>3. ASSUME NEW t, t # "peps", Only(t) PROVE Goal
    BY <2>1, <2>2, <2>3 DEF Only
  <2>4. ASSUME UNCHANGED mem PROVE Goal
    BY <2>2, <2>4
  <2>5. ASSUME PepsStep PROVE Goal
    BY <2>1, <2>2, <2>5, PepsCounts
  <2>6. ASSUME TimePasses PROVE Goal
    BY <2>1, <2>2, <2>6, TimeForms
  <2>7. ASSUME Reboots PROVE Goal
    BY <2>1, <2>7 DEF Reboots, ComfortTasks
  <2> QED
    BY StepCases, OnlyForms, <2>3, <2>4, <2>5, <2>6, <2>7 DEF Others
<1> QED
  BY <1>1, <1>2 DEF SentSound

\* The messages keep their codes.
LEMMA RadioKept ==
  ASSUME Shape, FlashSound, SentSound, RadioSignals, Next, ~RkeStep, "rke" \in DOMAIN mem
  PROVE  RadioSignals'
<1>1. ASSUME NEW t, t # "rke", NEW S, Mute(t, S), OfAll("rf", Fobs) \subseteq S
      PROVE  RadioSignals'
  BY <1>1, RadioStays
<1>2. /\ OfAll("rf", Fobs) \subseteq TaskSignals
      /\ OfAll("rf", Fobs) \subseteq TaskSignals \ {"lostKey", "chime"}
      /\ OfAll("rf", Fobs) \subseteq TaskSignals \ {"chime"}
      /\ OfAll("rf", Fobs) \subseteq TaskSignals \ {"motor"}
      /\ OfAll("rf", Fobs) \subseteq TaskSignals \ OfAll("move", Panels)
      /\ OfAll("rf", Fobs) \subseteq TaskSignals \ OfAll("at", Panels)
  BY TaskNames DEF TaskSignals
<1>3. "rke" \notin Spokesmen
  BY DEF Spokesmen, Silent, Others
<1>4. ASSUME NEW f \in Fobs, NEW v, Coded(v), NEW queues, "rke" \in DOMAIN queues,
             queues["rke"] = unread["rke"], bus' = BusAfter(<< <<Of("rf", f), v>> >>),
             unread' = Delivered(queues, << <<Of("rf", f), v>> >>)
      PROVE  RadioSignals'
  BY <1>4, RadioNews
<1>5. Fobs # {} => "rke" \in DOMAIN unread
  BY DEF RadioSignals
<1>6. ASSUME ButtonStep PROVE RadioSignals'
  <2>1. PICK k \in Fobs : PepsHearsButton(k)
    BY <1>6 DEF ButtonStep
  <2> DEFINE action == Val("peps", Of("button", k))
             code == mem["peps"].counter[k] + 1
             queues == [unread EXCEPT !["peps"][Of("button", k)] = Tail(@)]
             v == [action |-> action, code |-> code]
  <2>2. "peps" \in DOMAIN mem
    BY <2>1, Readers DEF PepsHearsButton
  <2>3. Coded(v)
    BY <2>2 DEF SentSound, Coded
  <2>4. "rke" \in DOMAIN queues /\ queues["rke"] = unread["rke"]
    BY <1>5
  <2>5. /\ bus' = BusAfter(<<>>) /\ unread' = Delivered(queues, <<>>)
        \/ /\ bus' = BusAfter(<< <<Of("rf", k), v>> >>)
           /\ unread' = Delivered(queues, << <<Of("rf", k), v>> >>)
    BY <2>1 DEF PepsHearsButton, React
  <2>6. ASSUME bus' = BusAfter(<<>>), unread' = Delivered(queues, <<>>) PROVE RadioSignals'
    <3>1. world'.claims = world.claims
      BY <2>1 DEF PepsHearsButton
    <3>2. Mute("peps", TaskSignals)
      BY <2>1, <2>6, <3>1, MutePublishes, MuteFew
    <3> QED
      BY <1>1, <1>2, <3>2
  <2> HIDE DEF v, queues
  <2> QED
    BY <1>4, <2>3, <2>4, <2>5, <2>6
<1>7. ASSUME RadioStep PROVE RadioSignals'
  <2>1. ASSUME NEW f \in Fobs, NEW r \in Team.radio, Radio(f, r[1], r[2]) PROVE RadioSignals'
    <3> DEFINE code == world.sent[f] + r[2] + 1
               v == [action |-> r[1], code |-> code]
    <3>1. r[2] \in Nat
      BY TeamForms
    <3>2. Coded(v)
      BY <3>1 DEF SentSound, Coded
    <3>3. /\ bus' = BusAfter(<< <<Of("rf", f), v>> >>)
          /\ unread' = Delivered(unread, << <<Of("rf", f), v>> >>)
      BY <2>1 DEF Radio, Publish
    <3> HIDE DEF v
    <3> QED
      BY <1>4, <1>5, <3>2, <3>3
  <2>2. ASSUME NEW f \in Fobs, RadioRepeats(f) PROVE RadioSignals'
    <3> DEFINE v == bus[Of("rf", f)]
    <3>1. Coded(v)
      BY <2>2 DEF RadioRepeats, RadioSignals
    <3>2. /\ bus' = BusAfter(<< <<Of("rf", f), v>> >>)
          /\ unread' = Delivered(unread, << <<Of("rf", f), v>> >>)
      BY <2>2 DEF RadioRepeats, Publish
    <3> HIDE DEF v
    <3> QED
      BY <1>4, <1>5, <3>1, <3>2
  <2> QED
    BY <1>7, <2>1, <2>2 DEF RadioStep, Pressed
<1> QED
  BY MuteCases, RkeNeverBoots, <1>1, <1>2, <1>3, <1>6, <1>7

\* The state of every fob's code follows what has been heard of it.
CodeSound ==
  /\ "code" \in DOMAIN mem["rke"]
  /\ Codes \in [Fobs -> Rolling]
  /\ DOMAIN world.heard = Fobs
  /\ \A f \in Fobs :
        /\ IsSeq(world.heard[f])
        /\ \A i \in DOMAIN world.heard[f] : world.heard[f][i] \in Nat
        /\ Follows(Codes[f], world.heard[f])

\* What is known of rke when it runs.
RkeSound == "rke" \in DOMAIN mem => CodeSound /\ SentSound /\ RadioSignals

\* A message keeps the states of the codes up to date.
LEMMA CodesFollow == ASSUME CodeSound, RkeReads, "code" \in DOMAIN mem'["rke"] PROVE CodeSound'
<1>1. PICK f \in Fobs, code \in Nat :
         /\ mem'["rke"].code = [Codes EXCEPT ![f] = Validate(Codes[f], code)]
         /\ world'.heard = [world.heard EXCEPT ![f] = Append(world.heard[f], code)]
  BY DEF RkeReads
<1> DEFINE r == Codes[f]
           heard == world.heard[f]
<1>2. /\ r \in Rolling /\ IsSeq(heard) /\ \A i \in DOMAIN heard : heard[i] \in Nat
      /\ Follows(r, heard)
  BY DEF CodeSound
<1> HIDE DEF r, heard
<1>3. /\ Validate(r, code) \in Rolling
      /\ Follows(Validate(r, code), Append(heard, code))
  BY <1>2, FollowsOn
<1>4. /\ IsSeq(Append(heard, code))
      /\ \A i \in DOMAIN Append(heard, code) : Append(heard, code)[i] \in Nat
  <2> DEFINE h == Append(heard, code)
  <2>1. /\ IsSeq(h) /\ Len(h) = Len(heard) + 1
        /\ \A i \in DOMAIN heard : h[i] = heard[i]
        /\ h[Len(heard) + 1] = code
    BY <1>2, AppendPlaces
  <2> HIDE DEF h
  <2>2. /\ DOMAIN h = 1..Len(h) /\ DOMAIN heard = 1..Len(heard) /\ Len(heard) \in Nat
    BY <1>2, <2>1, SeqPlaces
  <2>3. \A i \in DOMAIN h : h[i] \in Nat
    BY <1>2, <2>1, <2>2
  <2> QED
    BY <2>1, <2>3 DEF h
<1>5. /\ Codes' = [Codes EXCEPT ![f] = Validate(r, code)]
      /\ world'.heard = [world.heard EXCEPT ![f] = Append(heard, code)]
  BY <1>1 DEF Codes, r, heard
<1>6. Codes' \in [Fobs -> Rolling]
  BY <1>3, <1>5 DEF CodeSound
<1>7. DOMAIN world'.heard = Fobs
  BY <1>5 DEF CodeSound
<1>8. ASSUME NEW g \in Fobs
      PROVE  /\ IsSeq(world'.heard[g])
             /\ \A i \in DOMAIN world'.heard[g] : world'.heard[g][i] \in Nat
             /\ Follows(Codes'[g], world'.heard[g])
  <2>1. CASE g = f
    <3>1. Codes'[g] = Validate(r, code) /\ world'.heard[g] = Append(heard, code)
      BY <1>5, <2>1 DEF CodeSound
    <3> QED
      BY <1>3, <1>4, <3>1
  <2>2. CASE g # f
    <3>1. Codes'[g] = Codes[g] /\ world'.heard[g] = world.heard[g]
      BY <1>5, <2>2 DEF CodeSound
    <3> QED
      BY <3>1 DEF CodeSound
  <2> QED
    BY <2>1, <2>2
<1> QED
  BY <1>6, <1>7, <1>8 DEF CodeSound

\* Every step keeps what is known of rke.
LEMMA RkeKept ==
  ASSUME Shape, FlashSound, RkeSound, [Next]_vars
  PROVE  RkeSound'
<1>1. CASE UNCHANGED vars
  BY <1>1 DEF vars, RkeSound, CodeSound, Codes, SentSound, RadioSignals
<1> SUFFICES ASSUME Next, "rke" \in DOMAIN mem' PROVE RkeSound'
  BY <1>1 DEF RkeSound
<1>2. "rke" \in DOMAIN mem
  BY WorldSteps
<1>3. CodeSound /\ SentSound /\ RadioSignals
  BY <1>2 DEF RkeSound
<1>4. SentSound'
  BY <1>3, SentKept
<1>5. CASE RkeStep
  <2>1. /\ RadioSignals'
        /\ "code" \in DOMAIN mem'["rke"]
        /\ RkeReads \/ (mem'["rke"].code = Codes /\ world'.heard = world.heard)
    BY <1>2, <1>3, <1>5, RkeSteps DEF CodeSound
  <2>2. CASE RkeReads
    BY <1>3, <1>4, <2>1, <2>2, CodesFollow DEF RkeSound
  <2>3. CASE mem'["rke"].code = Codes /\ world'.heard = world.heard
    <3>1. CodeSound'
      BY <1>3, <2>1, <2>3 DEF CodeSound, Codes
    <3> QED
      BY <1>4, <2>1, <3>1 DEF RkeSound
  <2> QED
    BY <2>1, <2>2, <2>3
<1>6. CASE ~RkeStep
  <2>1. RadioSignals'
    BY <1>2, <1>3, <1>6, RadioKept
  <2>2. world'.heard = world.heard
    BY <1>6, WorldSteps
  <2>3. "code" \in DOMAIN mem'["rke"] /\ mem'["rke"].code = mem["rke"].code
    <3> DEFINE Goal == "code" \in DOMAIN mem'["rke"] /\ mem'["rke"].code = mem["rke"].code
    <3>1. "code" \in DOMAIN mem["rke"]
      BY <1>3 DEF CodeSound
    <3>2. ASSUME NEW t, t # "rke", Only(t) PROVE Goal
      BY <1>2, <3>1, <3>2 DEF Only
    <3>3. ASSUME UNCHANGED mem PROVE Goal
      BY <3>1, <3>3
    <3>4. ASSUME TimePasses PROVE Goal
      BY <1>2, <3>1, <3>4, TimeForms
    <3> QED
      BY StepCases, OnlyForms, RkeNeverBoots, <1>2, <1>6, <3>2, <3>3, <3>4 DEF Others
  <2>4. CodeSound'
    BY <1>3, <2>2, <2>3 DEF CodeSound, Codes
  <2> QED
    BY <1>4, <2>1, <2>4 DEF RkeSound
<1> QED
  BY <1>5, <1>6

-----------------------------------------------------------------------------
(* What the signals hold at first.                                         *)

\* The newer values hide the older ones.
LEMMA OverForms ==
  \A new, old, x :
     /\ x \in DOMAIN new => x \in DOMAIN Over(new, old) /\ Over(new, old)[x] = new[x]
     /\ x \notin DOMAIN new /\ x \in DOMAIN old
          => x \in DOMAIN Over(new, old) /\ Over(new, old)[x] = old[x]
  BY DEF Over

\* No message has been sent.
LEMMA RadioBus == \A f \in Fobs : Of("rf", f) \in DOMAIN EntryBus /\ EntryBus[Of("rf", f)] = None
<1> SUFFICES ASSUME NEW f \in Fobs
             PROVE  Of("rf", f) \in DOMAIN EntryBus /\ EntryBus[Of("rf", f)] = None
  OBVIOUS
<1> DEFINE s == Of("rf", f)
           b6 == [x \in OfAll("tap", Taps) |-> "NotPresent"]
           b5 == Over([x \in OfAll("button", Fobs) |-> "NONE"], b6)
           b4 == Over([x \in OfAll("rssi", Keys) \cup OfAll("rf", Fobs) |-> None], b5)
           b3 == Over([x \in OfAll("resp", Keys) |-> 0], b4)
           b2 == Over([x \in OfAll("handle", Doors) \cup OfAll("lock", Sides)
                             \cup OfAll("unlock", Sides) |-> FALSE], b3)
           b1 == Over([x \in OfAll("placed", Keys) \cup OfAll("observed", Keys) |-> "Out"], b2)
<1>1. EntryBus = Over(EntrySignals, b1)
  BY DEF EntryBus
<1>2. s \in OfAll("rf", Fobs)
  BY DEF OfAll
<1>3. /\ s \notin OfAll("placed", Keys) \cup OfAll("observed", Keys) \cup OfAll("resp", Keys)
      /\ s \notin OfAll("handle", Doors) \cup OfAll("lock", Sides) \cup OfAll("unlock", Sides)
  BY NamesAssumption DEF OfAll, Stems, Bearers, Keys
<1>4. s \notin DOMAIN EntrySignals
  <2>1. s \notin PlainSignals
    BY NamesAssumption DEF Stems, Bearers, Keys
  <2> QED
    BY <2>1 DEF PlainSignals
<1> HIDE DEF s, b5
<1>5. s \in DOMAIN b4 /\ b4[s] = None
  BY <1>2, OverForms
<1> HIDE DEF b4
<1>6. s \in DOMAIN b3 /\ b3[s] = None
  BY <1>3, <1>5, OverForms
<1> HIDE DEF b3
<1>7. s \in DOMAIN b2 /\ b2[s] = None
  BY <1>3, <1>6, OverForms
<1> HIDE DEF b2
<1>8. s \in DOMAIN b1 /\ b1[s] = None
  BY <1>3, <1>7, OverForms
<1> HIDE DEF b1
<1>9. s \in DOMAIN EntryBus /\ EntryBus[s] = None
  BY <1>1, <1>4, <1>8, OverForms
<1> QED
  BY <1>9 DEF s

\* LockFeedback starts without sounds.
LEMMA FlashInit == Init => FlashSound
<1> SUFFICES ASSUME Init, "flash" \in DOMAIN mem PROVE FlashSound
  BY DEF FlashSound
<1>1. PICK b : mem["flash"] = Task("flash", b, world).mem
  BY InitForms
<1>2. mem["flash"] = FlashTask(b).mem
  BY <1>1 DEF Task, EntryTasks, ComfortTask
<1> QED
  BY <1>2, FlashStarts DEF FlashSound

\* Nothing has been sent or heard.
LEMMA RkeInit == Init => RkeSound
<1> SUFFICES ASSUME Init, "rke" \in DOMAIN mem PROVE RkeSound
  BY DEF RkeSound
<1>1. PICK name \in DOMAIN Teams :
         /\ world.heard = [f \in Fobs |-> <<>>]
         /\ world.sent = [f \in Fobs |-> 0]
         /\ bus = Over(Teams[name].bus, Over(EntryBus, ComfortBus))
         /\ \A t \in DOMAIN mem : mem[t] = Task(t, bus, world).mem
         /\ unread = [t \in DOMAIN mem |-> [s \in Task(t, bus, world).follows |-> <<>>]]
  BY InitForms
<1>2. DOMAIN <<>> = {} /\ Len(<<>>) = 0 /\ IsSeq(<<>>)
  BY NothingIsSeq, SeqPlaces
<1>3. Task("rke", bus, world) = RkeTask
  BY DEF Task, EntryTasks, EntryTask
<1>4. mem["rke"] = RkeTask.mem
  BY <1>1, <1>3
<1>5. CodeSound
  <2>1. "code" \in DOMAIN mem["rke"] /\ Codes = [f \in Fobs |-> Accepts(0)]
    BY <1>4 DEF RkeTask, Codes
  <2>2. Accepts(0) \in Rolling /\ Follows(Accepts(0), <<>>)
    BY <1>2 DEF Accepts, Rolling, Follows
  <2> QED
    BY <1>1, <1>2, <2>1, <2>2 DEF CodeSound
<1>6. SentSound
  <2>1. ASSUME "peps" \in DOMAIN mem
        PROVE  "counter" \in DOMAIN mem["peps"] /\ mem["peps"].counter = [k \in Fobs |-> 0]
    BY <1>1, <2>1 DEF Task, EntryTasks, EntryTask, PepsTask
  <2> QED
    BY <1>1, <2>1 DEF SentSound
<1>7. RadioSignals
  <2>1. ASSUME NEW f \in Fobs PROVE Of("rf", f) \in DOMAIN bus /\ bus[Of("rf", f)] = None
    <3> DEFINE s == Of("rf", f)
    <3>1. s \in TaskSignals
      BY DEF TaskSignals, OfAll
    <3>2. s \notin DOMAIN Teams[name].bus
      BY <3>1, TeamsAssumption
    <3>3. s \in DOMAIN EntryBus /\ EntryBus[s] = None
      BY RadioBus
    <3> HIDE DEF s
    <3>4. s \in DOMAIN Over(EntryBus, ComfortBus) /\ Over(EntryBus, ComfortBus)[s] = None
      BY <3>3, OverForms
    <3>5. s \in DOMAIN bus /\ bus[s] = None
      BY <1>1, <3>2, <3>4, OverForms
    <3> QED
      BY <3>5 DEF s
  <2>2. "rke" \in DOMAIN unread /\ unread["rke"] = [s \in OfAll("rf", Fobs) |-> <<>>]
    BY <1>1, <1>3 DEF RkeTask
  <2>3. \A f \in Fobs : Of("rf", f) \in DOMAIN unread["rke"] /\ unread["rke"][Of("rf", f)] = <<>>
    BY <2>2 DEF OfAll
  <2> QED
    BY <1>2, <2>1, <2>2, <2>3 DEF RadioSignals
<1> QED
  BY <1>5, <1>6, <1>7 DEF RkeSound

-----------------------------------------------------------------------------
(* Fobs are not locked out.                                                *)

\* Of as many codes in a row as a resync takes, the first newer than the last accepted
\* and the last inside the resync window, one is accepted, whatever else has been heard
\* of the fob before, in whatever order, and whichever messages were repeated (rke.rs:
\* RollingCodeState.validate counts the codes that come in a row).
THEOREM FobsAreNotLockedOut == Spec => []NoFobIsLockedOut
<1> DEFINE Inv == Shape /\ FlashSound /\ RkeSound
<1>1. Init => Inv
  BY ShapeInit, FlashInit, RkeInit
<1>2. Inv /\ [Next]_vars => Inv'
  BY ShapeKept, FlashKept, RkeKept
<1>3. Inv => NoFobIsLockedOut
  <2> SUFFICES ASSUME CodeSound, NEW f \in Fobs,
                      LET heard == world.heard[f]
                          n     == Len(heard)
                          first == n - ResyncRequired + 1
                          last  == mem["rke"].code[f].last
                      IN  /\ first >= 1
                          /\ \A i \in first..(n - 1) : heard[i + 1] = heard[i] + 1
                          /\ heard[first] > last
                          /\ heard[n] - last <= WindowResync
               PROVE  FALSE
    BY DEF NoFobIsLockedOut, Runs, RkeSound
  <2> DEFINE heard == world.heard[f]
             n     == Len(heard)
             first == n - ResyncRequired + 1
             r     == Codes[f]
  <2>1. /\ n \in Nat /\ ResyncRequired \in Nat /\ ResyncRequired > 1
        /\ first \in 1..n
    BY SeqPlaces, RkeAssumption DEF CodeSound
  <2>2. InARow(heard, first) /\ heard[first] > r.last /\ heard[n] - r.last <= WindowResync
    BY DEF InARow, Codes
  <2>3. r \in Rolling /\ Follows(r, heard)
    BY DEF CodeSound
  <2> HIDE DEF heard, r
  <2>4. r.start # 0 /\ r.count >= n - first + 1 /\ r.count < ResyncRequired
    <3> HIDE DEF first
    <3> QED
      BY <2>1, <2>2, <2>3 DEF Follows
  <2>5. n - first + 1 = ResyncRequired
    BY <2>1
  <2>6. r.count \in Nat
    BY <2>3 DEF Rolling
  <2> HIDE DEF first, n
  <2> QED
    BY <2>1, <2>4, <2>5, <2>6
<1> QED
  BY <1>1, <1>2, <1>3, PTL DEF Spec

-----------------------------------------------------------------------------
(* The lost-key warning.                                                   *)

\* The variables of KeyLostWarning, by name.
LostFields == {"power", "open", "trunkOpen", "latched", "missed", "timer"}

\* A record with them, and both its sleeps.
LostRecord(m) ==
  /\ DOMAIN m = LostFields
  /\ DOMAIN m.timer = {"warning", "period"}
  /\ m.timer.warning \in Nat \cup {Off}

\* The warning shows exactly while it is timed, what stops it knows of it, and the chime
\* is on unless LockFeedback, which ends chimes of its own, runs too.
LostSound ==
  "lost" \in DOMAIN mem =>
     /\ "lostKey" \in DOMAIN bus
     /\ LostRecord(mem["lost"])
     /\ bus["lostKey"] = (mem["lost"].timer.warning # Off)
     /\ mem["lost"].timer.warning # Off => mem["lost"].latched = TRUE
     /\ "flash" \notin DOMAIN mem =>
           /\ "chime" \in DOMAIN bus
           /\ mem["lost"].timer.warning # Off => bus["chime"] = TRUE

\* Of two news of two signals the bus shows both.
LEMMA TwoNews ==
  ASSUME NEW s, NEW v, NEW r, NEW w, s # r, NEW b, b = BusAfter(<< <<s, v>>, <<r, w>> >>)
  PROVE  s \in DOMAIN b /\ b[s] = v /\ r \in DOMAIN b /\ b[r] = w
<1> DEFINE news == << <<s, v>>, <<r, w>> >>
<1>1. /\ DOMAIN news = {1, 2}
      /\ news[1][1] = s /\ news[1][2] = v /\ news[2][1] = r /\ news[2][2] = w
  OBVIOUS
<1> HIDE DEF news
<1>2. PlacesOf(news, s) = {1} /\ PlacesOf(news, r) = {2}
  BY <1>1 DEF PlacesOf
<1>3. \A x \in {s, r} : x \in {news[i][1] : i \in DOMAIN news}
  BY <1>1
<1>4. BusAfter(news)[s] = v /\ BusAfter(news)[r] = w
  BY <1>1, <1>2, <1>3 DEF BusAfter, Over
<1>5. s \in DOMAIN BusAfter(news) /\ r \in DOMAIN BusAfter(news)
  BY <1>3 DEF BusAfter, Over
<1> QED
  BY <1>4, <1>5 DEF news

\* No news leave the bus.
LEMMA NoNews == \A s \in DOMAIN bus : s \in DOMAIN BusAfter(<<>>) /\ BusAfter(<<>>)[s] = bus[s]
<1>1. DOMAIN <<>> = {}
  BY NothingIsSeq, SeqPlaces
<1> QED
  BY <1>1 DEF BusAfter, Over

\* A warning's news.
LEMMA WarningNews ==
  \A b \in BOOLEAN :
     LET after == BusAfter(WarningIs(b)) IN
     {"lostKey", "chime"} \subseteq DOMAIN after /\ after["lostKey"] = b /\ after["chime"] = b
<1> DEFINE yes == TRUE
           no  == FALSE
           on  == BusAfter(WarningIs(yes))
           off == BusAfter(WarningIs(no))
<1>1. /\ WarningIs(yes) = << <<"lostKey", yes>>, <<"chime", yes>> >>
      /\ WarningIs(no) = << <<"chime", no>>, <<"lostKey", no>> >>
  BY DEF WarningIs
<1> HIDE DEF yes, no
<1>2. /\ on = BusAfter(<< <<"lostKey", yes>>, <<"chime", yes>> >>)
      /\ off = BusAfter(<< <<"chime", no>>, <<"lostKey", no>> >>)
  BY <1>1
<1> HIDE DEF on, off
<1>3. "lostKey" \in DOMAIN on /\ on["lostKey"] = yes /\ "chime" \in DOMAIN on /\ on["chime"] = yes
  BY <1>2, TwoNews
<1>4. "chime" \in DOMAIN off /\ off["chime"] = no /\ "lostKey" \in DOMAIN off /\ off["lostKey"] = no
  BY <1>2, TwoNews
<1> QED
  BY <1>3, <1>4 DEF on, off, yes, no

\* What a step of KeyLostWarning does with the warning: nothing, or it stops or starts it.
LostForms ==
  \E m, news :
     /\ mem' = [mem EXCEPT !["lost"] = m]
     /\ bus' = BusAfter(news)
     /\ LostRecord(m)
     /\ \/ /\ news = <<>>
           /\ m.timer.warning = mem["lost"].timer.warning
           /\ m.timer.warning # Off => m.latched = mem["lost"].latched
        \/ news = WarningIs(TRUE) /\ m.timer.warning # Off /\ m.latched = TRUE
        \/ news = WarningIs(FALSE) /\ m.timer.warning = Off

\* What clears the latch stops a warning that is timed.
LEMMA ClearedForms ==
  ASSUME NEW m, NEW n, LostRecord(m), LostRecord(n), n.latched = m.latched, n.timer = m.timer,
         m.timer.warning # Off => m.latched = TRUE
  PROVE  /\ LostRecord(Cleared(n))
         /\ \/ /\ ClearedNews(m) = <<>>
               /\ Cleared(n).timer.warning = m.timer.warning
               /\ m.timer.warning = Off
            \/ ClearedNews(m) = WarningIs(FALSE) /\ Cleared(n).timer.warning = Off
<1>1. /\ DOMAIN Cleared(n) = LostFields
      /\ DOMAIN Cleared(n).timer = {"warning", "period"}
      /\ Cleared(n).timer.warning = IF n.latched THEN Off ELSE n.timer.warning
  BY DEF Cleared, LostRecord, LostFields
<1>2. LostRecord(Cleared(n))
  BY <1>1 DEF LostRecord
<1>3. CASE m.timer.warning = Off
  BY <1>1, <1>2, <1>3 DEF ClearedNews
<1>4. CASE m.timer.warning # Off
  BY <1>1, <1>2, <1>4 DEF ClearedNews
<1> QED
  BY <1>3, <1>4

\* So are its steps.
LEMMA LostSteps ==
  ASSUME LostRecord(mem["lost"]),
         mem["lost"].timer.warning # Off => mem["lost"].latched = TRUE, Lost
  PROVE  LostForms
<1> DEFINE old == mem["lost"]
<1>1. ASSUME NEW m, LostRecord(m), m.timer = old.timer, m.latched = old.latched,
             mem' = [mem EXCEPT !["lost"] = m], bus' = BusAfter(<<>>)
      PROVE  LostForms
  BY <1>1 DEF LostForms
<1>2. ASSUME NEW n, LostRecord(n), n.timer = old.timer, n.latched = old.latched,
             mem' = [mem EXCEPT !["lost"] = Cleared(n)], bus' = BusAfter(ClearedNews(old))
      PROVE  LostForms
  <2>1. /\ LostRecord(Cleared(n))
        /\ \/ /\ ClearedNews(old) = <<>>
              /\ Cleared(n).timer.warning = old.timer.warning
              /\ old.timer.warning = Off
           \/ ClearedNews(old) = WarningIs(FALSE) /\ Cleared(n).timer.warning = Off
    BY <1>2, ClearedForms
  <2> DEFINE c == Cleared(n)
             news == ClearedNews(old)
  <2>2. mem' = [mem EXCEPT !["lost"] = c] /\ bus' = BusAfter(news)
    BY <1>2
  <2> HIDE DEF c, news
  <2>3. /\ LostRecord(c)
        /\ \/ news = <<>> /\ c.timer.warning = old.timer.warning /\ old.timer.warning = Off
           \/ news = WarningIs(FALSE) /\ c.timer.warning = Off
    BY <2>1 DEF c, news
  <2> QED
    BY <2>2, <2>3 DEF LostForms
<1>3. ASSUME LostHearsPower PROVE LostForms
  <2> DEFINE on == PowerOn(Val("lost", "ignition"))
             n  == [old EXCEPT !.power = on]
  <2>1. LostRecord(n) /\ n.timer = old.timer /\ n.latched = old.latched
    BY DEF LostRecord, LostFields
  <2>2. \/ React("lost", "ignition", Cleared(n), ClearedNews(old))
        \/ React("lost", "ignition", n, <<>>)
    BY <1>3 DEF LostHearsPower
  <2> HIDE DEF n
  <2> QED
    BY <1>1, <1>2, <2>1, <2>2 DEF React
<1>4. ASSUME NEW s \in {"open", "trunkOpen"}, LostHearsOpening(s) PROVE LostForms
  <2> DEFINE n == [old EXCEPT ![s] = Val("lost", s)]
  <2>1. LostRecord(n) /\ n.timer = old.timer /\ n.latched = old.latched
    BY DEF LostRecord, LostFields
  <2>2. \/ React("lost", s, Cleared(n), ClearedNews(old))
        \/ React("lost", s, n, <<>>)
    BY <1>4 DEF LostHearsOpening
  <2> HIDE DEF n
  <2> QED
    BY <1>1, <1>2, <2>1, <2>2 DEF React
<1>5. ASSUME LostPeriod \/ LostMisses PROVE LostForms
  <2>1. \E m : /\ LostRecord(m)
               /\ m.timer.warning = old.timer.warning /\ m.latched = old.latched
               /\ mem' = [mem EXCEPT !["lost"] = m] /\ bus' = BusAfter(<<>>)
    BY <1>5 DEF LostPeriod, LostMisses, Act, Publish, LostRecord, LostFields
  <2> QED
    BY <2>1 DEF LostForms
<1>6. ASSUME NEW i, LostResult(i) PROVE LostForms
  <2> DEFINE gone == world.searches[i].found = <<>>
             starts == gone /\ old.power /\ Sealed(old) /\ ~old.latched
             m == [old EXCEPT !.latched = TRUE, !.timer.warning = WarningTime]
  <2>1. \/ Act("lost", m, WarningIs(TRUE))
        \/ Act("lost", Cleared(old), ClearedNews(old))
        \/ Act("lost", old, <<>>)
    <3>1. CASE starts
      BY <1>6, <3>1 DEF LostResult
    <3>2. CASE ~gone
      BY <1>6, <3>2 DEF LostResult
    <3>3. CASE gone /\ ~starts
      BY <1>6, <3>3 DEF LostResult
    <3> QED
      BY <3>1, <3>2, <3>3
  <2>2. LostRecord(m) /\ m.timer.warning # Off /\ m.latched = TRUE
    BY KeyFeaturesAssumption DEF LostRecord, LostFields, Off
  <2> HIDE DEF m
  <2>3. ASSUME Act("lost", m, WarningIs(TRUE)) PROVE LostForms
    BY <2>2, <2>3 DEF Act, Publish, LostForms
  <2> QED
    BY <1>1, <1>2, <2>1, <2>3 DEF Act, Publish
<1>7. ASSUME LostExpires PROVE LostForms
  <2> DEFINE m == [old EXCEPT !.timer.warning = Off]
  <2>1. LostRecord(m) /\ m.timer.warning = Off
    BY DEF LostRecord, LostFields
  <2>2. Act("lost", m, WarningIs(FALSE))
    BY <1>7 DEF LostExpires
  <2> HIDE DEF m
  <2> QED
    BY <2>1, <2>2 DEF Act, Publish, LostForms
<1> QED
  BY <1>3, <1>4, <1>5, <1>6, <1>7 DEF Lost

\* It runs with the lock features, which do not restart.
LEMMA LostNeverBoots == "lost" \in DOMAIN mem => ~Reboots
  BY DEF Reboots, ComfortTasks

\* Nobody else changes what is shown of the warning, and only LockFeedback the chime.
LEMMA WarningStays ==
  ASSUME Shape, FlashSound, Next, ~Lost, "lost" \in DOMAIN mem
  PROVE  /\ "lostKey" \in DOMAIN bus
              => "lostKey" \in DOMAIN bus' /\ bus'["lostKey"] = bus["lostKey"]
         /\ "flash" \notin DOMAIN mem /\ "chime" \in DOMAIN bus
               => "chime" \in DOMAIN bus' /\ bus'["chime"] = bus["chime"]
<1> DEFINE Stays(s) == s \in DOMAIN bus => s \in DOMAIN bus' /\ bus'[s] = bus[s]
           Goal     == Stays("lostKey") /\ ("flash" \notin DOMAIN mem => Stays("chime"))
<1>1. {"lostKey", "chime"} \subseteq TaskSignals
  BY DEF TaskSignals
<1>2. ASSUME NEW t, NEW S, Mute(t, S), {"lostKey", "chime"} \subseteq S PROVE Goal
  BY <1>2 DEF Mute
<1>3. /\ OfAll("rf", Fobs) \cap {"motor", "lostKey", "chime"} = {}
      /\ OfAll("at", Panels) \cap {"motor", "lostKey", "chime"} = {}
      /\ OfAll("move", Panels) \cap {"motor", "lostKey", "chime"} = {}
  BY TaskNames
<1>4. /\ {"lostKey", "chime"} \subseteq TaskSignals \ OfAll("rf", Fobs)
      /\ {"lostKey", "chime"} \subseteq TaskSignals \ OfAll("at", Panels)
      /\ {"lostKey", "chime"} \subseteq TaskSignals \ OfAll("move", Panels)
      /\ {"lostKey", "chime"} \subseteq TaskSignals \ {"motor"}
  BY <1>1, <1>3
<1>5. ASSUME Runs("flash"), Mute("flash", TaskSignals \ {"chime"}) PROVE Goal
  <2>1. "lostKey" \in TaskSignals \ {"chime"}
    BY <1>1
  <2> QED
    BY <1>5, <2>1 DEF Mute, Runs
<1> HIDE DEF Goal
<1>6. Goal
  BY MuteCases, LostNeverBoots, <1>1, <1>2, <1>4, <1>5
<1> QED
  BY <1>6 DEF Goal

\* Every step keeps what is known of the warning.
LEMMA LostKept == ASSUME Shape, FlashSound, LostSound, [Next]_vars PROVE LostSound'
<1>1. CASE UNCHANGED vars
  BY <1>1 DEF vars, LostSound
<1> SUFFICES ASSUME Next, "lost" \in DOMAIN mem' PROVE LostSound'
  BY <1>1 DEF LostSound
<1>2. "lost" \in DOMAIN mem /\ DOMAIN mem' = DOMAIN mem
  BY WorldSteps
<1> DEFINE old == mem["lost"]
<1>3. /\ "lostKey" \in DOMAIN bus
      /\ LostRecord(old)
      /\ bus["lostKey"] = (old.timer.warning # Off)
      /\ old.timer.warning # Off => old.latched = TRUE
      /\ "flash" \notin DOMAIN mem => "chime" \in DOMAIN bus
      /\ "flash" \notin DOMAIN mem /\ old.timer.warning # Off => bus["chime"] = TRUE
  BY <1>2 DEF LostSound
<1>4. CASE Lost
  <2>1. LostForms
    BY <1>3, <1>4, LostSteps
  <2>2. PICK m, news :
           /\ mem' = [mem EXCEPT !["lost"] = m]
           /\ bus' = BusAfter(news)
           /\ LostRecord(m)
           /\ \/ /\ news = <<>>
                 /\ m.timer.warning = old.timer.warning
                 /\ m.timer.warning # Off => m.latched = old.latched
              \/ news = WarningIs(TRUE) /\ m.timer.warning # Off /\ m.latched = TRUE
              \/ news = WarningIs(FALSE) /\ m.timer.warning = Off
    BY <2>1 DEF LostForms
  <2>3. mem'["lost"] = m
    BY <1>2, <2>2
  <2>4. CASE /\ news = <<>>
             /\ m.timer.warning = old.timer.warning
             /\ m.timer.warning # Off => m.latched = old.latched
    <3>1. \A s \in DOMAIN bus : s \in DOMAIN bus' /\ bus'[s] = bus[s]
      BY <2>2, <2>4, NoNews
    <3> QED
      BY <1>2, <1>3, <2>2, <2>3, <2>4, <3>1 DEF LostSound
  <2>5. CASE news = WarningIs(TRUE) /\ m.timer.warning # Off /\ m.latched = TRUE
    <3>1. "lostKey" \in DOMAIN bus' /\ "chime" \in DOMAIN bus'
          /\ bus'["lostKey"] = TRUE /\ bus'["chime"] = TRUE
      BY <2>2, <2>5, WarningNews
    <3> QED
      BY <2>2, <2>3, <2>5, <3>1 DEF LostSound
  <2>6. CASE news = WarningIs(FALSE) /\ m.timer.warning = Off
    <3>1. "lostKey" \in DOMAIN bus' /\ "chime" \in DOMAIN bus' /\ bus'["lostKey"] = FALSE
      BY <2>2, <2>6, WarningNews
    <3> QED
      BY <2>2, <2>3, <2>6, <3>1 DEF LostSound
  <2> QED
    BY <2>2, <2>4, <2>5, <2>6
<1>5. CASE ~Lost
  <2> DEFINE new == mem'["lost"]
             Goal == /\ LostRecord(new)
                     /\ (new.timer.warning # Off) = (old.timer.warning # Off)
                     /\ new.latched = old.latched
  <2>1. ASSUME NEW t, t # "lost", Only(t) PROVE Goal
    BY <1>2, <1>3, <2>1 DEF Only
  <2>2. ASSUME UNCHANGED mem PROVE Goal
    BY <1>3, <2>2
  <2>3. ASSUME TimePasses PROVE Goal
    <3>1. new = [old EXCEPT !.timer = Passed(@)]
      BY <1>2, <2>3, TimeForms
    <3>2. new.timer = Passed(old.timer) /\ new.latched = old.latched /\ DOMAIN new = LostFields
      BY <1>3, <3>1 DEF LostRecord, LostFields
    <3>3. /\ DOMAIN new.timer = {"warning", "period"}
          /\ new.timer.warning = IF old.timer.warning > 0 THEN old.timer.warning - 1
                                                          ELSE old.timer.warning
      BY <1>3, <3>2 DEF LostRecord, Passed
    <3> HIDE DEF new
    <3> QED
      BY <1>3, <3>2, <3>3 DEF LostRecord, Off
  <2> HIDE DEF Goal
  <2>4. Goal
    BY StepCases, OnlyForms, LostNeverBoots, <1>2, <1>5, <2>1, <2>2, <2>3 DEF Others
  <2>5. "lostKey" \in DOMAIN bus' /\ bus'["lostKey"] = bus["lostKey"]
    BY <1>2, <1>3, <1>5, WarningStays
  <2>6. "flash" \notin DOMAIN mem => "chime" \in DOMAIN bus' /\ bus'["chime"] = bus["chime"]
    BY <1>2, <1>3, <1>5, WarningStays
  <2> QED
    BY <1>2, <1>3, <2>4, <2>5, <2>6 DEF LostSound, Goal
<1> QED
  BY <1>4, <1>5

\* No warning shows at first.
LEMMA LostInit == Init => LostSound
<1> SUFFICES ASSUME Init, "lost" \in DOMAIN mem PROVE LostSound
  BY DEF LostSound
<1>1. PICK name \in DOMAIN Teams :
         /\ bus = Over(Teams[name].bus, Over(EntryBus, ComfortBus))
         /\ \A t \in DOMAIN mem : mem[t] = Task(t, bus, world).mem
  BY InitForms
<1>2. mem["lost"] = LostTask(bus).mem
  BY <1>1 DEF Task, EntryTasks, EntryTask
<1>3. /\ LostRecord(mem["lost"])
      /\ mem["lost"].timer.warning = Off
  BY <1>2 DEF LostTask, LostRecord, LostFields
<1>4. ASSUME NEW s \in {"lostKey", "chime"} PROVE s \in DOMAIN bus /\ bus[s] = FALSE
  <2>1. s \in DOMAIN EntrySignals /\ EntrySignals[s] = FALSE
    <3>1. {"lostKey", "chime"} \subseteq DOMAIN EntrySignals
      BY DEF EntrySignals
    <3>2. EntrySignals["lostKey"] = FALSE
      BY DEF EntrySignals
    <3>3. EntrySignals["chime"] = FALSE
      BY DEF EntrySignals
    <3>4. CASE s = "lostKey"
      BY <3>1, <3>2, <3>4
    <3>5. CASE s = "chime"
      BY <3>1, <3>3, <3>5
    <3> QED
      BY <3>4, <3>5
  <2>2. s \in DOMAIN EntryBus /\ EntryBus[s] = FALSE
    <3> DEFINE b6 == [x \in OfAll("tap", Taps) |-> "NotPresent"]
               b5 == Over([x \in OfAll("button", Fobs) |-> "NONE"], b6)
               b4 == Over([x \in OfAll("rssi", Keys) \cup OfAll("rf", Fobs) |-> None], b5)
               b3 == Over([x \in OfAll("resp", Keys) |-> 0], b4)
               b2 == Over([x \in OfAll("handle", Doors) \cup OfAll("lock", Sides)
                                 \cup OfAll("unlock", Sides) |-> FALSE], b3)
               b1 == Over([x \in OfAll("placed", Keys) \cup OfAll("observed", Keys) |-> "Out"], b2)
    <3>1. EntryBus = Over(EntrySignals, b1)
      BY DEF EntryBus
    <3> HIDE DEF b1
    <3>2. s \in DOMAIN EntryBus /\ EntryBus[s] = EntrySignals[s]
      BY <2>1, <3>1, OverForms
    <3> QED
      BY <2>1, <3>2
  <2>3. s \in DOMAIN Over(EntryBus, ComfortBus) /\ Over(EntryBus, ComfortBus)[s] = FALSE
    BY <2>2, OverForms
  <2>4. s \notin DOMAIN Teams[name].bus
    BY TeamsAssumption DEF TaskSignals
  <2> QED
    BY <1>1, <2>3, <2>4, OverForms
<1> QED
  BY <1>3, <1>4 DEF LostSound

\* A lost-key warning that shows is being timed, whatever else runs and happens: it ends
\* (key_lost_warning.rs: the telltale is published on exactly where the deadline is set).
THEOREM LostWarningEnds ==
  Spec => [](Runs("lost") /\ bus["lostKey"] => mem["lost"].timer.warning # Off)
<1> DEFINE Inv == Shape /\ FlashSound /\ LostSound
<1>1. Init => Inv
  BY ShapeInit, FlashInit, LostInit
<1>2. Inv /\ [Next]_vars => Inv'
  BY ShapeKept, FlashKept, LostKept
<1>3. Inv => (Runs("lost") /\ bus["lostKey"] => mem["lost"].timer.warning # Off)
  BY DEF LostSound, Runs
<1> QED
  BY <1>1, <1>2, <1>3, PTL DEF Spec

\* Where LockFeedback, which ends chimes of its own, does not run, the chime sounds with
\* it too (key_lost_warning.rs: the chime is published on and off with the telltale).
THEOREM LostWarningSounds == Spec /\ []~Runs("flash") => []LostWarningIsTimed
<1> DEFINE Inv == Shape /\ FlashSound /\ LostSound
<1>1. Init => Inv
  BY ShapeInit, FlashInit, LostInit
<1>2. Inv /\ [Next]_vars => Inv'
  BY ShapeKept, FlashKept, LostKept
<1>3. Inv /\ ~Runs("flash") => LostWarningIsTimed
  BY DEF LostSound, Runs, LostWarningIsTimed
<1> QED
  BY <1>1, <1>2, <1>3, PTL DEF Spec

-----------------------------------------------------------------------------
(* The window's motor.                                                     *)

\* What PowerWindow claims for the command c.
MotorClaims(c) ==
  IF c \in {"STOPPED", None} THEN <<>> ELSE <<Claim("PowerWindow", "motor", Medium, c)>>

\* What the motor is told then.
MotorShows(c) == IF c = None THEN "STOPPED" ELSE c

\* The variables of PowerWindow, by name.
WindowFields == {"state", "detent", "child", "dap", "motor", "timer"}

\* A record with them.
WindowRecord(m) == DOMAIN m = WindowFields /\ DOMAIN m.state = Sources

\* The motor is told what PowerWindow claims for the one switch that counts.
MotorSound ==
  /\ "motor" \in DOMAIN bus
  /\ "motor" \in DOMAIN world.claims
  /\ "window" \in DOMAIN mem =>
        /\ WindowRecord(mem["window"])
        /\ Heard(mem["window"]) # Sources
        /\ mem["window"].motor = MotorFor(mem["window"])
        /\ world.claims["motor"] = MotorClaims(mem["window"].motor)
        /\ bus["motor"] = MotorShows(mem["window"].motor)

\* A claim of PowerWindow shows, and without one the motor stops.
LEMMA MotorIsShown == \A c : Shown(MotorClaims(c), "motor") = MotorShows(c)
<1> SUFFICES ASSUME NEW c PROVE Shown(MotorClaims(c), "motor") = MotorShows(c)
  OBVIOUS
<1>1. CASE c \in {"STOPPED", None}
  BY <1>1 DEF Shown, MotorClaims, MotorShows, Unclaimed
<1>2. CASE c \notin {"STOPPED", None}
  <2> DEFINE r  == Claim("PowerWindow", "motor", Medium, c)
             cs == <<r>>
  <2>1. cs # <<>> /\ DOMAIN cs = {1} /\ cs[1].value = c /\ cs[1].priority = 2
    BY DEF Claim, Medium
  <2>2. MotorClaims(c) = cs /\ MotorShows(c) = c
    BY <1>2 DEF MotorClaims, MotorShows
  <2> HIDE DEF cs
  <2>3. Winner(cs) = 1
    <3>1. \A i \in {1} : \A j \in DOMAIN cs :
             cs[j].priority <= cs[i].priority /\ (j > i => cs[j].priority < cs[i].priority)
      BY <2>1
    <3> QED
      BY <2>1, <3>1 DEF Winner
  <2> QED
    BY <2>1, <2>2, <2>3 DEF Shown
<1> QED
  BY <1>1, <1>2

\* What becomes of the claim under a request.
LEMMA MotorServed ==
  ASSUME NEW c, NEW r, r.by = "PowerWindow"
  PROVE  Served(MotorClaims(c), r) = IF r.value = None THEN <<>> ELSE <<r>>
<1> DEFINE cs == MotorClaims(c)
<1>1. Without(cs, "PowerWindow") = <<>>
  <2>1. CASE cs = <<>>
    <3>1. DOMAIN <<>> = {}
      BY NothingIsSeq, SeqPlaces
    <3> QED
      BY <2>1, <3>1 DEF Without
  <2>2. CASE cs # <<>>
    <3> DEFINE e == Claim("PowerWindow", "motor", Medium, c)
    <3>1. cs = <<e>> /\ e.by = "PowerWindow"
      BY <2>2 DEF MotorClaims, Claim
    <3> HIDE DEF cs, e
    <3>2. DOMAIN cs = {1} /\ cs[1].by = "PowerWindow"
      BY <3>1
    <3>3. Without(cs, "PowerWindow") = RemoveAt(cs, 1)
      BY <3>2 DEF Without
    <3>4. RemoveAt(cs, 1) = <<>>
      BY <3>1 DEF RemoveAt
    <3> QED
      BY <3>3, <3>4
  <2> QED
    BY <2>1, <2>2
<1> HIDE DEF cs
<1>2. Served(cs, r) = <<>> \o (IF r.value = None THEN <<>> ELSE <<r>>)
  BY <1>1 DEF Served
<1> QED
  BY <1>2 DEF cs

\* The arbiter lets PowerWindow claim and release.
LEMMA MotorIsAllowed ==
  /\ Allows(Release("PowerWindow", "motor"))
  /\ \A c : Allows(Claim("PowerWindow", "motor", Medium, c))
<1>1. [by |-> "PowerWindow", signal |-> "motor", priority |-> Medium] \in AllowList
  BY DEF AllowList, WindowAllows, Entries
<1> QED
  BY <1>1 DEF Allows, Claim, Release

\* The claims after one request of PowerWindow.
LEMMA MotorRequested ==
  ASSUME "motor" \in DOMAIN world.claims, NEW c, world.claims["motor"] = MotorClaims(c),
         NEW r, r.by = "PowerWindow", r.signal = "motor", Allows(r)
  PROVE  AllServed(<<r>>)["motor"] = IF r.value = None THEN <<>> ELSE <<r>>
<1> DEFINE rs  == <<r>>
           own == {i \in DOMAIN rs : rs[i].signal = "motor" /\ Allows(rs[i])}
<1>1. DOMAIN rs = {1} /\ rs[1] = r
  OBVIOUS
<1> HIDE DEF rs
<1>2. own = {1}
  BY <1>1
<1>3. AllServed(rs)["motor"] = Served(world.claims["motor"], rs[CHOOSE i \in own : TRUE])
  BY <1>2 DEF AllServed
<1>4. (CHOOSE i \in own : TRUE) = 1
  BY <1>2
<1> QED
  BY <1>1, <1>3, <1>4, MotorServed DEF rs

\* What PowerWindow requests makes the claims those of its command.
LEMMA MotorClaimed ==
  ASSUME "motor" \in DOMAIN world.claims, NEW n, world.claims["motor"] = MotorClaims(n.motor)
  PROVE  AllServed(MotorRequests(n))["motor"] = MotorClaims(MotorFor(n))
<1> DEFINE c == MotorFor(n)
           r == Claim("PowerWindow", "motor", Medium, c)
           s == Release("PowerWindow", "motor")
<1>1. CASE c = n.motor
  <2>1. MotorRequests(n) = <<>>
    BY <1>1 DEF MotorRequests
  <2>2. DOMAIN <<>> = {}
    BY NothingIsSeq, SeqPlaces
  <2>3. AllServed(<<>>)["motor"] = world.claims["motor"]
    BY <2>2 DEF AllServed
  <2> QED
    BY <1>1, <2>1, <2>3
<1>2. CASE c # n.motor /\ c = "STOPPED"
  <2>1. MotorRequests(n) = <<s>>
    BY <1>2 DEF MotorRequests
  <2>2. s.by = "PowerWindow" /\ s.signal = "motor" /\ s.value = None /\ Allows(s)
    BY MotorIsAllowed DEF Release
  <2> HIDE DEF s, c
  <2>3. AllServed(<<s>>)["motor"] = <<>>
    BY <2>2, MotorRequested
  <2>4. MotorClaims(c) = <<>>
    BY <1>2 DEF MotorClaims
  <2> QED
    BY <2>1, <2>3, <2>4 DEF c
<1>3. CASE c # n.motor /\ c # "STOPPED"
  <2>1. MotorRequests(n) = <<r>>
    BY <1>3 DEF MotorRequests
  <2>2. r.by = "PowerWindow" /\ r.signal = "motor" /\ r.value = c
    BY DEF Claim
  <2>3. Allows(r)
    BY MotorIsAllowed
  <2>4. MotorClaims(c) = IF c = None THEN <<>> ELSE <<r>>
    BY <1>3 DEF MotorClaims
  <2> HIDE DEF r, c
  <2>5. AllServed(<<r>>)["motor"] = IF c = None THEN <<>> ELSE <<r>>
    BY <2>2, <2>3, MotorRequested
  <2> QED
    BY <2>1, <2>4, <2>5 DEF c
<1> QED
  BY <1>1, <1>2, <1>3

\* And so the motor is told its command.
LEMMA MotorTold ==
  ASSUME DOMAIN world = WorldFields, "motor" \in DOMAIN world.claims, "motor" \in DOMAIN bus,
         NEW n, world.claims["motor"] = MotorClaims(n.motor), bus["motor"] = MotorShows(n.motor),
         NEW q, Requesting(q, <<>>, MotorRequests(n))
  PROVE  /\ "motor" \in DOMAIN world'.claims /\ "motor" \in DOMAIN bus'
         /\ world'.claims["motor"] = MotorClaims(MotorFor(n))
         /\ bus'["motor"] = MotorShows(MotorFor(n))
<1> DEFINE claims == AllServed(MotorRequests(n))
           shown  == Changed(claims)
<1>1. /\ bus' = Over(shown, BusAfter(<<>>))
      /\ world'.claims = claims
  BY DEF Requesting, WorldFields
<1>2. "motor" \in DOMAIN claims /\ claims["motor"] = MotorClaims(MotorFor(n))
  BY MotorClaimed DEF AllServed
<1> HIDE DEF claims
<1>3. /\ Shown(claims["motor"], "motor") = MotorShows(MotorFor(n))
      /\ Shown(world.claims["motor"], "motor") = bus["motor"]
  BY <1>2, MotorIsShown
<1>4. "motor" \in DOMAIN BusAfter(<<>>) /\ BusAfter(<<>>)["motor"] = bus["motor"]
  BY NoNews
<1>5. CASE "motor" \in DOMAIN shown
  <2>1. shown["motor"] = Shown(claims["motor"], "motor")
    BY <1>5 DEF Changed
  <2> HIDE DEF shown
  <2>2. "motor" \in DOMAIN bus' /\ bus'["motor"] = shown["motor"]
    BY <1>1, <1>5, OverForms
  <2> QED
    BY <1>1, <1>2, <1>3, <2>1, <2>2
<1>6. CASE "motor" \notin DOMAIN shown
  <2>1. Shown(claims["motor"], "motor") = Shown(world.claims["motor"], "motor")
    BY <1>2, <1>6 DEF Changed
  <2> HIDE DEF shown
  <2>2. "motor" \in DOMAIN bus' /\ bus'["motor"] = bus["motor"]
    BY <1>1, <1>4, <1>6, OverForms
  <2> QED
    BY <1>1, <1>2, <1>3, <2>1, <2>2
<1> QED
  BY <1>5, <1>6

-----------------------------------------------------------------------------
(* The switch that counts.                                                 *)

\* From old to new the switches that count keep their direction, no other takes over
\* from the one that did, and not both count.
KeepsDirection(old, new) ==
  /\ Heard(new) # Sources
  /\ \A src \in Heard(old) \cap Heard(new) : new.state[src][2] = old.state[src][2]
  /\ \A a \in Heard(old), b \in Heard(new) : a # b => Heard(old) = Sources \/ Heard(new) = Sources

\* A command other than a stop is that of the one switch that counts.
LEMMA CommandOfOne ==
  ASSUME NEW m, MotorFor(m) # "STOPPED"
  PROVE  \E src \in Sources : Heard(m) = {src} /\ MotorFor(m) = m.state[src][2]
<1>1. Cardinality(Heard(m)) = 1 /\ MotorFor(m) = m.state[CHOOSE src \in Heard(m) : TRUE][2]
  BY DEF MotorFor
<1>2. Heard(m) \subseteq Sources
  BY DEF Heard
<1>3. IsFiniteSet(Sources)
  <2>1. IsFiniteSet({"driver"})
    BY FS_Singleton
  <2>2. Sources = {"driver"} \cup {"local"}
    BY DEF Sources
  <2> QED
    BY <2>1, <2>2, FS_AddElement
<1>4. IsFiniteSet(Heard(m))
  BY <1>2, <1>3, FS_Subset
<1>5. PICK x : Heard(m) = {x}
  BY <1>1, <1>4, FS_Singleton
<1>6. (CHOOSE src \in Heard(m) : TRUE) = x
  BY <1>5
<1> QED
  BY <1>1, <1>2, <1>5, <1>6

\* So the command does not turn round.
LEMMA CommandTurns ==
  ASSUME NEW old, NEW new, Heard(old) # Sources, KeepsDirection(old, new)
  PROVE  {MotorFor(old), MotorFor(new)} # {"UP", "DOWN"}
<1> SUFFICES ASSUME {MotorFor(old), MotorFor(new)} = {"UP", "DOWN"} PROVE FALSE
  OBVIOUS
<1>1. MotorFor(old) # "STOPPED" /\ MotorFor(new) # "STOPPED" /\ MotorFor(old) # MotorFor(new)
  OBVIOUS
<1>2. PICK a \in Sources : Heard(old) = {a} /\ MotorFor(old) = old.state[a][2]
  BY <1>1, CommandOfOne
<1>3. PICK b \in Sources : Heard(new) = {b} /\ MotorFor(new) = new.state[b][2]
  BY <1>1, CommandOfOne
<1>4. a = b
  BY <1>2, <1>3 DEF KeepsDirection
<1> QED
  BY <1>1, <1>2, <1>3, <1>4 DEF KeepsDirection

\* Switches that stay or stop keep their direction.
LEMMA DropsKeep ==
  ASSUME NEW old, NEW n, Heard(old) # Sources, n.child = old.child,
         \A src \in Sources : n.state[src] = old.state[src] \/ ~Moving(n.state[src])
  PROVE  KeepsDirection(old, n)
<1>1. \A src \in Heard(n) : src \in Heard(old) /\ n.state[src] = old.state[src]
  BY DEF Heard
<1>2. Heard(n) # Sources
  <2>1. Heard(old) \subseteq Sources
    BY DEF Heard
  <2> QED
    BY <1>1, <2>1
<1>3. \A a \in Heard(old), b \in Heard(n) : a # b => Heard(old) = Sources
  BY <1>1 DEF Heard, Sources
<1> QED
  BY <1>1, <1>2, <1>3 DEF KeepsDirection

\* Where both switches would count neither does.
LEMMA ConflictForms ==
  ASSUME NEW r, WindowRecord(r)
  PROVE  /\ WindowRecord(ResolvedConflict(r))
         /\ ResolvedConflict(r).motor = r.motor
         /\ \/ Heard(r) # Sources /\ ResolvedConflict(r) = r
            \/ Heard(r) = Sources /\ Heard(ResolvedConflict(r)) = {}
<1>1. CASE Heard(r) # Sources
  BY <1>1 DEF ResolvedConflict
<1>2. CASE Heard(r) = Sources
  <2> DEFINE st == [src \in Sources |-> IF r.detent[src] = Neutral THEN Idle ELSE Awaiting]
             n  == [r EXCEPT !.state = st]
  <2>1. ResolvedConflict(r) = n
    BY <1>2 DEF ResolvedConflict
  <2>2. WindowRecord(n) /\ n.motor = r.motor /\ n.state = st
    BY DEF WindowRecord, WindowFields
  <2>3. \A src \in Sources : ~Moving(st[src])
    BY DEF Moving, Idle, Awaiting
  <2> HIDE DEF n, st
  <2>4. Heard(n) = {}
    BY <2>2, <2>3 DEF Heard
  <2> QED
    BY <1>2, <2>1, <2>2, <2>4
<1> QED
  BY <1>1, <1>2

\* A change that leaves of two switches that count none keeps the direction too.
LEMMA ResolvedKeeps ==
  ASSUME NEW old, NEW r, Heard(old) # Sources, WindowRecord(r), r.motor = old.motor,
         \A src \in Heard(old) \cap Heard(r) : r.state[src][2] = old.state[src][2],
         \A a \in Heard(old), b \in Heard(r) :
             a # b => Heard(old) = Sources \/ Heard(r) = Sources
  PROVE  LET n == ResolvedConflict(r) IN
         WindowRecord(n) /\ n.motor = old.motor /\ KeepsDirection(old, n)
<1>1. /\ WindowRecord(ResolvedConflict(r))
      /\ ResolvedConflict(r).motor = r.motor
      /\ \/ Heard(r) # Sources /\ ResolvedConflict(r) = r
         \/ Heard(r) = Sources /\ Heard(ResolvedConflict(r)) = {}
  BY ConflictForms
<1>2. CASE Heard(r) # Sources /\ ResolvedConflict(r) = r
  BY <1>1, <1>2 DEF KeepsDirection
<1>3. CASE Heard(ResolvedConflict(r)) = {}
  <2>1. Heard(ResolvedConflict(r)) # Sources
    BY <1>3 DEF Sources
  <2> QED
    BY <1>1, <1>3, <2>1 DEF KeepsDirection
<1> QED
  BY <1>1, <1>2, <1>3

\* What a step of PowerWindow makes of its variables: it keeps the direction and tells
\* the motor, or changes nothing.
WindowForms ==
  \/ \E n : /\ WindowRecord(n)
            /\ n.motor = mem["window"].motor
            /\ KeepsDirection(mem["window"], n)
            /\ mem' = [mem EXCEPT !["window"] = [n EXCEPT !.motor = MotorFor(n)]]
            /\ \E q : Requesting(q, <<>>, MotorRequests(n))
  \/ mem'["window"] = mem["window"] /\ bus' = BusAfter(<<>>) /\ UNCHANGED world

\* So does every one.
LEMMA WindowSteps ==
  ASSUME "window" \in DOMAIN mem, WindowRecord(mem["window"]), Heard(mem["window"]) # Sources,
         WindowStep
  PROVE  WindowForms
<1> DEFINE old == mem["window"]
<1>1. ASSUME NEW n, WindowRecord(n), n.motor = old.motor, KeepsDirection(old, n),
             \/ \E s : WindowGoesOn(s, n)
             \/ ActClaiming("window", [n EXCEPT !.motor = MotorFor(n)], <<>>, MotorRequests(n))
      PROVE  WindowForms
  <2>1. /\ mem' = [mem EXCEPT !["window"] = [n EXCEPT !.motor = MotorFor(n)]]
        /\ \E q : Requesting(q, <<>>, MotorRequests(n))
    BY <1>1, Zenon DEF WindowGoesOn, ReactClaiming, ActClaiming
  <2> QED
    BY <1>1, <2>1 DEF WindowForms
<1>2. CASE WindowFindsStuck
  <2> DEFINE stuck == {src \in Sources : old.timer[src] = 0}
             st == [src \in Sources |-> IF src \in stuck THEN Stuck ELSE old.state[src]]
             tm == [src \in Sources |-> IF src \in stuck THEN Off ELSE old.timer[src]]
             n  == [old EXCEPT !.state = st, !.timer = tm]
  <2>1. ActClaiming("window", [n EXCEPT !.motor = MotorFor(n)], <<>>, MotorRequests(n))
    BY <1>2 DEF WindowFindsStuck
  <2>2. WindowRecord(n) /\ n.motor = old.motor /\ n.child = old.child /\ n.state = st
    BY DEF WindowRecord, WindowFields
  <2>3. \A src \in Sources : st[src] = old.state[src] \/ ~Moving(st[src])
    BY DEF Moving, Stuck
  <2> HIDE DEF n, st
  <2>4. KeepsDirection(old, n)
    BY <2>2, <2>3, DropsKeep
  <2> QED
    BY <1>1, <2>1, <2>2, <2>4
<1>3. ASSUME NEW src \in Sources, WindowHearsDetent(src) PROVE WindowForms
  <2> DEFINE d == Val("window", Of("detent", src))
             time == CASE d = Neutral -> Off
                       [] d # Neutral /\ old.detent[src] = Neutral -> StuckTime
                       [] OTHER -> old.timer[src]
             r == [old EXCEPT !.detent[src] = d, !.state[src] = Switched(@, d), !.timer[src] = time]
             n == ResolvedConflict(r)
  <2>1. WindowGoesOn(Of("detent", src), n)
    BY <1>3 DEF WindowHearsDetent
  <2>2. /\ WindowRecord(r) /\ r.motor = old.motor /\ r.child = old.child
        /\ r.state[src] = Switched(old.state[src], d)
        /\ \A x \in Sources \ {src} : r.state[x] = old.state[x]
    BY DEF WindowRecord, WindowFields
  <2>3. Moving(old.state[src]) /\ Moving(Switched(old.state[src], d))
        => Switched(old.state[src], d) = old.state[src]
    BY DEF Switched, Moving, Idle, Awaiting
  <2> HIDE DEF r
  <2>4. \A x \in Heard(old) \cap Heard(r) : r.state[x][2] = old.state[x][2]
    BY <2>2, <2>3 DEF Heard
  <2>5. \A a \in Heard(old), b \in Heard(r) :
           a # b => Heard(old) = Sources \/ Heard(r) = Sources
    <3> SUFFICES ASSUME NEW a \in Heard(old), NEW b \in Heard(r), a # b
                 PROVE  Heard(old) = Sources \/ Heard(r) = Sources
      OBVIOUS
    <3>1. a \in Sources /\ b \in Sources /\ Sources = {a, b}
          /\ Heard(old) \subseteq Sources /\ Heard(r) \subseteq Sources
      BY DEF Heard, Sources
    <3>2. CASE src = b
      <4>1. a \in Heard(r)
        BY <2>2, <3>1, <3>2 DEF Heard
      <4> QED
        BY <3>1, <4>1
    <3>3. CASE src = a
      <4>1. b \in Heard(old)
        BY <2>2, <3>1, <3>3 DEF Heard
      <4> QED
        BY <3>1, <4>1
    <3> QED
      BY <3>1, <3>2, <3>3
  <2>6. WindowRecord(n) /\ n.motor = old.motor /\ KeepsDirection(old, n)
    BY <2>2, <2>4, <2>5, ResolvedKeeps
  <2> HIDE DEF n
  <2> QED
    BY <1>1, <2>1, <2>6
<1>4. CASE WindowHearsPosition
  <2> DEFINE p == Val("window", "position")
             ended == {x \in {<<"Auto", "UP">>, <<"Auto", "DOWN">>} :
                          p = (IF x[2] = "UP" THEN Travel ELSE 0)}
             st == [src \in Sources |-> IF old.state[src] \in ended THEN Idle ELSE old.state[src]]
             n  == [old EXCEPT !.state = st]
  <2>1. WindowGoesOn("position", n)
    BY <1>4 DEF WindowHearsPosition
  <2>2. WindowRecord(n) /\ n.motor = old.motor /\ n.child = old.child /\ n.state = st
    BY DEF WindowRecord, WindowFields
  <2>3. \A src \in Sources : st[src] = old.state[src] \/ ~Moving(st[src])
    BY DEF Moving, Idle
  <2> HIDE DEF n, st
  <2>4. KeepsDirection(old, n)
    BY <2>2, <2>3, DropsKeep
  <2> QED
    BY <1>1, <2>1, <2>2, <2>4
<1>5. CASE WindowHearsChildLock
  <2> DEFINE v == Val("window", "child")
             r == [old EXCEPT !.child = v]
             n == ResolvedConflict(r)
  <2>1. Passes("window", "child") \/ WindowGoesOn("child", n)
    BY <1>5 DEF WindowHearsChildLock
  <2>2. WindowRecord(r) /\ r.motor = old.motor /\ r.state = old.state
    BY DEF WindowRecord, WindowFields
  <2> HIDE DEF r
  <2>3. \A a \in Heard(old), b \in Heard(r) :
           a # b => Heard(old) = Sources \/ Heard(r) = Sources
    <3> SUFFICES ASSUME NEW a \in Heard(old), NEW b \in Heard(r), a # b
                 PROVE  Heard(old) = Sources \/ Heard(r) = Sources
      OBVIOUS
    <3>1. Sources = {a, b} /\ Heard(old) \subseteq Sources /\ Heard(r) \subseteq Sources
      BY DEF Heard, Sources
    <3>2. CASE a = "driver"
      <4>1. a \in Heard(r)
        BY <2>2, <3>2 DEF Heard
      <4> QED
        BY <3>1, <4>1
    <3>3. CASE a # "driver"
      <4>1. b = "driver"
        BY <3>1, <3>3 DEF Sources
      <4>2. b \in Heard(old)
        BY <2>2, <4>1 DEF Heard
      <4> QED
        BY <3>1, <4>2
    <3> QED
      BY <3>2, <3>3
  <2>4. WindowRecord(n) /\ n.motor = old.motor /\ KeepsDirection(old, n)
    BY <2>2, <2>3, ResolvedKeeps
  <2>5. Passes("window", "child")
        => mem'["window"] = old /\ bus' = BusAfter(<<>>) /\ UNCHANGED world
    BY DEF Passes, React
  <2> HIDE DEF n
  <2> QED
    BY <1>1, <2>1, <2>4, <2>5 DEF WindowForms
<1>6. CASE WindowHearsPower
  <2> DEFINE v == Val("window", "dap")
             m == [old EXCEPT !.dap = v]
             st == [src \in Sources |-> Idle]
             n  == [m EXCEPT !.state = st, !.timer = [src \in Sources |-> Off]]
  <2>1. WindowGoesOn("dap", m) \/ WindowGoesOn("dap", n)
    BY <1>6 DEF WindowHearsPower
  <2>2. WindowRecord(m) /\ m.motor = old.motor /\ m.child = old.child /\ m.state = old.state
    BY DEF WindowRecord, WindowFields
  <2>3. WindowRecord(n) /\ n.motor = old.motor /\ n.child = old.child /\ n.state = st
    BY DEF WindowRecord, WindowFields
  <2>4. \A src \in Sources : ~Moving(st[src])
    BY DEF Moving, Idle
  <2> HIDE DEF m, n, st
  <2>5. KeepsDirection(old, m) /\ KeepsDirection(old, n)
    BY SMTT(30), <2>2, <2>3, <2>4, DropsKeep
  <2> QED
    BY <1>1, <2>1, <2>2, <2>3, <2>5
<1> QED
  BY <1>2, <1>3, <1>4, <1>5, <1>6 DEF WindowStep

\* Who does not run does not read.
LEMMA WindowRuns == WindowStep => "window" \in DOMAIN mem
  BY Zenon
  DEF WindowStep, WindowFindsStuck, WindowHearsDetent, WindowHearsPosition, WindowHearsChildLock,
      WindowHearsPower, WindowReads, ReadsInTurn, Reads, Has, Runs

\* The variables the command depends on.
LEMMA SameCommand ==
  ASSUME NEW m, NEW n, n.state = m.state, n.child = m.child, n.dap = m.dap
  PROVE  MotorFor(n) = MotorFor(m) /\ Heard(n) = Heard(m)
<1>1. Heard(n) = Heard(m)
  BY DEF Heard
<1> QED
  BY <1>1 DEF MotorFor

\* A step of PowerWindow keeps what is known, and the motor's direction.
LEMMA WindowKeeps ==
  ASSUME Shape, MotorSound, WindowStep
  PROVE  MotorSound' /\ {bus["motor"], bus'["motor"]} # {"UP", "DOWN"}
<1> DEFINE old == mem["window"]
<1>1. "window" \in DOMAIN mem
  BY WindowRuns
<1>2. /\ "motor" \in DOMAIN bus
      /\ "motor" \in DOMAIN world.claims
      /\ WindowRecord(old)
      /\ Heard(old) # Sources
      /\ old.motor = MotorFor(old)
      /\ world.claims["motor"] = MotorClaims(old.motor)
      /\ bus["motor"] = MotorShows(old.motor)
  BY <1>1 DEF MotorSound
<1>3. WindowForms
  BY <1>1, <1>2, WindowSteps
<1>4. CASE /\ mem'["window"] = old
           /\ bus' = BusAfter(<<>>)
           /\ UNCHANGED world
  <2>1. "motor" \in DOMAIN bus' /\ bus'["motor"] = bus["motor"]
    BY <1>2, <1>4, NoNews
  <2>2. MotorSound'
    <3> DEFINE new == mem'["window"]
    <3>1. /\ new = old /\ world' = world
      BY <1>4
    <3>2. /\ WindowRecord(new) /\ Heard(new) # Sources /\ new.motor = MotorFor(new)
          /\ world'.claims["motor"] = MotorClaims(new.motor)
          /\ bus'["motor"] = MotorShows(new.motor)
          /\ "motor" \in DOMAIN world'.claims
      BY <1>2, <2>1, <3>1
    <3> QED
      BY <2>1, <3>2 DEF MotorSound
  <2>3. {bus["motor"], bus'["motor"]} # {"UP", "DOWN"}
    BY <2>1
  <2> QED
    BY <2>2, <2>3
<1>5. ASSUME NEW n,
             /\ WindowRecord(n)
             /\ n.motor = old.motor
             /\ KeepsDirection(old, n)
             /\ mem' = [mem EXCEPT !["window"] = [n EXCEPT !.motor = MotorFor(n)]]
             /\ \E q : Requesting(q, <<>>, MotorRequests(n))
      PROVE  MotorSound' /\ {bus["motor"], bus'["motor"]} # {"UP", "DOWN"}
  <2> DEFINE m == [n EXCEPT !.motor = MotorFor(n)]
  <2>1. mem'["window"] = m
    BY <1>1, <1>5
  <2>2. /\ WindowRecord(m) /\ m.motor = MotorFor(n)
        /\ m.state = n.state /\ m.child = n.child /\ m.dap = n.dap
    BY <1>5 DEF WindowRecord, WindowFields
  <2> HIDE DEF m
  <2>3. MotorFor(m) = MotorFor(n) /\ Heard(m) = Heard(n)
    BY <2>2, SameCommand
  <2>4. Heard(n) # Sources
    BY <1>5 DEF KeepsDirection
  <2>5. world.claims["motor"] = MotorClaims(n.motor) /\ bus["motor"] = MotorShows(n.motor)
    BY <1>2, <1>5
  <2>6. DOMAIN world = WorldFields
    BY DEF Shape
  <2>7. /\ "motor" \in DOMAIN world'.claims /\ "motor" \in DOMAIN bus'
        /\ world'.claims["motor"] = MotorClaims(MotorFor(n))
        /\ bus'["motor"] = MotorShows(MotorFor(n))
    BY <1>2, <1>5, <2>5, <2>6, MotorTold
  <2>8. MotorSound'
    BY <2>1, <2>2, <2>3, <2>4, <2>7 DEF MotorSound
  <2>9. {MotorFor(old), MotorFor(n)} # {"UP", "DOWN"}
    BY <1>2, <1>5, CommandTurns
  <2>10. bus["motor"] = MotorShows(MotorFor(old))
    BY <1>2
  <2> HIDE DEF old
  <2>11. {bus["motor"], bus'["motor"]} # {"UP", "DOWN"}
    BY <2>7, <2>9, <2>10 DEF MotorShows
  <2> QED
    BY <2>8, <2>11
<1> QED
  BY <1>3, <1>4, <1>5 DEF WindowForms

\* Nobody else tells the motor anything, but for a restart, which stops it.
LEMMA MotorStays ==
  ASSUME Shape, FlashSound, MotorSound, Next, ~WindowStep, ~Reboots
  PROVE  /\ "motor" \in DOMAIN bus' /\ bus'["motor"] = bus["motor"]
         /\ "motor" \in DOMAIN world'.claims /\ world'.claims["motor"] = world.claims["motor"]
<1> DEFINE Goal == /\ "motor" \in DOMAIN bus' /\ bus'["motor"] = bus["motor"]
                   /\ "motor" \in DOMAIN world'.claims
                   /\ world'.claims["motor"] = world.claims["motor"]
<1>1. ASSUME NEW t, NEW S, Mute(t, S), "motor" \in S PROVE Goal
  BY <1>1 DEF Mute, MotorSound
<1>2. /\ "motor" \notin OfAll("rf", Fobs)
      /\ "motor" \notin OfAll("at", Panels)
      /\ "motor" \notin OfAll("move", Panels)
  BY TaskNames
<1>3. /\ "motor" \in TaskSignals
      /\ "motor" \in TaskSignals \ {"chime"}
      /\ "motor" \in TaskSignals \ {"lostKey", "chime"}
      /\ "motor" \in TaskSignals \ OfAll("rf", Fobs)
      /\ "motor" \in TaskSignals \ OfAll("at", Panels)
      /\ "motor" \in TaskSignals \ OfAll("move", Panels)
  BY <1>2 DEF TaskSignals
<1> HIDE DEF Goal
<1>4. Goal
  BY MuteCases, <1>1, <1>3
<1> QED
  BY <1>4 DEF Goal

\* While no switch counts and nothing is claimed the motor stands still.
LEMMA StandsStill ==
  ASSUME NEW m, m.motor = "STOPPED", Heard(m) = {}
  PROVE  /\ Heard(m) # Sources /\ m.motor = MotorFor(m)
         /\ MotorClaims(m.motor) = <<>> /\ MotorShows(m.motor) = "STOPPED"
<1>1. Cardinality({}) = 0 /\ {} # Sources
  BY FS_EmptySet DEF Sources
<1>2. MotorFor(m) = "STOPPED"
  BY <1>1 DEF MotorFor
<1>3. MotorClaims("STOPPED") = <<>> /\ MotorShows("STOPPED") = "STOPPED"
  BY DEF MotorClaims, MotorShows
<1> QED
  BY <1>1, <1>2, <1>3

\* A restart stops the motor.
LEMMA MotorBoots ==
  ASSUME Shape, MotorSound, Reboots
  PROVE  MotorSound' /\ bus'["motor"] = "STOPPED"
<1>1. "motor" \in Claimable /\ Unclaimed("motor") = "STOPPED"
  BY DEF Claimable, Unclaimed
<1>2. \E old : bus' = Over([s \in Claimable |-> Unclaimed(s)], old)
  BY Zenon DEF Reboots
<1>3. "motor" \in DOMAIN bus' /\ bus'["motor"] = "STOPPED"
  BY <1>1, <1>2, OverForms
<1>4. PICK b : mem' = [t \in DOMAIN mem |-> ComfortTask(t, b, world.saved).mem]
  BY Zenon DEF Reboots
<1>5. world'.claims = [s \in Claimable |-> <<>>]
  BY DEF Reboots, Shape, WorldFields
<1>6. ASSUME "window" \in DOMAIN mem'
      PROVE  LET m == mem'["window"] IN
             WindowRecord(m) /\ m.motor = "STOPPED" /\ Heard(m) = {}
  <2>1. mem'["window"] = WindowTask(b).mem
    BY <1>4, <1>6 DEF ComfortTask
  <2> QED
    BY <2>1 DEF WindowTask, WindowRecord, WindowFields, Heard, Moving, Idle
<1> QED
  <2>1. "motor" \in DOMAIN world'.claims /\ world'.claims["motor"] = <<>>
    BY <1>1, <1>5
  <2>2. ASSUME "window" \in DOMAIN mem'
        PROVE  LET m == mem'["window"] IN
               /\ WindowRecord(m) /\ Heard(m) # Sources /\ m.motor = MotorFor(m)
               /\ MotorClaims(m.motor) = <<>> /\ MotorShows(m.motor) = "STOPPED"
    BY <1>6, <2>2, StandsStill
  <2> QED
    BY <1>3, <2>1, <2>2 DEF MotorSound

\* Every step keeps what is known of the motor.
LEMMA MotorKept == ASSUME Shape, FlashSound, MotorSound, [Next]_vars PROVE MotorSound'
<1>1. CASE UNCHANGED vars
  BY <1>1 DEF vars, MotorSound
<1>2. CASE WindowStep
  BY <1>2, WindowKeeps
<1>3. CASE Reboots
  BY <1>3, MotorBoots
<1>4. CASE Next /\ ~WindowStep /\ ~Reboots
  <2> DEFINE Same(m, n) == /\ DOMAIN n = DOMAIN m
                           /\ n.state = m.state /\ n.child = m.child /\ n.dap = m.dap
                           /\ n.motor = m.motor
             old == mem["window"]
             new == mem'["window"]
  <2>1. ASSUME "window" \in DOMAIN mem, WindowRecord(old) PROVE Same(old, new)
    <3>1. ASSUME NEW t, t # "window", Only(t) PROVE Same(old, new)
      BY <2>1, <3>1 DEF Only
    <3>2. ASSUME UNCHANGED mem PROVE Same(old, new)
      BY <3>2
    <3>3. ASSUME TimePasses PROVE Same(old, new)
      <4>1. new = [old EXCEPT !.timer = Passed(@)]
        BY <2>1, <3>3, TimeForms
      <4> HIDE DEF old, new
      <4> QED
        BY <2>1, <4>1 DEF WindowRecord, WindowFields
    <3> HIDE DEF Same
    <3> QED
      BY StepCases, OnlyForms, <1>4, <3>1, <3>2, <3>3 DEF Others
  <2>2. /\ "motor" \in DOMAIN bus' /\ bus'["motor"] = bus["motor"]
        /\ "motor" \in DOMAIN world'.claims /\ world'.claims["motor"] = world.claims["motor"]
        /\ DOMAIN mem' = DOMAIN mem
    BY <1>4, MotorStays, WorldSteps
  <2>3. ASSUME "window" \in DOMAIN mem
        PROVE  /\ WindowRecord(new) /\ Heard(new) # Sources
               /\ new.motor = MotorFor(new)
               /\ world'.claims["motor"] = MotorClaims(new.motor)
               /\ bus'["motor"] = MotorShows(new.motor)
    <3>1. /\ WindowRecord(old) /\ Heard(old) # Sources
          /\ old.motor = MotorFor(old)
          /\ world.claims["motor"] = MotorClaims(old.motor)
          /\ bus["motor"] = MotorShows(old.motor)
      BY <2>3 DEF MotorSound
    <3>2. Same(old, new)
      BY <2>1, <2>3, <3>1
    <3> HIDE DEF old, new
    <3>3. MotorFor(new) = MotorFor(old) /\ Heard(new) = Heard(old)
      BY <3>2, SameCommand
    <3> QED
      BY <2>2, <3>1, <3>2, <3>3 DEF WindowRecord
  <2> QED
    BY <2>2, <2>3 DEF MotorSound
<1> QED
  BY <1>1, <1>2, <1>3, <1>4

\* The motor stands still at first.
LEMMA MotorInit == Init => MotorSound
<1> SUFFICES ASSUME Init PROVE MotorSound
  OBVIOUS
<1>1. PICK name \in DOMAIN Teams :
         /\ bus = Over(Teams[name].bus, Over(EntryBus, ComfortBus))
         /\ world.claims = [s \in Claimable |-> <<>>]
         /\ \A t \in DOMAIN mem : mem[t] = Task(t, bus, world).mem
  BY InitForms
<1>2. "motor" \in Claimable /\ Unclaimed("motor") = "STOPPED"
  BY DEF Claimable, Unclaimed
<1>3. "motor" \in DOMAIN ComfortBus /\ ComfortBus["motor"] = "STOPPED"
  <2> DEFINE c6 == [s \in OfAll("aimCmd", Sides) |-> "NONE"]
             c5 == Over([s \in OfAll("move", Panels) |-> "STOP"], c6)
             c4 == Over([s \in OfAll("at", Panels) \cup OfAll("tilt", Sides)
                               \cup OfAll("yaw", Sides) |-> 0], c5)
             c3 == Over([s \in OfAll("detent", Sources) |-> Neutral], c4)
             c2 == Over([s \in OfAll("foldCmd", Sides) \cup OfAll("folded", Sides) |-> FALSE], c3)
             c1 == Over([s \in OfAll("lamp", Sides) \cup OfAll("defect", Sides) |-> FALSE], c2)
             c0 == Over([s \in Claimable |-> Unclaimed(s)], c1)
  <2>1. ComfortBus = Over(ComfortSignals, c0)
    BY DEF ComfortBus
  <2> HIDE DEF c1
  <2>2. "motor" \in DOMAIN c0 /\ c0["motor"] = "STOPPED"
    BY <1>2, OverForms
  <2> HIDE DEF c0
  <2>3. "motor" \notin DOMAIN ComfortSignals
    BY SMTT(30) DEF ComfortSignals
  <2> QED
    BY <2>1, <2>2, <2>3, OverForms
<1>4. "motor" \notin DOMAIN EntryBus
  <2> DEFINE b6 == [x \in OfAll("tap", Taps) |-> "NotPresent"]
             b5 == Over([x \in OfAll("button", Fobs) |-> "NONE"], b6)
             b4 == Over([x \in OfAll("rssi", Keys) \cup OfAll("rf", Fobs) |-> None], b5)
             b3 == Over([x \in OfAll("resp", Keys) |-> 0], b4)
             b2 == Over([x \in OfAll("handle", Doors) \cup OfAll("lock", Sides)
                               \cup OfAll("unlock", Sides) |-> FALSE], b3)
             b1 == Over([x \in OfAll("placed", Keys) \cup OfAll("observed", Keys) |-> "Out"], b2)
  <2>1. EntryBus = Over(EntrySignals, b1)
    BY DEF EntryBus
  <2>2. "motor" \notin DOMAIN EntrySignals
    BY DEF EntrySignals
  <2>3. "motor" \in PlainSignals
    BY DEF PlainSignals
  <2>4. \A x \in Stems : \A K : K \subseteq Bearers => "motor" \notin OfAll(x, K)
    BY <2>3, NamesAssumption DEF OfAll
  <2>5. /\ "motor" \notin OfAll("tap", Taps)
        /\ "motor" \notin OfAll("button", Fobs)
        /\ "motor" \notin OfAll("rssi", Keys) \cup OfAll("rf", Fobs)
        /\ "motor" \notin OfAll("resp", Keys)
        /\ "motor" \notin OfAll("handle", Doors)
        /\ "motor" \notin OfAll("lock", Sides) \cup OfAll("unlock", Sides)
        /\ "motor" \notin OfAll("placed", Keys) \cup OfAll("observed", Keys)
    BY <2>4 DEF Stems, Bearers, Keys
  <2>6. "motor" \notin DOMAIN b1
    BY <2>5 DEF Over
  <2> QED
    BY Zenon, <2>1, <2>2, <2>6 DEF Over
<1>5. "motor" \notin DOMAIN Teams[name].bus
  BY TeamsAssumption DEF TaskSignals
<1>6. "motor" \in DOMAIN bus /\ bus["motor"] = "STOPPED"
  BY <1>1, <1>3, <1>4, <1>5, OverForms
<1>7. ASSUME "window" \in DOMAIN mem
      PROVE  LET m == mem["window"] IN
             WindowRecord(m) /\ m.motor = "STOPPED" /\ Heard(m) = {}
  <2>1. mem["window"] = WindowTask(bus).mem
    BY <1>1, <1>7 DEF Task, EntryTasks, ComfortTask
  <2> QED
    BY <2>1 DEF WindowTask, WindowRecord, WindowFields, Heard, Moving, Idle
<1>8. ASSUME "window" \in DOMAIN mem
      PROVE  LET m == mem["window"] IN
             /\ WindowRecord(m) /\ Heard(m) # Sources /\ m.motor = MotorFor(m)
             /\ MotorClaims(m.motor) = <<>> /\ MotorShows(m.motor) = "STOPPED"
  BY <1>7, <1>8, StandsStill
<1> QED
  BY <1>1, <1>2, <1>6, <1>8 DEF MotorSound

\* A window's motor stops before it turns the other way, whichever of the two switches
\* asks, whatever the child lock, the end stops, the accessory power and the stuck-switch
\* timer do meanwhile, and also when the car restarts (power_window.rs: resolve_conflict
\* drops both intents, and a switch that is turned over has to be released first).
THEOREM MotorStopsBeforeReversing == Spec => WindowStopsBeforeReversing
<1> DEFINE Inv == Shape /\ FlashSound /\ MotorSound
           Stops == {bus["motor"], bus'["motor"]} # {"UP", "DOWN"}
<1>1. Init => Inv
  BY ShapeInit, FlashInit, MotorInit
<1>2. Inv /\ [Next]_vars => Inv'
  BY ShapeKept, FlashKept, MotorKept
<1>3. Inv /\ [Next]_vars => [Stops]_vars
  <2> SUFFICES ASSUME Inv, Next PROVE Stops
    OBVIOUS
  <2>1. CASE WindowStep
    BY <2>1, WindowKeeps
  <2>2. CASE Reboots
    BY <2>2, MotorBoots
  <2>3. CASE ~WindowStep /\ ~Reboots
    BY <2>3, MotorStays
  <2> QED
    BY <2>1, <2>2, <2>3
<1> QED
  BY <1>1, <1>2, <1>3, PTL DEF Spec, WindowStopsBeforeReversing

-----------------------------------------------------------------------------
(* The roof.                                                               *)

\* The last value of the queue q, or what was there before.
Latest(x, q) == IF q = <<>> THEN x ELSE q[Len(q)]

\* The roof is hardly open or the shade is as good as open, in percent.
Covered(pct) == pct["roof"] <= 1 \/ pct["shade"] >= FullPct - 1

\* The variables of the roof's plant, by name.
RoofFields == {"pos", "shown", "dir", "timer"}

\* The variables of the roof's switch, by name.
RoofSwitchFields == {"state", "at", "last", "timer"}

\* A record of the plant: it shows where its panels are.
RoofRecord(m) ==
  /\ DOMAIN m = RoofFields
  /\ m.pos \in [Panels -> 0..(5 * FullPct)]
  /\ m.shown = [p \in Panels |-> Pct(m.pos[p])]
  /\ DOMAIN m.dir = Panels
  /\ DOMAIN m.timer = {"tick"}
  /\ m.timer.tick \in {Off, 0, 1}

\* What the plant has not read of its commands about panel p.
MovesTo(p) == unread["roof"][Of("move", p)]

\* What the switch has not read of where panel p is.
SeenOf(p) == unread["roofSwitch"][Of("at", p)]

\* The command v may move panel p from where the panels are.
MaySafely(p, v) ==
  /\ p = "roof" /\ v = "OPEN" => mem["roof"].shown["shade"] >= FullPct
  /\ p = "shade" /\ v = "CLOSE" => mem["roof"].shown["roof"] = 0

\* The queues of the plant.
RoofQueues ==
  /\ "roof" \in DOMAIN unread
  /\ \A p \in Panels : Of("move", p) \in DOMAIN unread["roof"] /\ IsSeq(MovesTo(p))

\* The queues of the switch, when it runs.
RoofSwitchQueues ==
  /\ "roofSwitch" \in DOMAIN unread
  /\ \A p \in Panels :
        /\ Of("at", p) \in DOMAIN unread["roofSwitch"] /\ IsSeq(SeenOf(p))
        /\ \A i \in DOMAIN SeenOf(p) : SeenOf(p)[i] \in Nat

\* The switch knows, or is about to read, where the panels are, and what it has last told
\* the plant follows from what it knows; the plant does, or is about to read, that or has
\* stopped.
RoofSwitchSound ==
  LET s == mem["roofSwitch"] IN
  /\ RoofSwitchQueues
  /\ DOMAIN s = RoofSwitchFields
  /\ s.at \in [Panels -> Nat]
  /\ \A p \in Panels : Latest(s.at[p], SeenOf(p)) = mem["roof"].shown[p]
  /\ \/ s.last = Commands(s)
     \/ s.last = [p \in Panels |-> None]
  /\ \A p \in Panels : Latest(mem["roof"].dir[p], MovesTo(p)) \in {s.last[p], "STOP"}

\* When a tick of the motors is due the switch knows where the panels are, and what the
\* plant does and is about to read is safe there.
TickSound ==
  mem["roof"].timer.tick = 0 =>
     /\ \A p \in Panels :
           /\ MaySafely(p, mem["roof"].dir[p])
           /\ \A i \in DOMAIN MovesTo(p) : MaySafely(p, MovesTo(p)[i])
     /\ "roofSwitch" \in DOMAIN mem => \A p \in Panels : SeenOf(p) = <<>>

\* The panels are where they may be, also in the file.
RoofSound ==
  "roof" \in DOMAIN mem =>
     /\ RoofRecord(mem["roof"])
     /\ Covered(mem["roof"].shown)
     /\ world.saved.roof \in [Panels -> 0..FullPct]
     /\ Covered(world.saved.roof)
     /\ \A p \in Panels : Of("at", p) \in DOMAIN bus
     /\ RoofQueues
     /\ IF "roofSwitch" \in DOMAIN mem THEN RoofSwitchSound
        ELSE \A p \in Panels : MovesTo(p) = <<>> /\ mem["roof"].dir[p] = "STOP"
     /\ TickSound

-----------------------------------------------------------------------------
(* Queues and news.                                                        *)

\* The latest value stays the latest as values are read and added.
LEMMA LatestForms ==
  ASSUME NEW q, IsSeq(q), NEW x
  PROVE  /\ q \o <<>> = q
         /\ \A v : /\ IsSeq(q \o <<v>>) /\ Latest(x, q \o <<v>>) = v
                  /\ \A i \in DOMAIN (q \o <<v>>) :
                        (q \o <<v>>)[i] = v \/ (i \in DOMAIN q /\ (q \o <<v>>)[i] = q[i])
         /\ q # <<>> => Latest(Head(q), Tail(q)) = Latest(x, q) /\ Head(q) = q[1] /\ 1 \in DOMAIN q
<1>1. PICK X : q \in Seq(X)
  BY DEF IsSeq
<1>2. q \o <<>> = q
  BY <1>1
<1>3. ASSUME NEW v
      PROVE  /\ IsSeq(q \o <<v>>) /\ Latest(x, q \o <<v>>) = v
             /\ \A i \in DOMAIN (q \o <<v>>) :
                   (q \o <<v>>)[i] = v \/ (i \in DOMAIN q /\ (q \o <<v>>)[i] = q[i])
  <2> DEFINE r == q \o <<v>>
  <2>1. <<v>> \in Seq(X \cup {v}) /\ q \in Seq(X \cup {v})
    BY <1>1
  <2>2. r \in Seq(X \cup {v}) /\ Len(r) = Len(q) + 1 /\ r[Len(q) + 1] = v
        /\ \A i \in 1..Len(q) : r[i] = q[i]
    BY <2>1
  <2> HIDE DEF r
  <2>3. DOMAIN r = 1..(Len(q) + 1) /\ DOMAIN q = 1..Len(q) /\ Len(q) \in Nat /\ r # <<>>
    BY <1>1, <2>2
  <2>4. \A i \in DOMAIN r : r[i] = v \/ (i \in DOMAIN q /\ r[i] = q[i])
    BY <2>2, <2>3
  <2> QED
    BY <2>2, <2>3, <2>4 DEF r, Latest, IsSeq
<1>4. ASSUME q # <<>>
      PROVE  Latest(Head(q), Tail(q)) = Latest(x, q) /\ Head(q) = q[1] /\ 1 \in DOMAIN q
  <2>1. /\ Len(q) \in Nat /\ Len(q) >= 1 /\ DOMAIN q = 1..Len(q)
        /\ Tail(q) \in Seq(X) /\ Len(Tail(q)) = Len(q) - 1
        /\ \A i \in 1..(Len(q) - 1) : Tail(q)[i] = q[i + 1]
        /\ Head(q) = q[1]
    BY <1>1, <1>4
  <2>2. CASE Len(q) = 1
    <3> DEFINE t == Tail(q)
    <3>0. t \in Seq(X) /\ Len(t) = 0
      BY <2>1, <2>2
    <3> HIDE DEF t
    <3>1. t = <<>>
      BY <3>0
    <3> QED
      BY <1>4, <2>1, <2>2, <3>1 DEF Latest, t
  <2>3. CASE Len(q) # 1
    <3> DEFINE n == Len(q) - 1
               t == Tail(q)
    <3>1. n \in 1..(Len(q) - 1) /\ n + 1 = Len(q) /\ Len(t) = n /\ t[n] = q[n + 1] /\ t # <<>>
      BY SMTT(30), <2>1, <2>3
    <3> HIDE DEF n, t
    <3>2. Latest(Head(q), t) = q[Len(q)]
      BY <3>1 DEF Latest
    <3> QED
      BY <1>4, <2>1, <3>2 DEF Latest, t
  <2> QED
    BY <2>2, <2>3
<1> QED
  BY <1>2, <1>3, <1>4

\* Two sequences of one element.
LEMMA PairIsJoined == ASSUME NEW e, NEW f PROVE <<e>> \o <<f>> = <<e, f>>
<1>1. <<e>> \in Seq({e, f}) /\ <<f>> \in Seq({e, f}) /\ Len(<<e>>) = 1 /\ Len(<<f>>) = 1
  OBVIOUS
<1> DEFINE r == <<e>> \o <<f>>
<1>2. r \in Seq({e, f}) /\ Len(r) = 2 /\ r[1] = e /\ r[2] = f
  BY <1>1
<1> HIDE DEF r
<1>3. r = [i \in 1..2 |-> r[i]]
  BY <1>2
<1>4. r = <<e, f>>
  BY <1>2, <1>3
<1> QED
  BY <1>4 DEF r

\* What is said of the signal s when its value is to be v and was old.
Said(v, old, s) == IF v = old THEN <<>> ELSE << <<s, v>> >>

\* The news tell the signal s its new value, and nothing but of the signals S.
SaysOf(news, s, v, old) == ValuesOf(news, s) = IF v = old THEN <<>> ELSE <<v>>

\* The news are about no signal but those of S.
SilentBut(news, S) == \A s : s \notin S => ValuesOf(news, s) = <<>>

\* What news of two signals say of each.
LEMMA TwoValues ==
  ASSUME NEW a, NEW v, NEW b, NEW w, a # b
  PROVE  LET news == << <<a, v>>, <<b, w>> >> IN
         /\ ValuesOf(news, a) = <<v>> /\ ValuesOf(news, b) = <<w>>
         /\ \A S : a \notin S /\ b \notin S => Mutes(news, S)
<1> DEFINE news == << <<a, v>>, <<b, w>> >>
<1>1. /\ DOMAIN news = {1, 2}
      /\ news[1][1] = a /\ news[1][2] = v /\ news[2][1] = b /\ news[2][2] = w
  OBVIOUS
<1> HIDE DEF news
<1>2. PlacesOf(news, a) = {1} /\ PlacesOf(news, b) = {2}
  BY <1>1 DEF PlacesOf
<1>3. /\ \A i \in {1} : {j \in {1} : j <= i} = {1}
      /\ \A i \in {2} : {j \in {2} : j <= i} = {2}
  OBVIOUS
<1>7. Cardinality({1}) = 1 /\ Cardinality({2}) = 1
  BY FS_Singleton
<1>4. ValuesOf(news, a) = [n \in 1..1 |-> v]
  BY <1>1, <1>2, <1>3, <1>7 DEF ValuesOf
<1>5. ValuesOf(news, b) = [n \in 1..1 |-> w]
  BY <1>1, <1>2, <1>3, <1>7 DEF ValuesOf
<1>6. \A S : a \notin S /\ b \notin S => Mutes(news, S)
  BY <1>1 DEF Mutes
<1> QED
  BY <1>4, <1>5, <1>6 DEF news

\* What is said of two signals.
LEMMA SaidForms ==
  ASSUME NEW a, NEW v, NEW x, NEW b, NEW w, NEW y, a # b,
         NEW news, news = Said(v, x, a) \o Said(w, y, b)
  PROVE  SaysOf(news, a, v, x) /\ SaysOf(news, b, w, y) /\ SilentBut(news, {a, b})
<1> SUFFICES /\ ValuesOf(news, a) = IF v = x THEN <<>> ELSE <<v>>
             /\ ValuesOf(news, b) = IF w = y THEN <<>> ELSE <<w>>
             /\ \A s : s \notin {a, b} => ValuesOf(news, s) = <<>>
  BY DEF SaysOf, SilentBut
<1>1. \A s : Mutes(news, {s}) => ValuesOf(news, s) = <<>>
  BY MuteNews
<1>2. CASE v = x /\ w = y
  <2>1. news = <<>>
    BY <1>2 DEF Said
  <2>2. \A S : Mutes(news, S)
    BY <2>1, NothingIsSeq, SeqPlaces DEF Mutes
  <2> QED
    BY <1>1, <1>2, <2>2
<1>3. CASE v # x /\ w = y
  <2>1. news = << <<a, v>> >>
    BY <1>3 DEF Said
  <2>2. ValuesOf(news, a) = <<v>> /\ \A S : a \notin S => Mutes(news, S)
    BY <2>1, OneNews
  <2>3. ASSUME NEW s, s # a PROVE ValuesOf(news, s) = <<>>
    <3>1. a \notin {s}
      BY <2>3
    <3>2. Mutes(news, {s})
      BY <2>2, <3>1, Zenon
    <3> QED
      BY <1>1, <3>2
  <2> QED
    BY <1>3, <2>2, <2>3
<1>4. CASE v = x /\ w # y
  <2>1. news = << <<b, w>> >>
    BY <1>4 DEF Said
  <2>2. ValuesOf(news, b) = <<w>> /\ \A S : b \notin S => Mutes(news, S)
    BY <2>1, OneNews
  <2>3. ASSUME NEW s, s # b PROVE ValuesOf(news, s) = <<>>
    <3>1. b \notin {s}
      BY <2>3
    <3>2. Mutes(news, {s})
      BY <2>2, <3>1, Zenon
    <3> QED
      BY <1>1, <3>2
  <2> QED
    BY <1>4, <2>2, <2>3
<1>5. CASE v # x /\ w # y
  <2>1. news = << <<a, v>>, <<b, w>> >>
    <3> DEFINE e == <<a, v>>
               f == <<b, w>>
    <3>1. news = <<e>> \o <<f>>
      BY <1>5 DEF Said
    <3> HIDE DEF e, f
    <3>2. news = <<e, f>>
      BY <3>1, PairIsJoined
    <3> QED
      BY <3>2 DEF e, f
  <2>2. /\ ValuesOf(news, a) = <<v>> /\ ValuesOf(news, b) = <<w>>
        /\ \A S : a \notin S /\ b \notin S => Mutes(news, S)
    BY <2>1, TwoValues
  <2>3. \A s : s \notin {a, b} => ValuesOf(news, s) = <<>>
    BY <1>1, <2>2
  <2> QED
    BY <1>5, <2>2, <2>3
<1> QED
  BY <1>2, <1>3, <1>4, <1>5

-----------------------------------------------------------------------------
(* Percents.                                                               *)

\* A percent is five of the plant's steps.
LEMMA PctForms ==
  /\ \A x \in 0..(5 * FullPct) : Pct(x) \in 0..FullPct
  /\ \A x \in 0..FullPct : Pct(5 * x) = x /\ 5 * x \in 0..(5 * FullPct)
<1>1. FullPct \in Nat
  BY ClosuresAssumption
<1> QED
  BY <1>1 DEF Pct

\* A tick moves the panels so that a roof that opens opens under the whole shade, and a
\* shade that closes does over a closed roof.
LEMMA TickCovers ==
  ASSUME NEW r \in 0..(5 * FullPct), NEW s \in 0..(5 * FullPct),
         NEW a \in 0..(5 * FullPct), NEW b \in 0..(5 * FullPct),
         Pct(r) <= 1 \/ Pct(s) >= FullPct - 1,
         a <= r \/ (Pct(s) >= FullPct /\ b >= s - RoofStep),
         b >= s \/ (Pct(r) = 0 /\ (a <= r \/ (Pct(s) >= FullPct /\ b >= s - RoofStep)))
  PROVE  Pct(a) <= 1 \/ Pct(b) >= FullPct - 1
<1>1. FullPct \in Nat
  BY ClosuresAssumption
<1> QED
  BY <1>1 DEF Pct, RoofStep

-----------------------------------------------------------------------------
(* The roof's switch and its plant.                                        *)

\* The names of their signals differ.
LEMMA RoofNames ==
  /\ Of("move", "roof") # Of("move", "shade") /\ Of("at", "roof") # Of("at", "shade")
  /\ \A p, q \in Panels : Of("at", p) # Of("move", q)
  /\ \A p \in Panels : Of("at", p) # "roofDetent"
<1>1. "roofDetent" \in DOMAIN ComfortSignals
  BY DEF ComfortSignals
<1>2. "roofDetent" \in PlainSignals
  BY <1>1 DEF PlainSignals
<1>3. Panels \subseteq Bearers /\ {"at", "move"} \subseteq Stems /\ Panels = {"roof", "shade"}
  BY DEF Bearers, Stems, Panels
<1>4. \A s \in Stems, k \in Bearers :
        /\ Of(s, k) # "roofDetent"
        /\ \A r \in Stems, j \in Bearers : Of(s, k) = Of(r, j) => s = r /\ k = j
  BY <1>2, NamesAssumption
<1> QED
  BY <1>3, <1>4

\* What is delivered to a queue.
LEMMA DeliveredForms ==
  \A queues, news : \A t \in DOMAIN queues : \A s \in DOMAIN queues[t] :
     /\ t \in DOMAIN Delivered(queues, news) /\ s \in DOMAIN Delivered(queues, news)[t]
     /\ Delivered(queues, news)[t][s] = queues[t][s] \o ValuesOf(news, s)
  BY DEF Delivered

\* No news deliver nothing.
LEMMA NothingSaid == \A s : ValuesOf(<<>>, s) = <<>>
<1>1. \A S : Mutes(<<>>, S)
  BY NothingIsSeq, SeqPlaces DEF Mutes
<1> QED
  BY <1>1, MuteNews

\* The switch opens the roof under an open shade and closes the shade over a closed roof.
LEMMA CommandsAreSafe ==
  ASSUME NEW s, s.at \in [Panels -> Nat]
  PROVE  /\ Commands(s)["roof"] = "OPEN" => s.at["shade"] >= FullPct
         /\ Commands(s)["shade"] = "CLOSE" => s.at["roof"] = 0
<1>1. s.at["roof"] \in Nat /\ s.at["shade"] \in Nat /\ FullPct \in Nat
  BY ClosuresAssumption DEF Panels
<1> DEFINE opens  == Moving(s.state) /\ s.state[2] = "OPEN"
           closes == Moving(s.state) /\ s.state[2] = "CLOSE"
<1>2. CASE opens /\ s.at["shade"] < FullPct
  BY <1>1, <1>2 DEF Commands
<1>3. CASE opens /\ s.at["shade"] >= FullPct
  BY <1>1, <1>3 DEF Commands
<1>4. CASE closes /\ s.at["roof"] > 0
  BY <1>1, <1>4 DEF Commands
<1>5. CASE closes /\ s.at["roof"] = 0
  BY <1>1, <1>5 DEF Commands
<1>6. CASE ~opens /\ ~closes
  BY <1>1, <1>6 DEF Commands
<1> QED
  BY <1>1, <1>2, <1>3, <1>4, <1>5, <1>6

\* What a step of the switch does: it takes a value, tells what has changed of its commands,
\* and knows of a position what it has read.
RoofSwitchForms ==
  \E n, s :
     /\ DOMAIN n = RoofSwitchFields
     /\ n.last = mem["roofSwitch"].last
     /\ mem' = [mem EXCEPT !["roofSwitch"] = [n EXCEPT !.last = Commands(n)]]
     /\ bus' = BusAfter(CommandNews(n))
     /\ unread' = Delivered([unread EXCEPT !["roofSwitch"][s] = Tail(@)], CommandNews(n))
     /\ UNCHANGED world
     /\ \/ s = "roofDetent" /\ n.at = mem["roofSwitch"].at
        \/ \E p \in Panels : /\ s = Of("at", p)
                             /\ SeenOf(p) # <<>>
                             /\ n.at = [mem["roofSwitch"].at EXCEPT ![p] = Head(SeenOf(p))]

\* So does every one.
LEMMA RoofSwitchSteps ==
  ASSUME DOMAIN mem["roofSwitch"] = RoofSwitchFields, RoofSwitchStep
  PROVE  RoofSwitchForms
<1> DEFINE old == mem["roofSwitch"]
<1>1. CASE RoofSwitchHears
  <2> DEFINE st == Switched(old.state, Val("roofSwitch", "roofDetent"))
             n  == [old EXCEPT !.state = st]
  <2>1. RoofSwitchGoesOn("roofDetent", n)
    BY <1>1 DEF RoofSwitchHears
  <2>2. DOMAIN n = RoofSwitchFields /\ n.last = old.last /\ n.at = old.at
    BY DEF RoofSwitchFields
  <2> HIDE DEF n
  <2> QED
    BY <2>1, <2>2 DEF RoofSwitchGoesOn, React, RoofSwitchForms
<1>2. ASSUME NEW p \in Panels, RoofSwitchSees(p) PROVE RoofSwitchForms
  <2> DEFINE v  == Val("roofSwitch", Of("at", p))
             at == [old.at EXCEPT ![p] = v]
             m  == [old EXCEPT !.at[p] = v]
             n  == Arrived(m)
  <2>1. RoofSwitchGoesOn(Of("at", p), n)
    BY <1>2 DEF RoofSwitchSees
  <2>4. SeenOf(p) # <<>> /\ v = Head(SeenOf(p))
    BY <1>2 DEF RoofSwitchSees, Reads, Has, Val, SeenOf
  <2> HIDE DEF v
  <2>2. DOMAIN m = RoofSwitchFields /\ m.last = old.last /\ m.at = at
    BY DEF RoofSwitchFields
  <2> HIDE DEF m
  <2>3. DOMAIN n = RoofSwitchFields /\ n.last = old.last /\ n.at = at
    BY <2>2 DEF Arrived, RoofSwitchFields
  <2> HIDE DEF n
  <2> QED
    BY <2>1, <2>3, <2>4 DEF RoofSwitchGoesOn, React, RoofSwitchForms
<1> QED
  BY <1>1, <1>2 DEF RoofSwitchStep

\* A step of the switch keeps what is known of the roof.
LEMMA RoofSwitchKeeps ==
  ASSUME RoofSound, "roof" \in DOMAIN mem, RoofSwitchStep
  PROVE  RoofSound'
<1> DEFINE old == mem["roofSwitch"]
           plant == mem["roof"]
<1>1. "roofSwitch" \in DOMAIN mem
  BY DEF RoofSwitchStep, RoofSwitchHears, RoofSwitchSees, Reads, Has, Runs
<1>2. /\ RoofRecord(plant) /\ Covered(plant.shown)
      /\ world.saved.roof \in [Panels -> 0..FullPct] /\ Covered(world.saved.roof)
      /\ \A p \in Panels : Of("at", p) \in DOMAIN bus
      /\ RoofQueues /\ RoofSwitchSound /\ TickSound
  BY <1>1 DEF RoofSound
<1>3. /\ RoofSwitchQueues
      /\ DOMAIN old = RoofSwitchFields
      /\ old.at \in [Panels -> Nat]
      /\ \A p \in Panels : Latest(old.at[p], SeenOf(p)) = plant.shown[p]
      /\ \A p \in Panels : Latest(plant.dir[p], MovesTo(p)) \in {old.last[p], "STOP"}
  BY <1>2 DEF RoofSwitchSound
<1>4. RoofSwitchForms
  BY <1>3, RoofSwitchSteps
<1>5. PICK n, s :
         /\ DOMAIN n = RoofSwitchFields
         /\ n.last = old.last
         /\ mem' = [mem EXCEPT !["roofSwitch"] = [n EXCEPT !.last = Commands(n)]]
         /\ bus' = BusAfter(CommandNews(n))
         /\ unread' = Delivered([unread EXCEPT !["roofSwitch"][s] = Tail(@)], CommandNews(n))
         /\ UNCHANGED world
         /\ \/ s = "roofDetent" /\ n.at = old.at
            \/ \E p \in Panels : /\ s = Of("at", p)
                                 /\ SeenOf(p) # <<>>
                                 /\ n.at = [old.at EXCEPT ![p] = Head(SeenOf(p))]
  BY <1>4 DEF RoofSwitchForms
<1> DEFINE c     == Commands(n)
           news  == CommandNews(n)
           q     == [unread EXCEPT !["roofSwitch"][s] = Tail(@)]
           new   == [n EXCEPT !.last = Commands(n)]
           Fresh(p) == IF s = Of("at", p) THEN Tail(SeenOf(p)) ELSE SeenOf(p)
<1>6. \A p \in Panels : ValuesOf(news, Of("move", p)) = IF c[p] = n.last[p] THEN <<>> ELSE <<c[p]>>
  <2> DEFINE a == Of("move", "roof")
             b == Of("move", "shade")
  <2>1. news = Said(c["roof"], n.last["roof"], a) \o Said(c["shade"], n.last["shade"], b)
    BY DEF CommandNews, Said
  <2>2. a # b
    BY RoofNames
  <2> DEFINE v == c["roof"]
             x == n.last["roof"]
             w == c["shade"]
             y == n.last["shade"]
  <2> HIDE DEF news, a, b, c, v, x, w, y
  <2>4. news = Said(v, x, a) \o Said(w, y, b)
    BY <2>1 DEF v, x, w, y
  <2>3. SaysOf(news, a, v, x) /\ SaysOf(news, b, w, y)
    BY <2>4, <2>2, SaidForms
  <2> QED
    BY <2>3 DEF SaysOf, a, b, v, x, w, y, Panels
<1>7. \A p \in Panels : ValuesOf(news, Of("at", p)) = <<>>
  <2> DEFINE a == Of("move", "roof")
             b == Of("move", "shade")
  <2>1. news = Said(c["roof"], n.last["roof"], a) \o Said(c["shade"], n.last["shade"], b)
    BY DEF CommandNews, Said
  <2>2. a # b /\ \A p \in Panels : Of("at", p) \notin {a, b}
    BY RoofNames DEF Panels
  <2> DEFINE v == c["roof"]
             x == n.last["roof"]
             w == c["shade"]
             y == n.last["shade"]
  <2> HIDE DEF news, a, b, c, v, x, w, y
  <2>4. news = Said(v, x, a) \o Said(w, y, b)
    BY <2>1 DEF v, x, w, y
  <2>5. a # b
    BY <2>2
  <2>3. SilentBut(news, {a, b})
    BY <2>4, <2>5, SaidForms
  <2> QED
    BY <2>2, <2>3 DEF SilentBut
<1>8. mem'["roof"] = plant /\ mem'["roofSwitch"] = new /\ DOMAIN mem' = DOMAIN mem
  BY <1>1, <1>5
<1>9. /\ DOMAIN q = DOMAIN unread /\ q["roof"] = unread["roof"]
      /\ DOMAIN q["roofSwitch"] = DOMAIN unread["roofSwitch"]
      /\ \A p \in Panels : q["roofSwitch"][Of("at", p)] = Fresh(p)
  <2>1. "roofSwitch" \in DOMAIN unread
        /\ \A p \in Panels : Of("at", p) \in DOMAIN unread["roofSwitch"]
    BY <1>3 DEF RoofSwitchQueues
  <2> DEFINE u == unread["roofSwitch"]
             w == [u EXCEPT ![s] = Tail(@)]
  <2>2. q = [unread EXCEPT !["roofSwitch"] = w]
    OBVIOUS
  <2>3. DOMAIN w = DOMAIN u
    OBVIOUS
  <2>4. \A p \in Panels : w[Of("at", p)] = Fresh(p)
    BY <2>1 DEF SeenOf
  <2> HIDE DEF q, w, Fresh
  <2> QED
    BY <2>1, <2>2, <2>3, <2>4
<1> HIDE DEF q, news, c, new
<1>10. unread' = Delivered(q, news)
  BY <1>5 DEF q, news
<1>11. \A p \in Panels :
          /\ "roof" \in DOMAIN unread' /\ Of("move", p) \in DOMAIN unread'["roof"]
          /\ unread'["roof"][Of("move", p)] = MovesTo(p) \o ValuesOf(news, Of("move", p))
  <2> TAKE p \in Panels
  <2>1. "roof" \in DOMAIN q /\ Of("move", p) \in DOMAIN q["roof"]
        /\ q["roof"][Of("move", p)] = MovesTo(p)
    BY <1>2, <1>9 DEF RoofQueues, MovesTo
  <2>3. /\ "roof" \in DOMAIN Delivered(q, news)
        /\ Of("move", p) \in DOMAIN Delivered(q, news)["roof"]
        /\ Delivered(q, news)["roof"][Of("move", p)]
           = q["roof"][Of("move", p)] \o ValuesOf(news, Of("move", p))
    BY <2>1, DeliveredForms, Zenon
  <2> QED
    BY <2>1, <2>3, <1>10, Zenon
<1>12. \A p \in Panels :
          /\ "roofSwitch" \in DOMAIN unread' /\ Of("at", p) \in DOMAIN unread'["roofSwitch"]
          /\ unread'["roofSwitch"][Of("at", p)] = Fresh(p) \o <<>>
  <2> TAKE p \in Panels
  <2>1. "roofSwitch" \in DOMAIN q /\ Of("at", p) \in DOMAIN q["roofSwitch"]
        /\ q["roofSwitch"][Of("at", p)] = Fresh(p)
    BY <1>3, <1>9 DEF RoofSwitchQueues
  <2>2. ValuesOf(news, Of("at", p)) = <<>>
    BY <1>7
  <2> HIDE DEF Fresh
  <2>3. /\ "roofSwitch" \in DOMAIN Delivered(q, news)
        /\ Of("at", p) \in DOMAIN Delivered(q, news)["roofSwitch"]
        /\ Delivered(q, news)["roofSwitch"][Of("at", p)]
           = q["roofSwitch"][Of("at", p)] \o ValuesOf(news, Of("at", p))
    BY <2>1, DeliveredForms, Zenon
  <2> QED
    BY <2>1, <2>2, <2>3, <1>10, Zenon
<1>13. \A p \in Panels : IsSeq(SeenOf(p)) /\ IsSeq(MovesTo(p))
  BY <1>2, <1>3 DEF RoofQueues, RoofSwitchQueues
<1>14. \A p \in Panels : Of("at", p) \in DOMAIN bus'
  BY <1>2, <1>5 DEF BusAfter, Over
<1>15. /\ DOMAIN new = RoofSwitchFields /\ new.at = n.at /\ new.last = c /\ Commands(new) = c
  BY <1>5 DEF new, c, RoofSwitchFields, Commands
<1>16. ASSUME NEW p \in Panels
       PROVE  /\ IsSeq(unread'["roof"][Of("move", p)])
              /\ Latest(plant.dir[p], unread'["roof"][Of("move", p)]) \in {c[p], "STOP"}
              /\ \A i \in DOMAIN unread'["roof"][Of("move", p)] :
                    \/ unread'["roof"][Of("move", p)][i] = c[p]
                    \/ i \in DOMAIN MovesTo(p) /\ unread'["roof"][Of("move", p)][i] = MovesTo(p)[i]
  <2> DEFINE mq == MovesTo(p)
             x  == plant.dir[p]
             y  == unread'["roof"][Of("move", p)]
  <2>1. y = mq \o ValuesOf(news, Of("move", p)) /\ IsSeq(mq)
        /\ Latest(x, mq) \in {n.last[p], "STOP"}
    BY <1>3, <1>5, <1>11, <1>13
  <2>2. ValuesOf(news, Of("move", p)) = IF c[p] = n.last[p] THEN <<>> ELSE <<c[p]>>
    BY <1>6
  <2> HIDE DEF mq, x, y
  <2>3. /\ mq \o <<>> = mq
        /\ IsSeq(mq \o <<c[p]>>) /\ Latest(x, mq \o <<c[p]>>) = c[p]
        /\ \A i \in DOMAIN (mq \o <<c[p]>>) :
              (mq \o <<c[p]>>)[i] = c[p] \/ (i \in DOMAIN mq /\ (mq \o <<c[p]>>)[i] = mq[i])
    BY <2>1, LatestForms
  <2>4. /\ IsSeq(y) /\ Latest(x, y) \in {c[p], "STOP"}
        /\ \A i \in DOMAIN y : y[i] = c[p] \/ (i \in DOMAIN mq /\ y[i] = mq[i])
    <3>1. CASE c[p] = n.last[p]
      BY <2>1, <2>2, <2>3, <3>1
    <3>2. CASE c[p] # n.last[p]
      BY <2>1, <2>2, <2>3, <3>2
    <3> QED
      BY <3>1, <3>2
  <2> QED
    BY <2>4 DEF mq, x, y
<1>17. ASSUME NEW p \in Panels
       PROVE  /\ n.at[p] \in Nat
              /\ IsSeq(unread'["roofSwitch"][Of("at", p)])
              /\ \A i \in DOMAIN unread'["roofSwitch"][Of("at", p)] :
                    unread'["roofSwitch"][Of("at", p)][i] \in Nat
              /\ Latest(n.at[p], unread'["roofSwitch"][Of("at", p)]) = plant.shown[p]
  <2> DEFINE sq == SeenOf(p)
             y  == unread'["roofSwitch"][Of("at", p)]
  <2>1. /\ y = (IF s = Of("at", p) THEN Tail(sq) ELSE sq) \o <<>>
        /\ IsSeq(sq) /\ (\A i \in DOMAIN sq : sq[i] \in Nat)
        /\ Latest(old.at[p], sq) = plant.shown[p] /\ old.at[p] \in Nat
    BY <1>3, <1>12 DEF RoofSwitchQueues
  <2>2. \/ s # Of("at", p) /\ n.at[p] = old.at[p]
        \/ s = Of("at", p) /\ sq # <<>> /\ n.at[p] = Head(sq)
    BY <1>3, <1>5, RoofNames DEF Panels
  <2> HIDE DEF sq, y
  <2>3. CASE s # Of("at", p) /\ n.at[p] = old.at[p]
    <3>1. y = sq
      BY <2>1, <2>3, LatestForms
    <3> QED
      BY <2>1, <2>3, <3>1 DEF y
  <2>4. CASE s = Of("at", p) /\ sq # <<>> /\ n.at[p] = Head(sq)
    <3>1. /\ IsSeq(Tail(sq))
          /\ \A i \in DOMAIN Tail(sq) : i + 1 \in DOMAIN sq /\ Tail(sq)[i] = sq[i + 1]
      BY <2>1, <2>4, TailPlaces
    <3>2. y = Tail(sq)
      BY <2>1, <2>4, <3>1, LatestForms
    <3>3. Latest(Head(sq), Tail(sq)) = Latest(old.at[p], sq) /\ Head(sq) = sq[1] /\ 1 \in DOMAIN sq
      BY <2>1, <2>4, LatestForms
    <3> QED
      BY <2>1, <2>4, <3>1, <3>2, <3>3 DEF y
  <2> QED
    BY <2>2, <2>3, <2>4
<1>18. n.at \in [Panels -> Nat]
  <2>1. DOMAIN n.at = Panels /\ n.at = [p \in Panels |-> n.at[p]]
    BY <1>3, <1>5
  <2> QED
    BY <1>17, <2>1
<1>19. plant.timer.tick = 0
       => /\ \A p \in Panels : unread'["roofSwitch"][Of("at", p)] = <<>> /\ MaySafely(p, c[p])
  <2> SUFFICES ASSUME plant.timer.tick = 0
               PROVE  \A p \in Panels :
                        unread'["roofSwitch"][Of("at", p)] = <<>> /\ MaySafely(p, c[p])
    OBVIOUS
  <2>1. \A p \in Panels : SeenOf(p) = <<>>
    BY <1>1, <1>2 DEF TickSound
  <2>2. s = "roofDetent" /\ n.at = old.at
    BY <1>5, <2>1
  <2>3. \A p \in Panels : unread'["roofSwitch"][Of("at", p)] = <<>> \o <<>>
    BY <1>12, <2>1, <2>2, RoofNames
  <2>4. <<>> \o <<>> = <<>>
    BY NothingIsSeq, LatestForms
  <2>5. \A p \in Panels : n.at[p] = plant.shown[p]
    BY <1>3, <2>1, <2>2 DEF Latest
  <2>6. /\ c["roof"] = "OPEN" => n.at["shade"] >= FullPct
        /\ c["shade"] = "CLOSE" => n.at["roof"] = 0
    BY <1>18, CommandsAreSafe DEF c
  <2> QED
    BY <2>3, <2>4, <2>5, <2>6 DEF MaySafely, Panels
<1>20. RoofSwitchSound'
  <2>1. RoofSwitchQueues'
    <3>1. \A p \in Panels :
             /\ "roofSwitch" \in DOMAIN unread' /\ Of("at", p) \in DOMAIN unread'["roofSwitch"]
             /\ IsSeq(SeenOf(p)') /\ \A i \in DOMAIN SeenOf(p)' : SeenOf(p)'[i] \in Nat
      BY <1>12, <1>17 DEF SeenOf
    <3> QED
      BY <3>1 DEF RoofSwitchQueues, Panels
  <2>2. \A p \in Panels : Latest(new.at[p], SeenOf(p)') = plant.shown[p]
    BY <1>15, <1>17 DEF SeenOf
  <2>3. \A p \in Panels : Latest(plant.dir[p], MovesTo(p)') \in {new.last[p], "STOP"}
    BY <1>15, <1>16 DEF MovesTo
  <2> HIDE DEF plant
  <2>4. mem'["roof"] = plant
    BY <1>8
  <2> QED
    BY <1>8, <1>15, <1>18, <2>1, <2>2, <2>3, <2>4 DEF RoofSwitchSound
<1>21. RoofQueues'
  <2>1. \A p \in Panels :
           /\ "roof" \in DOMAIN unread' /\ Of("move", p) \in DOMAIN unread'["roof"]
           /\ IsSeq(MovesTo(p)')
    BY <1>11, <1>16 DEF MovesTo
  <2> QED
    BY <2>1 DEF RoofQueues, Panels
<1>22. TickSound'
  <2> SUFFICES ASSUME plant.timer.tick = 0
               PROVE  /\ \A p \in Panels :
                           /\ MaySafely(p, plant.dir[p])
                           /\ \A i \in DOMAIN MovesTo(p)' : MaySafely(p, MovesTo(p)'[i])
                      /\ \A p \in Panels : SeenOf(p)' = <<>>
    BY <1>8 DEF TickSound, MaySafely
  <2>1. \A p \in Panels : SeenOf(p)' = <<>> /\ MaySafely(p, c[p])
    BY <1>19 DEF SeenOf
  <2>2. \A p \in Panels : /\ MaySafely(p, plant.dir[p])
                          /\ \A i \in DOMAIN MovesTo(p) : MaySafely(p, MovesTo(p)[i])
    BY <1>2 DEF TickSound
  <2>3. \A p \in Panels : \A i \in DOMAIN MovesTo(p)' :
           \/ MovesTo(p)'[i] = c[p]
           \/ i \in DOMAIN MovesTo(p) /\ MovesTo(p)'[i] = MovesTo(p)[i]
    BY <1>16 DEF MovesTo
  <2> QED
    BY <2>1, <2>2, <2>3
<1> QED
  BY <1>1, <1>2, <1>5, <1>8, <1>14, <1>20, <1>21, <1>22 DEF RoofSound

-----------------------------------------------------------------------------
(* The plant of the roof.                                                  *)

\* Where a tick takes a panel.
Moved(m, p) ==
  CASE m.dir[p] = "OPEN"  -> Min({m.pos[p] + RoofStep, 5 * FullPct})
    [] m.dir[p] = "CLOSE" -> Max({m.pos[p] - RoofStep, 0})
    [] OTHER              -> m.pos[p]

\* The smaller and the larger of two numbers.
LEMMA PairBounds ==
  \A a, b \in Int : /\ Min({a, b}) = (IF a <= b THEN a ELSE b)
                    /\ Max({a, b}) = (IF a <= b THEN b ELSE a)
<1> TAKE a, b \in Int
<1>1. Min({a, b}) = (IF a <= b THEN a ELSE b)
  BY DEF Min
<1>2. Max({a, b}) = (IF a <= b THEN b ELSE a)
  BY DEF Max
<1> QED
  BY <1>1, <1>2

\* A tick takes a panel at most a step further, within its range.
LEMMA MovedForms ==
  ASSUME NEW m, NEW p, m.pos[p] \in 0..(5 * FullPct)
  PROVE  /\ Moved(m, p) \in 0..(5 * FullPct)
         /\ Moved(m, p) >= m.pos[p] - RoofStep
         /\ m.dir[p] # "OPEN" => Moved(m, p) <= m.pos[p]
         /\ m.dir[p] # "CLOSE" => Moved(m, p) >= m.pos[p]
<1> DEFINE x == m.pos[p]
           d == m.dir[p]
           f == 5 * FullPct
<1>1. f \in Nat /\ x \in 0..f
  BY ClosuresAssumption
<1>2. CASE d = "OPEN"
  <2>1. Moved(m, p) = Min({x + RoofStep, f})
    BY <1>2 DEF Moved
  <2> HIDE DEF x, d, f
  <2>2. Moved(m, p) = (IF x + RoofStep <= f THEN x + RoofStep ELSE f)
    BY <1>1, <2>1, PairBounds DEF RoofStep
  <2>3. Moved(m, p) \in 0..f /\ Moved(m, p) >= x /\ Moved(m, p) >= x - RoofStep
    BY <1>1, <2>2 DEF RoofStep
  <2>4. d # "CLOSE"
    BY <1>2
  <2>5. /\ Moved(m, p) \in 0..f
        /\ Moved(m, p) >= x - RoofStep
        /\ d # "OPEN" => Moved(m, p) <= x
        /\ d # "CLOSE" => Moved(m, p) >= x
    BY <1>2, <2>3, <2>4
  <2> QED
    BY <2>5 DEF x, d, f
<1>3. CASE d = "CLOSE"
  <2>1. Moved(m, p) = Max({x - RoofStep, 0})
    BY <1>3 DEF Moved
  <2> HIDE DEF x, d, f
  <2>2. Moved(m, p) = (IF x - RoofStep <= 0 THEN 0 ELSE x - RoofStep)
    <3> DEFINE y == x - RoofStep
    <3>3. y \in Int
      BY <1>1 DEF RoofStep
    <3>1. y \in Int /\ Moved(m, p) = Max({y, 0})
      BY <2>1, <3>3, Zenon
    <3> HIDE DEF y
    <3>4. 0 \in Int
      OBVIOUS
    <3>5. Max({y, 0}) = (IF y <= 0 THEN 0 ELSE y)
      BY <3>1, <3>4, PairBounds, Zenon
    <3>2. Moved(m, p) = (IF y <= 0 THEN 0 ELSE y)
      BY <3>1, <3>5, Zenon
    <3> QED
      BY <3>2 DEF y
  <2>3. Moved(m, p) \in 0..f /\ Moved(m, p) >= x - RoofStep /\ Moved(m, p) <= x
    BY <1>1, <2>2 DEF RoofStep
  <2> QED
    BY <1>1, <1>3, <2>3 DEF RoofStep, x, d, f
<1>4. CASE d \notin {"OPEN", "CLOSE"}
  <2>1. Moved(m, p) = x
    BY <1>4 DEF Moved
  <2> QED
    BY <1>1, <2>1 DEF RoofStep
<1> QED
  BY <1>2, <1>3, <1>4

\* The file keeps what the plant shows, or what it had.
Files(m) == UNCHANGED world \/ world' = [world EXCEPT !.saved.roof = m.shown]

\* What the plant says of where its panels are, when it showed old.
PositionNews(m, old) ==
  Said(m.shown["roof"], old.shown["roof"], Of("at", "roof"))
  \o Said(m.shown["shade"], old.shown["shade"], Of("at", "shade"))

\* What a tick does: the panels move, one that is at its end stops.
RoofTickForms ==
  \E n :
     /\ DOMAIN n = RoofFields
     /\ n.pos = [p \in Panels |-> Moved(mem["roof"], p)]
     /\ n.shown = [p \in Panels |-> Pct(n.pos[p])]
     /\ DOMAIN n.dir = Panels
     /\ \A p \in Panels : n.dir[p] \in {mem["roof"].dir[p], "STOP"}
     /\ DOMAIN n.timer = {"tick"} /\ n.timer.tick \in {Off, 1}
     /\ mem' = [mem EXCEPT !["roof"] = n]
     /\ bus' = BusAfter(PositionNews(n, mem["roof"]))
     /\ unread' = Delivered(unread, PositionNews(n, mem["roof"]))
     /\ Files(n)

\* The tick goes on while a panel moves.
LEMMA TickingForms ==
  ASSUME NEW m, DOMAIN m = RoofFields, DOMAIN m.timer = {"tick"}
  PROVE  LET n == Ticking(m) IN
         /\ DOMAIN n = RoofFields
         /\ n.pos = m.pos /\ n.shown = m.shown /\ n.dir = m.dir
         /\ DOMAIN n.timer = {"tick"}
         /\ n.timer.tick \in {Off, 1, m.timer.tick}
         /\ m.timer.tick # 0 => n.timer.tick # 0
<1> DEFINE x == CASE \A p \in Panels : m.dir[p] = "STOP" -> Off
                  [] m.timer.tick = Off                  -> 1
                  [] OTHER                               -> m.timer.tick
<1>1. Ticking(m) = [m EXCEPT !.timer.tick = x]
  BY DEF Ticking
<1>2. x \in {Off, 1, m.timer.tick} /\ (m.timer.tick # 0 => x # 0)
  BY DEF Off
<1> HIDE DEF x
<1> QED
  BY <1>1, <1>2 DEF RoofFields

\* So does every tick.
LEMMA RoofTicks ==
  ASSUME RoofRecord(mem["roof"]), RoofMoves
  PROVE  RoofTickForms
<1> DEFINE m  == mem["roof"]
           to(p) == CASE m.dir[p] = "OPEN"  -> Min({m.pos[p] + RoofStep, 5 * FullPct})
                      [] m.dir[p] = "CLOSE" -> Max({m.pos[p] - RoofStep, 0})
                      [] OTHER              -> m.pos[p]
           stop(p) == to(p) = (IF m.dir[p] = "OPEN" THEN 5 * FullPct ELSE 0)
           k  == [m EXCEPT !.pos = [p \in Panels |-> to(p)],
                           !.dir = [p \in Panels |-> IF stop(p) THEN "STOP" ELSE @[p]],
                           !.shown = [p \in Panels |-> Pct(to(p))],
                           !.timer.tick = 1]
           n  == Ticking(k)
           said(p) == IF Pct(to(p)) = m.shown[p] THEN <<>> ELSE << <<Of("at", p), Pct(to(p))>> >>
<1>1. /\ Act("roof", n, said("roof") \o said("shade"))
      /\ world' = IF \E p \in Panels : m.dir[p] # "STOP" /\ k.dir[p] = "STOP"
                  THEN SavesRoof(k) ELSE world
  BY Zenon DEF RoofMoves
<1>2. \A p : to(p) = Moved(m, p)
  BY DEF Moved
<1> HIDE DEF to
<1>3. /\ DOMAIN k = RoofFields
      /\ k.pos = [p \in Panels |-> to(p)]
      /\ k.shown = [p \in Panels |-> Pct(to(p))]
      /\ k.dir = [p \in Panels |-> IF stop(p) THEN "STOP" ELSE m.dir[p]]
      /\ DOMAIN k.timer = {"tick"} /\ k.timer.tick = 1
  BY DEF RoofRecord, RoofFields
<1> HIDE DEF k, stop
<1>4. /\ DOMAIN n = RoofFields
      /\ n.pos = k.pos /\ n.shown = k.shown /\ n.dir = k.dir
      /\ DOMAIN n.timer = {"tick"} /\ n.timer.tick \in {Off, 1}
  BY <1>3, TickingForms
<1> HIDE DEF n, m
<1>5. /\ n.pos = [p \in Panels |-> Moved(m, p)]
      /\ n.shown = [p \in Panels |-> Pct(n.pos[p])]
      /\ DOMAIN n.dir = Panels
      /\ \A p \in Panels : n.dir[p] \in {m.dir[p], "STOP"}
  BY <1>2, <1>3, <1>4
<1>6. said("roof") \o said("shade") = PositionNews(n, m)
  <2>1. n.shown["roof"] = Pct(to("roof")) /\ n.shown["shade"] = Pct(to("shade"))
    BY <1>3, <1>4 DEF Panels
  <2> QED
    BY <2>1 DEF PositionNews, Said
<1> HIDE DEF said
<1>7. /\ mem' = [mem EXCEPT !["roof"] = n]
      /\ bus' = BusAfter(PositionNews(n, m))
      /\ unread' = Delivered(unread, PositionNews(n, m))
  BY <1>1, <1>6 DEF Act, Publish
<1>8. Files(n)
  <2>1. [p \in Panels |-> Pct(k.pos[p])] = n.shown
    BY <1>3, <1>4
  <2> QED
    BY <1>1, <2>1 DEF SavesRoof, Files
<1> QED
  BY Zenon, <1>4, <1>5, <1>7, <1>8 DEF RoofTickForms, m

\* A value that is added to nothing.
LEMMA FirstValue ==
  ASSUME NEW x, NEW v
  PROVE  /\ <<>> \o <<>> = <<>> /\ DOMAIN <<>> = {} /\ IsSeq(<<>>)
         /\ IsSeq(<<>> \o <<v>>) /\ Latest(x, <<>> \o <<v>>) = v
         /\ \A i \in DOMAIN (<<>> \o <<v>>) : (<<>> \o <<v>>)[i] = v
<1> DEFINE none == <<>>
<1>1. DOMAIN none = {} /\ IsSeq(none)
  BY NothingIsSeq, SeqPlaces
<1> HIDE DEF none
<1>2. /\ none \o <<>> = none
      /\ \A w : /\ IsSeq(none \o <<w>>) /\ Latest(x, none \o <<w>>) = w
               /\ \A i \in DOMAIN (none \o <<w>>) :
                     \/ (none \o <<w>>)[i] = w
                     \/ i \in DOMAIN none /\ (none \o <<w>>)[i] = none[i]
  BY <1>1, LatestForms
<1>3. /\ none \o <<>> = none
      /\ IsSeq(none \o <<v>>) /\ Latest(x, none \o <<v>>) = v
      /\ \A i \in DOMAIN (none \o <<v>>) : (none \o <<v>>)[i] = v
  BY <1>1, <1>2, Zenon
<1> QED
  BY <1>1, <1>3, Zenon DEF none

\* A tick keeps what is known of the roof.
LEMMA RoofTickKeeps ==
  ASSUME Shape, RoofSound, "roof" \in DOMAIN mem, RoofMoves
  PROVE  RoofSound'
<1> DEFINE old == mem["roof"]
           switch == mem["roofSwitch"]
<1>1. /\ RoofRecord(old) /\ Covered(old.shown)
      /\ world.saved.roof \in [Panels -> 0..FullPct] /\ Covered(world.saved.roof)
      /\ \A p \in Panels : Of("at", p) \in DOMAIN bus
      /\ RoofQueues /\ TickSound
      /\ "roofSwitch" \in DOMAIN mem => RoofSwitchSound
      /\ "roofSwitch" \notin DOMAIN mem
           => \A p \in Panels : MovesTo(p) = <<>> /\ old.dir[p] = "STOP"
  BY DEF RoofSound
<1>2. RoofTickForms
  BY <1>1, RoofTicks
<1>3. PICK n :
         /\ DOMAIN n = RoofFields
         /\ n.pos = [p \in Panels |-> Moved(old, p)]
         /\ n.shown = [p \in Panels |-> Pct(n.pos[p])]
         /\ DOMAIN n.dir = Panels
         /\ \A p \in Panels : n.dir[p] \in {old.dir[p], "STOP"}
         /\ DOMAIN n.timer = {"tick"} /\ n.timer.tick \in {Off, 1}
         /\ mem' = [mem EXCEPT !["roof"] = n]
         /\ bus' = BusAfter(PositionNews(n, old))
         /\ unread' = Delivered(unread, PositionNews(n, old))
         /\ Files(n)
  BY <1>2 DEF RoofTickForms
<1>4. old.timer.tick = 0
  BY DEF RoofMoves, Due
<1>5. \A p \in Panels : MaySafely(p, old.dir[p])
  BY <1>1, <1>4 DEF TickSound
<1> DEFINE news == PositionNews(n, old)
<1>6. /\ \A p \in Panels : SaysOf(news, Of("at", p), n.shown[p], old.shown[p])
      /\ \A p \in Panels : ValuesOf(news, Of("move", p)) = <<>>
  <2> DEFINE a == Of("at", "roof")
             b == Of("at", "shade")
             v == n.shown["roof"]
             x == old.shown["roof"]
             w == n.shown["shade"]
             y == old.shown["shade"]
  <2>1. a # b /\ \A p \in Panels : Of("move", p) \notin {a, b}
    BY RoofNames DEF Panels
  <2>2. news = Said(v, x, a) \o Said(w, y, b)
    BY DEF PositionNews
  <2> HIDE DEF news, a, b, v, x, w, y
  <2>3. SaysOf(news, a, v, x) /\ SaysOf(news, b, w, y) /\ SilentBut(news, {a, b})
    BY <2>1, <2>2, SaidForms
  <2> QED
    BY <2>1, <2>3 DEF SilentBut, a, b, v, x, w, y, Panels
<1> HIDE DEF news, old, switch
<1>7. RoofRecord(n) /\ Covered(n.shown) /\ n.shown \in [Panels -> 0..FullPct]
  <2>1. old.pos \in [Panels -> 0..(5 * FullPct)] /\ old.shown = [p \in Panels |-> Pct(old.pos[p])]
    BY <1>1 DEF RoofRecord
  <2>2. \A p \in Panels : Moved(old, p) \in 0..(5 * FullPct)
    BY <2>1, MovedForms
  <2>3. RoofRecord(n)
    BY <1>3, <2>2 DEF RoofRecord
  <2>4. \A p \in Panels : n.shown[p] \in 0..FullPct
    BY <1>3, <2>2, PctForms
  <2>5. Covered(n.shown)
    <3> DEFINE r == old.pos["roof"]
               s == old.pos["shade"]
               a == Moved(old, "roof")
               b == Moved(old, "shade")
    <3>1. /\ r \in 0..(5 * FullPct) /\ s \in 0..(5 * FullPct)
          /\ a \in 0..(5 * FullPct) /\ b \in 0..(5 * FullPct)
      BY <2>1, <2>2 DEF Panels
    <3>2. /\ old.shown["roof"] = Pct(r) /\ old.shown["shade"] = Pct(s)
          /\ n.shown["roof"] = Pct(a) /\ n.shown["shade"] = Pct(b)
      BY <1>3, <2>1 DEF Panels
    <3>3. Pct(r) <= 1 \/ Pct(s) >= FullPct - 1
      BY <1>1, <3>2 DEF Covered
    <3>4. a <= r \/ old.dir["roof"] = "OPEN"
      BY <3>1, MovedForms
    <3>5. b >= s - RoofStep /\ (b >= s \/ old.dir["shade"] = "CLOSE")
      BY <3>1, MovedForms
    <3>6. /\ old.dir["roof"] = "OPEN" => Pct(s) >= FullPct
          /\ old.dir["shade"] = "CLOSE" => Pct(r) = 0
      BY <1>5, <3>2 DEF MaySafely, Panels, old
    <3> HIDE DEF r, s, a, b
    <3>7. Pct(a) <= 1 \/ Pct(b) >= FullPct - 1
      BY <3>1, <3>3, <3>4, <3>5, <3>6, TickCovers
    <3> QED
      BY <3>2, <3>7 DEF Covered
  <2> QED
    BY <1>3, <2>3, <2>4, <2>5
<1>8. world'.saved.roof \in [Panels -> 0..FullPct] /\ Covered(world'.saved.roof)
  <2>1. world'.saved.roof = world.saved.roof \/ world'.saved.roof = n.shown
    BY <1>3 DEF Files, Shape, WorldFields
  <2> QED
    BY <1>1, <1>7, <2>1
<1>9. \A p \in Panels : Of("at", p) \in DOMAIN bus'
  BY <1>1, <1>3 DEF BusAfter, Over
<1>10. mem'["roof"] = n /\ DOMAIN mem' = DOMAIN mem /\ mem'["roofSwitch"] = switch
  BY <1>3 DEF switch
<1>11. ASSUME NEW t, t \in DOMAIN unread, NEW s, s \in DOMAIN unread[t]
       PROVE  /\ t \in DOMAIN unread' /\ s \in DOMAIN unread'[t]
              /\ unread'[t][s] = unread[t][s] \o ValuesOf(news, s)
  <2>1. /\ t \in DOMAIN Delivered(unread, news) /\ s \in DOMAIN Delivered(unread, news)[t]
        /\ Delivered(unread, news)[t][s] = unread[t][s] \o ValuesOf(news, s)
    BY <1>11, DeliveredForms, Zenon
  <2>2. unread' = Delivered(unread, news)
    BY <1>3 DEF news
  <2> QED
    BY <2>1, <2>2, Zenon
<1>12. ASSUME NEW p \in Panels
       PROVE  /\ "roof" \in DOMAIN unread' /\ Of("move", p) \in DOMAIN unread'["roof"]
              /\ MovesTo(p)' = MovesTo(p) /\ IsSeq(MovesTo(p)')
  <2>1. "roof" \in DOMAIN unread /\ Of("move", p) \in DOMAIN unread["roof"] /\ IsSeq(MovesTo(p))
    BY <1>1 DEF RoofQueues
  <2>2. /\ "roof" \in DOMAIN unread' /\ Of("move", p) \in DOMAIN unread'["roof"]
        /\ unread'["roof"][Of("move", p)] = MovesTo(p) \o ValuesOf(news, Of("move", p))
    BY <1>11, <2>1 DEF MovesTo
  <2>3. ValuesOf(news, Of("move", p)) = <<>>
    BY <1>6
  <2> DEFINE q == MovesTo(p)
  <2>4. IsSeq(q)
    BY <2>1
  <2> HIDE DEF q
  <2>5. q \o <<>> = q
    BY <2>4, LatestForms
  <2>6. unread'["roof"][Of("move", p)] = q
    BY <2>2, <2>3, <2>5 DEF q
  <2> QED
    BY <2>2, <2>4, <2>6 DEF q, MovesTo
<1>13. RoofQueues'
  <2>1. \A p \in Panels :
           /\ "roof" \in DOMAIN unread' /\ Of("move", p) \in DOMAIN unread'["roof"]
           /\ IsSeq(MovesTo(p)')
    BY <1>12
  <2> QED
    BY <2>1 DEF RoofQueues, Panels
<1>14. TickSound'
  BY <1>3, <1>10 DEF TickSound, Off
<1>15. ASSUME "roofSwitch" \in DOMAIN mem PROVE RoofSwitchSound'
  <2>1. /\ RoofSwitchQueues
        /\ DOMAIN switch = RoofSwitchFields
        /\ switch.at \in [Panels -> Nat]
        /\ \A p \in Panels : Latest(switch.at[p], SeenOf(p)) = old.shown[p]
        /\ switch.last = Commands(switch) \/ switch.last = [p \in Panels |-> None]
        /\ \A p \in Panels : Latest(old.dir[p], MovesTo(p)) \in {switch.last[p], "STOP"}
    BY <1>1, <1>15 DEF RoofSwitchSound, old, switch
  <2>2. ASSUME NEW p \in Panels
        PROVE  /\ "roofSwitch" \in DOMAIN unread'
               /\ Of("at", p) \in DOMAIN unread'["roofSwitch"]
               /\ IsSeq(SeenOf(p)') /\ (\A i \in DOMAIN SeenOf(p)' : SeenOf(p)'[i] \in Nat)
               /\ Latest(switch.at[p], SeenOf(p)') = n.shown[p]
    <3>1. SeenOf(p) = <<>>
      BY <1>1, <1>4, <1>15 DEF TickSound, old
    <3>2. "roofSwitch" \in DOMAIN unread /\ Of("at", p) \in DOMAIN unread["roofSwitch"]
      BY <2>1 DEF RoofSwitchQueues
    <3>3. /\ "roofSwitch" \in DOMAIN unread'
          /\ Of("at", p) \in DOMAIN unread'["roofSwitch"]
          /\ unread'["roofSwitch"][Of("at", p)]
             = unread["roofSwitch"][Of("at", p)] \o ValuesOf(news, Of("at", p))
      BY <1>11, <3>2
    <3>10. unread'["roofSwitch"][Of("at", p)] = <<>> \o ValuesOf(news, Of("at", p))
      BY <3>1, <3>3 DEF SeenOf
    <3>4. switch.at[p] = old.shown[p]
      BY <2>1, <3>1 DEF Latest
    <3> DEFINE v == n.shown[p]
               e == <<>>
    <3>5. v \in Nat
      <4>1. FullPct \in Nat
        BY ClosuresAssumption
      <4> QED
        BY <1>7, <4>1
    <3>6. ValuesOf(news, Of("at", p)) = IF v = old.shown[p] THEN <<>> ELSE <<v>>
      BY <1>6 DEF SaysOf
    <3> DEFINE q == unread'["roofSwitch"][Of("at", p)]
    <3>7. /\ <<>> \o <<>> = <<>> /\ DOMAIN <<>> = {} /\ IsSeq(<<>>)
          /\ IsSeq(<<>> \o <<v>>) /\ Latest(switch.at[p], <<>> \o <<v>>) = v
          /\ \A i \in DOMAIN (<<>> \o <<v>>) : (<<>> \o <<v>>)[i] = v
      BY FirstValue, Zenon
    <3> HIDE DEF v
    <3>8. CASE v = old.shown[p]
      <4>1. q = <<>>
        BY <3>10, <3>6, <3>7, <3>8
      <4> HIDE DEF q
      <4>2. /\ IsSeq(q) /\ (\A i \in DOMAIN q : q[i] \in Nat)
            /\ Latest(switch.at[p], q) = v
        BY <3>4, <3>7, <3>8, <4>1 DEF Latest
      <4> QED
        BY <3>3, <4>2 DEF v, q, SeenOf
    <3>9. CASE v # old.shown[p]
      <4>1. q = <<>> \o <<v>>
        BY <3>10, <3>6, <3>9
      <4> HIDE DEF q
      <4>2. /\ IsSeq(q) /\ (\A i \in DOMAIN q : q[i] \in Nat)
            /\ Latest(switch.at[p], q) = v
        BY <3>5, <3>7, <4>1
      <4> QED
        BY <3>3, <4>2 DEF v, q, SeenOf
    <3> QED
      BY <3>8, <3>9
  <2>3. RoofSwitchQueues'
    BY <2>2 DEF RoofSwitchQueues, Panels
  <2>4. \A p \in Panels : Latest(n.dir[p], MovesTo(p)') \in {switch.last[p], "STOP"}
    BY <1>3, <1>12, <2>1 DEF Latest
  <2>5. \A p \in Panels : Latest(switch.at[p], SeenOf(p)') = n.shown[p]
    BY <2>2
  <2> QED
    BY <1>10, <2>1, <2>3, <2>4, <2>5 DEF RoofSwitchSound
<1>16. ASSUME "roofSwitch" \notin DOMAIN mem
       PROVE  \A p \in Panels : MovesTo(p)' = <<>> /\ n.dir[p] = "STOP"
  BY <1>1, <1>3, <1>12, <1>16
<1> QED
  BY <1>7, <1>8, <1>9, <1>10, <1>13, <1>14, <1>15, <1>16 DEF RoofSound

\* The plant takes a command: the panel goes that way, and one that stops is filed.
RoofHearsForms(p) ==
  \E n :
     /\ DOMAIN n = RoofFields
     /\ n.pos = mem["roof"].pos /\ n.shown = mem["roof"].shown
     /\ n.dir = [mem["roof"].dir EXCEPT ![p] = Head(MovesTo(p))]
     /\ DOMAIN n.timer = {"tick"} /\ n.timer.tick \in {Off, 0, 1}
     /\ mem["roof"].timer.tick # 0 => n.timer.tick # 0
     /\ mem' = [mem EXCEPT !["roof"] = n]
     /\ bus' = BusAfter(<<>>)
     /\ unread' = Delivered([unread EXCEPT !["roof"][Of("move", p)] = Tail(@)], <<>>)
     /\ Files(n)

\* So does every command.
LEMMA RoofHearsSteps ==
  ASSUME RoofRecord(mem["roof"]), NEW p \in Panels, RoofHears(p)
  PROVE  RoofHearsForms(p) /\ MovesTo(p) # <<>>
<1> DEFINE old == mem["roof"]
           v == Val("roof", Of("move", p))
           m == [old EXCEPT !.dir[p] = v]
           n == Ticking(m)
<1>1. /\ React("roof", Of("move", p), n, <<>>)
      /\ world' = IF m.dir[p] = "STOP" THEN SavesRoof(m) ELSE world
  BY DEF RoofHears
<1>2. MovesTo(p) # <<>> /\ v = Head(MovesTo(p))
  BY DEF RoofHears, Reads, Has, Val, MovesTo
<1>3. old.shown = [x \in Panels |-> Pct(old.pos[x])] /\ old.timer.tick \in {Off, 0, 1}
      /\ DOMAIN old = RoofFields /\ DOMAIN old.timer = {"tick"}
  BY DEF RoofRecord
<1> HIDE DEF v, old
<1>4. /\ DOMAIN m = RoofFields
      /\ m.pos = old.pos /\ m.shown = old.shown /\ m.dir = [old.dir EXCEPT ![p] = v]
      /\ DOMAIN m.timer = {"tick"} /\ m.timer.tick = old.timer.tick
  BY <1>3 DEF RoofFields
<1> HIDE DEF m
<1>5. /\ DOMAIN n = RoofFields
      /\ n.pos = m.pos /\ n.shown = m.shown /\ n.dir = m.dir
      /\ DOMAIN n.timer = {"tick"} /\ n.timer.tick \in {Off, 1, m.timer.tick}
      /\ m.timer.tick # 0 => n.timer.tick # 0
  BY <1>4, TickingForms
<1> HIDE DEF n
<1>6. Files(n)
  BY <1>1, <1>3, <1>4, <1>5 DEF SavesRoof, Files
<1>7. /\ mem' = [mem EXCEPT !["roof"] = n]
      /\ bus' = BusAfter(<<>>)
      /\ unread' = Delivered([unread EXCEPT !["roof"][Of("move", p)] = Tail(@)], <<>>)
  BY <1>1 DEF React
<1> QED
  BY <1>2, <1>3, <1>4, <1>5, <1>6, <1>7 DEF RoofHearsForms, old

\* A command keeps what is known of the roof.
LEMMA RoofHearsKeeps ==
  ASSUME Shape, RoofSound, "roof" \in DOMAIN mem, NEW p \in Panels, RoofHears(p)
  PROVE  RoofSound'
<1> DEFINE old == mem["roof"]
           switch == mem["roofSwitch"]
<1>1. /\ RoofRecord(old) /\ Covered(old.shown)
      /\ world.saved.roof \in [Panels -> 0..FullPct] /\ Covered(world.saved.roof)
      /\ \A x \in Panels : Of("at", x) \in DOMAIN bus
      /\ RoofQueues /\ TickSound
      /\ "roofSwitch" \in DOMAIN mem => RoofSwitchSound
      /\ "roofSwitch" \notin DOMAIN mem => \A x \in Panels : MovesTo(x) = <<>>
  BY DEF RoofSound
<1>2. RoofHearsForms(p) /\ MovesTo(p) # <<>>
  BY <1>1, RoofHearsSteps
<1>3. PICK n :
         /\ DOMAIN n = RoofFields
         /\ n.pos = old.pos /\ n.shown = old.shown
         /\ n.dir = [old.dir EXCEPT ![p] = Head(MovesTo(p))]
         /\ DOMAIN n.timer = {"tick"} /\ n.timer.tick \in {Off, 0, 1}
         /\ old.timer.tick # 0 => n.timer.tick # 0
         /\ mem' = [mem EXCEPT !["roof"] = n]
         /\ bus' = BusAfter(<<>>)
         /\ unread' = Delivered([unread EXCEPT !["roof"][Of("move", p)] = Tail(@)], <<>>)
         /\ Files(n)
  BY <1>2 DEF RoofHearsForms
<1>4. "roofSwitch" \in DOMAIN mem /\ RoofSwitchSound
  BY <1>1, <1>2
<1> DEFINE q == [unread EXCEPT !["roof"][Of("move", p)] = Tail(@)]
           Rest(x) == IF x = p THEN Tail(MovesTo(x)) ELSE MovesTo(x)
<1>5. /\ DOMAIN q = DOMAIN unread /\ q["roofSwitch"] = unread["roofSwitch"]
      /\ DOMAIN q["roof"] = DOMAIN unread["roof"]
      /\ \A x \in Panels : q["roof"][Of("move", x)] = Rest(x)
  <2>1. "roof" \in DOMAIN unread /\ \A x \in Panels : Of("move", x) \in DOMAIN unread["roof"]
    BY <1>1 DEF RoofQueues
  <2>2. \A x \in Panels : Of("move", x) = Of("move", p) => x = p
    BY RoofNames DEF Panels
  <2> DEFINE u == unread["roof"]
             w == [u EXCEPT ![Of("move", p)] = Tail(@)]
  <2>3. q = [unread EXCEPT !["roof"] = w]
    OBVIOUS
  <2>4. DOMAIN w = DOMAIN u
    OBVIOUS
  <2>5. \A x \in Panels : w[Of("move", x)] = Rest(x)
    BY <2>1, <2>2 DEF MovesTo
  <2> HIDE DEF q, w, Rest
  <2> QED
    BY <2>1, <2>3, <2>4, <2>5
<1>6. unread' = Delivered(q, <<>>)
  BY <1>3
<1> HIDE DEF q, old, switch
<1>7. ASSUME NEW t, t \in DOMAIN q, NEW s, s \in DOMAIN q[t], IsSeq(q[t][s])
      PROVE  /\ t \in DOMAIN unread' /\ s \in DOMAIN unread'[t]
             /\ unread'[t][s] = q[t][s]
  <2>1. /\ t \in DOMAIN Delivered(q, <<>>) /\ s \in DOMAIN Delivered(q, <<>>)[t]
        /\ Delivered(q, <<>>)[t][s] = q[t][s] \o ValuesOf(<<>>, s)
    BY <1>7, DeliveredForms, Zenon
  <2>2. ValuesOf(<<>>, s) = <<>>
    BY NothingSaid, Zenon
  <2>3. q[t][s] \o <<>> = q[t][s]
    BY <1>7, LatestForms
  <2> QED
    BY <1>6, <2>1, <2>2, <2>3, Zenon
<1>8. ASSUME NEW x \in Panels
      PROVE  /\ "roof" \in DOMAIN unread' /\ Of("move", x) \in DOMAIN unread'["roof"]
             /\ MovesTo(x)' = Rest(x) /\ IsSeq(Rest(x))
             /\ Latest(n.dir[x], Rest(x)) = Latest(old.dir[x], MovesTo(x))
             /\ \A i \in DOMAIN Rest(x) :
                   \E j \in DOMAIN MovesTo(x) : Rest(x)[i] = MovesTo(x)[j]
             /\ n.dir[x] = old.dir[x] \/ \E j \in DOMAIN MovesTo(x) : n.dir[x] = MovesTo(x)[j]
  <2>1. "roof" \in DOMAIN unread /\ Of("move", x) \in DOMAIN unread["roof"] /\ IsSeq(MovesTo(x))
    BY <1>1 DEF RoofQueues
  <2>2. DOMAIN old.dir = Panels
    BY <1>1 DEF RoofRecord
  <2> DEFINE mq == MovesTo(x)
             d  == old.dir[x]
  <2>3. IsSeq(mq)
    BY <2>1
  <2>4. CASE x = p
    <3>1. mq # <<>> /\ n.dir[x] = Head(mq) /\ Rest(x) = Tail(mq)
      BY <1>2, <1>3, <2>2, <2>4
    <3> HIDE DEF mq, d
    <3>2. /\ IsSeq(Tail(mq))
          /\ \A i \in DOMAIN Tail(mq) : i + 1 \in DOMAIN mq /\ Tail(mq)[i] = mq[i + 1]
      BY <2>3, <3>1, TailPlaces
    <3>3. Latest(Head(mq), Tail(mq)) = Latest(d, mq) /\ Head(mq) = mq[1] /\ 1 \in DOMAIN mq
      BY <2>3, <3>1, LatestForms
    <3>4. /\ IsSeq(Rest(x)) /\ Latest(n.dir[x], Rest(x)) = Latest(d, mq)
          /\ \A i \in DOMAIN Rest(x) : \E j \in DOMAIN mq : Rest(x)[i] = mq[j]
          /\ \E j \in DOMAIN mq : n.dir[x] = mq[j]
      <4> HIDE DEF Rest
      <4> QED
        BY <3>1, <3>2, <3>3
    <3>5. /\ "roof" \in DOMAIN q /\ Of("move", x) \in DOMAIN q["roof"]
          /\ q["roof"][Of("move", x)] = Rest(x)
      BY <1>5, <2>1
    <3>6. /\ "roof" \in DOMAIN unread' /\ Of("move", x) \in DOMAIN unread'["roof"]
          /\ MovesTo(x)' = Rest(x)
      <4> HIDE DEF Rest
      <4> QED
        BY <1>7, <3>4, <3>5 DEF MovesTo
    <3> HIDE DEF Rest
    <3> QED
      BY <3>4, <3>6 DEF mq, d
  <2>5. CASE x # p
    <3>1. n.dir[x] = d /\ Rest(x) = mq
      BY <1>3, <2>2, <2>5
    <3>2. "roof" \in DOMAIN q /\ Of("move", x) \in DOMAIN q["roof"] /\ q["roof"][Of("move", x)] = mq
      BY <1>5, <2>1, <3>1
    <3> HIDE DEF Rest
    <3>3. /\ "roof" \in DOMAIN unread' /\ Of("move", x) \in DOMAIN unread'["roof"]
          /\ MovesTo(x)' = mq
      BY <1>7, <2>3, <3>2 DEF MovesTo
    <3> HIDE DEF mq, d
    <3> QED
      BY <2>3, <3>1, <3>3 DEF mq, d
  <2> QED
    BY <2>4, <2>5
<1> HIDE DEF Rest
<1>9. ASSUME NEW x \in Panels
      PROVE  /\ "roofSwitch" \in DOMAIN unread' /\ Of("at", x) \in DOMAIN unread'["roofSwitch"]
             /\ SeenOf(x)' = SeenOf(x)
  <2>1. /\ "roofSwitch" \in DOMAIN unread /\ Of("at", x) \in DOMAIN unread["roofSwitch"]
        /\ IsSeq(SeenOf(x))
    BY <1>4 DEF RoofSwitchSound, RoofSwitchQueues
  <2>2. /\ "roofSwitch" \in DOMAIN q /\ Of("at", x) \in DOMAIN q["roofSwitch"]
        /\ q["roofSwitch"][Of("at", x)] = SeenOf(x)
    BY <1>5, <2>1 DEF SeenOf
  <2> QED
    BY <1>7, <2>1, <2>2 DEF SeenOf
<1>10. mem'["roof"] = n /\ DOMAIN mem' = DOMAIN mem /\ mem'["roofSwitch"] = switch
  BY <1>3 DEF switch
<1>11. \A x \in Panels : Of("at", x) \in DOMAIN bus'
  BY <1>1, <1>3 DEF BusAfter, Over
<1>12. world'.saved.roof \in [Panels -> 0..FullPct] /\ Covered(world'.saved.roof)
  <2>1. world'.saved.roof = world.saved.roof \/ world'.saved.roof = n.shown
    BY <1>3 DEF Files, Shape, WorldFields
  <2>2. old.shown \in [Panels -> 0..FullPct]
    <3>1. \A x \in Panels : old.pos[x] \in 0..(5 * FullPct)
      BY <1>1 DEF RoofRecord
    <3>2. \A x \in Panels : Pct(old.pos[x]) \in 0..FullPct
      BY <3>1, PctForms
    <3> QED
      BY <1>1, <3>2 DEF RoofRecord
  <2> QED
    BY <1>1, <1>3, <2>1, <2>2
<1>13. RoofRecord(n) /\ Covered(n.shown)
  <2>1. DOMAIN n.dir = Panels
    BY <1>1, <1>3 DEF RoofRecord
  <2> QED
    BY <1>1, <1>3, <2>1 DEF RoofRecord
<1>14. RoofQueues'
  <2>1. \A x \in Panels :
           /\ "roof" \in DOMAIN unread' /\ Of("move", x) \in DOMAIN unread'["roof"]
           /\ IsSeq(MovesTo(x)')
    BY <1>8
  <2> QED
    BY <2>1 DEF RoofQueues, Panels
<1>15. RoofSwitchSound'
  <2>1. /\ RoofSwitchQueues
        /\ DOMAIN switch = RoofSwitchFields
        /\ switch.at \in [Panels -> Nat]
        /\ \A x \in Panels : Latest(switch.at[x], SeenOf(x)) = old.shown[x]
        /\ switch.last = Commands(switch) \/ switch.last = [x \in Panels |-> None]
        /\ \A x \in Panels : Latest(old.dir[x], MovesTo(x)) \in {switch.last[x], "STOP"}
    BY <1>4 DEF RoofSwitchSound, old, switch
  <2>2. RoofSwitchQueues'
    <3>1. \A x \in Panels :
             /\ "roofSwitch" \in DOMAIN unread' /\ Of("at", x) \in DOMAIN unread'["roofSwitch"]
             /\ IsSeq(SeenOf(x)') /\ \A i \in DOMAIN SeenOf(x)' : SeenOf(x)'[i] \in Nat
      BY <1>9, <2>1 DEF RoofSwitchQueues
    <3> QED
      BY <3>1 DEF RoofSwitchQueues, Panels
  <2>3. \A x \in Panels : Latest(n.dir[x], MovesTo(x)') \in {switch.last[x], "STOP"}
    BY <1>8, <2>1
  <2>4. \A x \in Panels : Latest(switch.at[x], SeenOf(x)') = n.shown[x]
    BY <1>3, <1>9, <2>1
  <2> QED
    BY <1>10, <2>1, <2>2, <2>3, <2>4 DEF RoofSwitchSound
<1>16. TickSound'
  <2> SUFFICES ASSUME n.timer.tick = 0
               PROVE  /\ \A x \in Panels :
                           /\ MaySafely(x, n.dir[x])
                           /\ \A i \in DOMAIN MovesTo(x)' : MaySafely(x, MovesTo(x)'[i])
                      /\ \A x \in Panels : SeenOf(x)' = <<>>
    BY <1>3, <1>10 DEF TickSound, MaySafely, old
  <2>1. old.timer.tick = 0
    BY <1>3
  <2>2. \A x \in Panels : /\ MaySafely(x, old.dir[x])
                          /\ \A j \in DOMAIN MovesTo(x) : MaySafely(x, MovesTo(x)[j])
    BY <1>1, <2>1 DEF TickSound, old
  <2>3. \A x \in Panels : SeenOf(x) = <<>>
    BY <1>1, <1>4, <2>1 DEF TickSound, old
  <2> QED
    BY <1>8, <1>9, <2>2, <2>3
<1> QED
  BY <1>4, <1>10, <1>11, <1>12, <1>13, <1>14, <1>15, <1>16 DEF RoofSound

\* The plant keeps all but its sleep.
SameRoof(m, n) ==
  /\ DOMAIN n = DOMAIN m
  /\ n.pos = m.pos /\ n.shown = m.shown /\ n.dir = m.dir
  /\ DOMAIN n.timer = DOMAIN m.timer /\ n.timer.tick \in {Off, 0, 1}

\* The switch keeps all but its sleeps.
SameRoofSwitch(m, n) ==
  DOMAIN n = DOMAIN m /\ n.state = m.state /\ n.at = m.at /\ n.last = m.last

\* Neither reads, and nobody tells them anything.
SameRoofQueues ==
  \A p \in Panels :
     /\ "roof" \in DOMAIN unread' /\ Of("move", p) \in DOMAIN unread'["roof"]
     /\ MovesTo(p)' = MovesTo(p)
     /\ "roofSwitch" \in DOMAIN mem =>
           /\ "roofSwitch" \in DOMAIN unread' /\ Of("at", p) \in DOMAIN unread'["roofSwitch"]
           /\ SeenOf(p)' = SeenOf(p)

\* What is known of the roof stays as long as they do nothing.
LEMMA RoofFrame ==
  ASSUME RoofSound, "roof" \in DOMAIN mem, DOMAIN mem' = DOMAIN mem,
         SameRoof(mem["roof"], mem'["roof"]),
         "roofSwitch" \in DOMAIN mem => SameRoofSwitch(mem["roofSwitch"], mem'["roofSwitch"]),
         SameRoofQueues,
         world'.saved.roof = world.saved.roof,
         \A p \in Panels : Of("at", p) \in DOMAIN bus',
         TickSound'
  PROVE  RoofSound'
<1> DEFINE m == mem["roof"]
           n == mem'["roof"]
<1>1. /\ RoofRecord(m) /\ Covered(m.shown)
      /\ world.saved.roof \in [Panels -> 0..FullPct] /\ Covered(world.saved.roof)
      /\ RoofQueues
      /\ "roofSwitch" \in DOMAIN mem => RoofSwitchSound
      /\ "roofSwitch" \notin DOMAIN mem
           => \A p \in Panels : MovesTo(p) = <<>> /\ m.dir[p] = "STOP"
  BY DEF RoofSound
<1>2. n.pos = m.pos /\ n.shown = m.shown /\ n.dir = m.dir
  BY DEF SameRoof
<1>3. RoofRecord(n) /\ Covered(n.shown)
  BY <1>1 DEF RoofRecord, SameRoof
<1>4. RoofQueues'
  <2>1. \A p \in Panels :
           /\ "roof" \in DOMAIN unread' /\ Of("move", p) \in DOMAIN unread'["roof"]
           /\ IsSeq(MovesTo(p)')
    BY <1>1 DEF RoofQueues, SameRoofQueues
  <2> QED
    BY <2>1 DEF RoofQueues, Panels
<1>5. ASSUME "roofSwitch" \in DOMAIN mem PROVE RoofSwitchSound'
  <2> DEFINE s == mem["roofSwitch"]
             t == mem'["roofSwitch"]
  <2>1. /\ RoofSwitchQueues
        /\ DOMAIN s = RoofSwitchFields
        /\ s.at \in [Panels -> Nat]
        /\ \A p \in Panels : Latest(s.at[p], SeenOf(p)) = m.shown[p]
        /\ s.last = Commands(s) \/ s.last = [p \in Panels |-> None]
        /\ \A p \in Panels : Latest(m.dir[p], MovesTo(p)) \in {s.last[p], "STOP"}
    BY <1>1, <1>5 DEF RoofSwitchSound
  <2>2. DOMAIN t = DOMAIN s /\ t.state = s.state /\ t.at = s.at /\ t.last = s.last
    BY <1>5 DEF SameRoofSwitch
  <2>3. Commands(t) = Commands(s)
    BY <2>2 DEF Commands
  <2>4. RoofSwitchQueues'
    <3>1. \A p \in Panels :
             /\ "roofSwitch" \in DOMAIN unread' /\ Of("at", p) \in DOMAIN unread'["roofSwitch"]
             /\ IsSeq(SeenOf(p)') /\ \A i \in DOMAIN SeenOf(p)' : SeenOf(p)'[i] \in Nat
      BY <1>5, <2>1 DEF RoofSwitchQueues, SameRoofQueues
    <3> QED
      BY <3>1 DEF RoofSwitchQueues, Panels
  <2>5. \A p \in Panels : Latest(t.at[p], SeenOf(p)') = n.shown[p]
    BY <1>2, <1>5, <2>1, <2>2 DEF SameRoofQueues
  <2>6. \A p \in Panels : Latest(n.dir[p], MovesTo(p)') \in {t.last[p], "STOP"}
    BY <1>2, <2>1, <2>2 DEF SameRoofQueues
  <2> HIDE DEF s, m
  <2> QED
    BY <2>1, <2>2, <2>3, <2>4, <2>5, <2>6 DEF RoofSwitchSound
<1>6. ASSUME "roofSwitch" \notin DOMAIN mem
      PROVE  \A p \in Panels : MovesTo(p)' = <<>> /\ n.dir[p] = "STOP"
  BY <1>1, <1>2, <1>6 DEF SameRoofQueues
<1> QED
  BY <1>1, <1>3, <1>4, <1>5, <1>6 DEF RoofSound

\* The roof's tasks do not wait for answers.
LEMMA RoofDoesNotWait == ASSUME Shape PROVE "roof" \notin Waiting /\ "roofSwitch" \notin Waiting
  BY DEF Shape, SearchShape, SinceShape, Waiting, Askers

\* The values that are safe for a panel to be told.
LEMMA NoneIsSafe == \A p \in Panels : MaySafely(p, None) /\ MaySafely(p, "STOP")
<1>1. None \notin {"OPEN", "CLOSE"}
  BY NoneAssumption
<1> QED
  BY <1>1 DEF MaySafely

\* Time passes only when the plant and the switch have read everything.
LEMMA RoofTimeKeeps ==
  ASSUME Shape, RoofSound, "roof" \in DOMAIN mem, TimePasses
  PROVE  RoofSound'
<1> DEFINE m == mem["roof"]
           n == mem'["roof"]
           s == mem["roofSwitch"]
           t == mem'["roofSwitch"]
<1>1. /\ RoofRecord(m)
      /\ \A p \in Panels : Of("at", p) \in DOMAIN bus
      /\ RoofQueues
      /\ "roofSwitch" \in DOMAIN mem => RoofSwitchSound
      /\ "roofSwitch" \notin DOMAIN mem => \A p \in Panels : m.dir[p] = "STOP"
  BY DEF RoofSound
<1>2. /\ DOMAIN mem' = DOMAIN mem
      /\ n = [m EXCEPT !.timer = Passed(@)]
      /\ "roofSwitch" \in DOMAIN mem => t = [s EXCEPT !.timer = Passed(@)]
      /\ world'.saved.roof = world.saved.roof
  BY TimeForms DEF SameRest
<1>3. bus' = bus /\ unread' = unread
  BY DEF TimePasses, Tick
<1>4. /\ m.timer.tick # 0 /\ CaughtUp("roof")
      /\ "roofSwitch" \in DOMAIN mem => CaughtUp("roofSwitch")
  <2>1. \A u \in DOMAIN mem \ Waiting :
           (\A x \in DOMAIN mem[u].timer : mem[u].timer[x] # 0) /\ CaughtUp(u)
    BY DEF TimePasses, Tick
  <2>2. "tick" \in DOMAIN m.timer
    BY <1>1 DEF RoofRecord
  <2> QED
    BY <2>1, <2>2, RoofDoesNotWait
<1>5. \A p \in Panels : MovesTo(p) = <<>>
  BY <1>1, <1>4 DEF CaughtUp, RoofQueues, MovesTo
<1>6. "roofSwitch" \in DOMAIN mem => \A p \in Panels : SeenOf(p) = <<>>
  <2> SUFFICES ASSUME "roofSwitch" \in DOMAIN mem, NEW p \in Panels PROVE SeenOf(p) = <<>>
    OBVIOUS
  <2>1. Of("at", p) \in DOMAIN unread["roofSwitch"]
    BY <1>1 DEF RoofSwitchSound, RoofSwitchQueues
  <2>2. \A x \in DOMAIN unread["roofSwitch"] : unread["roofSwitch"][x] = <<>>
    BY <1>4 DEF CaughtUp
  <2> QED
    BY <2>1, <2>2 DEF SeenOf
<1>7. SameRoof(m, n)
  <2>1. /\ DOMAIN m = RoofFields /\ DOMAIN m.timer = {"tick"} /\ m.timer.tick \in {Off, 0, 1}
    BY <1>1 DEF RoofRecord
  <2> HIDE DEF m, n
  <2>2. /\ DOMAIN n = DOMAIN m /\ n.pos = m.pos /\ n.shown = m.shown /\ n.dir = m.dir
        /\ n.timer = Passed(m.timer)
    BY <1>2, <2>1 DEF RoofFields
  <2>3. DOMAIN Passed(m.timer) = {"tick"} /\ Passed(m.timer).tick \in {Off, 0, 1}
    BY <2>1 DEF Passed, Off
  <2> QED
    BY <2>1, <2>2, <2>3 DEF SameRoof
<1>8. "roofSwitch" \in DOMAIN mem => SameRoofSwitch(s, t)
  <2> SUFFICES ASSUME "roofSwitch" \in DOMAIN mem PROVE SameRoofSwitch(s, t)
    OBVIOUS
  <2>1. DOMAIN s = RoofSwitchFields /\ t = [s EXCEPT !.timer = Passed(@)]
    BY <1>1, <1>2 DEF RoofSwitchSound
  <2> HIDE DEF s, t
  <2> QED
    BY <2>1 DEF SameRoofSwitch, RoofSwitchFields
<1>9. SameRoofQueues
  <2>1. \A p \in Panels : MovesTo(p)' = MovesTo(p) /\ SeenOf(p)' = SeenOf(p)
    BY <1>3 DEF MovesTo, SeenOf
  <2> QED
    BY <1>1, <1>3, <2>1 DEF SameRoofQueues, RoofQueues, RoofSwitchSound, RoofSwitchQueues
<1>10. \A p \in Panels : MaySafely(p, m.dir[p])
  <2>1. CASE "roofSwitch" \notin DOMAIN mem
    BY <1>1, <2>1, NoneIsSafe
  <2>2. CASE "roofSwitch" \in DOMAIN mem
    <3>1. /\ s.at \in [Panels -> Nat]
          /\ \A p \in Panels : Latest(s.at[p], SeenOf(p)) = m.shown[p]
          /\ s.last = Commands(s) \/ s.last = [p \in Panels |-> None]
          /\ \A p \in Panels : Latest(m.dir[p], MovesTo(p)) \in {s.last[p], "STOP"}
      BY <1>1, <2>2 DEF RoofSwitchSound
    <3>2. \A p \in Panels : s.at[p] = m.shown[p] /\ m.dir[p] \in {s.last[p], "STOP"}
      BY <1>5, <1>6, <2>2, <3>1 DEF Latest
    <3>3. CASE s.last = [p \in Panels |-> None]
      BY <3>2, <3>3, NoneIsSafe
    <3>4. CASE s.last = Commands(s)
      <4>1. /\ Commands(s)["roof"] = "OPEN" => s.at["shade"] >= FullPct
            /\ Commands(s)["shade"] = "CLOSE" => s.at["roof"] = 0
        BY <3>1, CommandsAreSafe
      <4> QED
        BY <3>2, <3>4, <4>1 DEF MaySafely, Panels
    <3> QED
      BY <3>1, <3>3, <3>4
  <2> QED
    BY <2>1, <2>2
<1>11. TickSound'
  <2>1. n.dir = m.dir /\ n.shown = m.shown
    BY <1>7 DEF SameRoof
  <2>2. \A p \in Panels : /\ p = "roof" /\ n.dir[p] = "OPEN" => n.shown["shade"] >= FullPct
                          /\ p = "shade" /\ n.dir[p] = "CLOSE" => n.shown["roof"] = 0
    BY <1>10, <2>1 DEF MaySafely
  <2>3. \A p \in Panels : /\ MovesTo(p)' = <<>>
                          /\ "roofSwitch" \in DOMAIN mem => SeenOf(p)' = <<>>
    BY <1>3, <1>5, <1>6 DEF MovesTo, SeenOf
  <2>4. DOMAIN <<>> = {}
    BY NothingIsSeq, SeqPlaces
  <2>5. "roofSwitch" \in DOMAIN mem' => \A p \in Panels : SeenOf(p)' = <<>>
    BY <1>2, <2>3
  <2>6. \A p \in Panels : \A i \in DOMAIN MovesTo(p)' : FALSE
    BY <2>3, <2>4
  <2> QED
    BY <2>2, <2>5, <2>6 DEF TickSound, MaySafely
<1> QED
  BY <1>1, <1>2, <1>3, <1>7, <1>8, <1>9, <1>11, RoofFrame

\* No other step reaches the plant, its switch and what they tell each other.
LEMMA RoofStays ==
  ASSUME Shape, FlashSound, RoofSound, "roof" \in DOMAIN mem, Next,
         ~RoofSwitchStep, ~MotorsStep, ~Reboots, ~TimePasses
  PROVE  RoofSound'
<1>1. /\ \A p \in Panels : Of("at", p) \in DOMAIN bus
      /\ RoofRecord(mem["roof"]) /\ RoofQueues /\ TickSound
      /\ "roofSwitch" \in DOMAIN mem => RoofSwitchSound
  BY DEF RoofSound
<1> DEFINE S == OfAll("at", Panels) \cup OfAll("move", Panels)
           Goal == SameRoofQueues /\ \A p \in Panels : Of("at", p) \in DOMAIN bus'
<1>2. ASSUME NEW t, t \notin {"roof", "roofSwitch"}, NEW T, S \subseteq T, Mute(t, T) PROVE Goal
  <2>1. \A p \in Panels : Of("at", p) \in T /\ Of("move", p) \in T
    BY <1>2 DEF OfAll
  <2>2. \A p \in Panels : Of("at", p) \in DOMAIN bus'
    BY <1>1, <1>2, <2>1 DEF Mute
  <2>3. /\ DOMAIN unread' = DOMAIN unread
        /\ \A u \in DOMAIN unread : DOMAIN unread'[u] = DOMAIN unread[u]
        /\ \A u \in DOMAIN unread \ {t} : \A s \in T \cap DOMAIN unread[u] :
              IsSeq(unread[u][s]) => unread'[u][s] = unread[u][s]
    BY <1>2 DEF Mute
  <2>4. ASSUME NEW p \in Panels
        PROVE  /\ "roof" \in DOMAIN unread' /\ Of("move", p) \in DOMAIN unread'["roof"]
               /\ MovesTo(p)' = MovesTo(p)
    <3>1. "roof" \in DOMAIN unread /\ Of("move", p) \in DOMAIN unread["roof"] /\ IsSeq(MovesTo(p))
      BY <1>1 DEF RoofQueues
    <3> QED
      BY <1>2, <2>1, <2>3, <3>1 DEF MovesTo
  <2>5. ASSUME NEW p \in Panels, "roofSwitch" \in DOMAIN mem
        PROVE  /\ "roofSwitch" \in DOMAIN unread' /\ Of("at", p) \in DOMAIN unread'["roofSwitch"]
               /\ SeenOf(p)' = SeenOf(p)
    <3>1. /\ "roofSwitch" \in DOMAIN unread /\ Of("at", p) \in DOMAIN unread["roofSwitch"]
          /\ IsSeq(SeenOf(p))
      BY <1>1, <2>5 DEF RoofSwitchSound, RoofSwitchQueues
    <3> QED
      BY <1>2, <2>1, <2>3, <3>1 DEF SeenOf
  <2> QED
    BY <2>2, <2>4, <2>5 DEF SameRoofQueues
<1>3. /\ S \subseteq TaskSignals
      /\ S \subseteq TaskSignals \ {"motor"}
      /\ S \subseteq TaskSignals \ {"chime"}
      /\ S \subseteq TaskSignals \ {"lostKey", "chime"}
      /\ S \subseteq TaskSignals \ OfAll("rf", Fobs)
  BY TaskNames DEF TaskSignals
<1> HIDE DEF S, Goal
<1>4. Goal
  <2>1. "roof" \notin Spokesmen /\ "roofSwitch" \notin Spokesmen
    BY DEF Spokesmen, Silent, Others
  <2> QED
    BY MuteCases, <1>2, <1>3, <2>1
<1>5. /\ DOMAIN mem' = DOMAIN mem
      /\ mem'["roof"] = mem["roof"]
      /\ "roofSwitch" \in DOMAIN mem => mem'["roofSwitch"] = mem["roofSwitch"]
  <2> DEFINE Same == /\ DOMAIN mem' = DOMAIN mem
                     /\ mem'["roof"] = mem["roof"]
                     /\ "roofSwitch" \in DOMAIN mem => mem'["roofSwitch"] = mem["roofSwitch"]
  <2>1. ASSUME NEW t, t \notin {"roof", "roofSwitch"}, Only(t) PROVE Same
    BY <2>1 DEF Only
  <2>2. ASSUME UNCHANGED mem PROVE Same
    BY <2>2
  <2> HIDE DEF Same
  <2>3. Same
    BY StepCases, OnlyForms, <2>1, <2>2 DEF Others
  <2> QED
    BY <2>3 DEF Same
<1>6. world'.saved.roof = world.saved.roof
  BY WorldSteps
<1>7. SameRoofQueues /\ \A p \in Panels : Of("at", p) \in DOMAIN bus'
  BY <1>4 DEF Goal
<1>8. SameRoof(mem["roof"], mem'["roof"])
  BY <1>1, <1>5 DEF SameRoof, RoofRecord
<1>9. "roofSwitch" \in DOMAIN mem => SameRoofSwitch(mem["roofSwitch"], mem'["roofSwitch"])
  BY <1>5 DEF SameRoofSwitch
<1>10. TickSound'
  <2>1. \A p \in Panels : MovesTo(p)' = MovesTo(p)
                          /\ ("roofSwitch" \in DOMAIN mem => SeenOf(p)' = SeenOf(p))
    BY <1>7 DEF SameRoofQueues
  <2> QED
    BY <1>1, <1>5, <2>1 DEF TickSound, MaySafely
<1> QED
  BY <1>5, <1>6, <1>7, <1>8, <1>9, <1>10, RoofFrame

-----------------------------------------------------------------------------
(* Restarts.                                                               *)

\* The panels' positions are not among the other signals a restart restores.
LEMMA RestoredNames ==
  \A p \in Panels :
     /\ Of("at", p) \notin Claimable
     /\ Of("at", p) \notin {Of("folded", "left"), Of("folded", "right"), "hoodLatch"}
     /\ Of("move", p) \notin OfAll("at", Panels) \cup OfAll("folded", Sides) \cup {"status"}
<1>1. /\ {"hoodLatch", "status"} \subseteq PlainSignals
      /\ {"puddle", "dome", "lowBeam", "highBeam", "parking", "plate", "drl", "horn", "motor"}
           \subseteq PlainSignals
  BY DEF PlainSignals, ComfortSignals, EntrySignals
<1>2. /\ Panels \subseteq Bearers /\ Sides \subseteq Bearers /\ Sides = {"left", "right"}
      /\ {"at", "move", "folded", "signal"} \subseteq Stems
  BY DEF Bearers, Stems, Sides
<1>3. \A s \in Stems, k \in Bearers :
        /\ Of(s, k) \notin PlainSignals
        /\ \A r \in Stems, j \in Bearers : Of(s, k) = Of(r, j) => s = r /\ k = j
  BY NamesAssumption
<1> QED
  BY <1>1, <1>2, <1>3 DEF Claimable, OfAll

\* After a restart the plant is where the file says, and the switch is about to read it.
LEMMA RoofBoots ==
  ASSUME Shape, RoofSound, "roof" \in DOMAIN mem, Reboots
  PROVE  RoofSound'
<1> DEFINE saved == world.saved.roof
           old == [bus EXCEPT
                     ![Of("at", "roof")]      = world.saved.roof["roof"],
                     ![Of("at", "shade")]     = world.saved.roof["shade"],
                     ![Of("folded", "left")]  = world.saved.folded["left"],
                     ![Of("folded", "right")] = world.saved.folded["right"],
                     !["hoodLatch"]           = world.saved.hood]
           boot == Over([s \in Claimable |-> Unclaimed(s)], old)
           said == OfAll("at", Panels) \cup OfAll("folded", Sides) \cup {"status"}
<1>1. /\ bus' = boot
      /\ mem' = [t \in DOMAIN mem |-> ComfortTask(t, boot, world.saved).mem]
      /\ unread' = [t \in DOMAIN mem |->
                      [s \in DOMAIN unread[t] |-> IF s \in said THEN <<boot[s]>> ELSE <<>>]]
  BY Zenon DEF Reboots
<1>2. /\ saved \in [Panels -> 0..FullPct] /\ Covered(saved)
      /\ \A p \in Panels : Of("at", p) \in DOMAIN bus
      /\ RoofQueues
      /\ "roofSwitch" \in DOMAIN mem => RoofSwitchSound
  BY DEF RoofSound
<1>3. \A p \in Panels : Of("at", p) \in DOMAIN boot /\ boot[Of("at", p)] = saved[p]
  <2>1. DOMAIN old = DOMAIN bus
    OBVIOUS
  <2>2. \A p \in Panels : old[Of("at", p)] = saved[p]
    BY SMTT(30), <1>2, RestoredNames, RoofNames DEF Panels
  <2> HIDE DEF old
  <2> QED
    BY <1>2, <2>1, <2>2, RestoredNames, OverForms
<1> HIDE DEF boot, old
<1>4. /\ mem'["roof"] = RoofTask(world.saved).mem
      /\ "roofSwitch" \in DOMAIN mem => mem'["roofSwitch"] = RoofSwitchTask.mem
      /\ DOMAIN mem' = DOMAIN mem
  BY <1>1 DEF ComfortTask
<1>5. LET n == mem'["roof"] IN
      /\ DOMAIN n = RoofFields
      /\ n.pos = [p \in Panels |-> 5 * saved[p]] /\ n.shown = saved
      /\ n.dir = [p \in Panels |-> "STOP"]
      /\ DOMAIN n.timer = {"tick"} /\ n.timer.tick = Off
  BY <1>4 DEF RoofTask, RoofFields, Timers
<1>6. "roofSwitch" \in DOMAIN mem =>
      LET t == mem'["roofSwitch"] IN
      /\ DOMAIN t = RoofSwitchFields
      /\ t.at = [p \in Panels |-> 0] /\ t.last = [p \in Panels |-> None]
  BY <1>4 DEF RoofSwitchTask, RoofSwitchFields
<1>7. ASSUME NEW p \in Panels
      PROVE  /\ "roof" \in DOMAIN unread' /\ Of("move", p) \in DOMAIN unread'["roof"]
             /\ MovesTo(p)' = <<>>
  <2>1. Of("move", p) \in DOMAIN unread["roof"]
    BY <1>2 DEF RoofQueues
  <2>2. Of("move", p) \notin said
    BY RestoredNames
  <2> HIDE DEF said
  <2> QED
    BY <1>1, <2>1, <2>2 DEF MovesTo
<1>8. ASSUME NEW p \in Panels, "roofSwitch" \in DOMAIN mem
      PROVE  /\ "roofSwitch" \in DOMAIN unread' /\ Of("at", p) \in DOMAIN unread'["roofSwitch"]
             /\ SeenOf(p)' = <<saved[p]>>
  <2>1. Of("at", p) \in DOMAIN unread["roofSwitch"]
    BY <1>2, <1>8 DEF RoofSwitchSound, RoofSwitchQueues
  <2>2. Of("at", p) \in said
    BY DEF OfAll
  <2> HIDE DEF said
  <2> QED
    BY <1>1, <1>3, <1>8, <2>1, <2>2 DEF SeenOf
<1>9. world'.saved = world.saved
  BY DEF Reboots, Shape, WorldFields
<1>10. RoofRecord(mem'["roof"])
  <2>1. \A p \in Panels : 5 * saved[p] \in 0..(5 * FullPct) /\ Pct(5 * saved[p]) = saved[p]
    BY <1>2, PctForms
  <2>2. saved = [p \in Panels |-> saved[p]]
    BY <1>2
  <2> HIDE DEF saved
  <2> QED
    BY <1>5, <2>1, <2>2 DEF RoofRecord
<1>11. RoofQueues'
  <2>1. \A p \in Panels :
           /\ "roof" \in DOMAIN unread' /\ Of("move", p) \in DOMAIN unread'["roof"]
           /\ IsSeq(MovesTo(p)')
    BY <1>7, NothingIsSeq
  <2> QED
    BY <2>1 DEF RoofQueues, Panels
<1>12. ASSUME "roofSwitch" \in DOMAIN mem PROVE RoofSwitchSound'
  <2>1. ASSUME NEW v
        PROVE  /\ IsSeq(<<v>>) /\ (\A i \in DOMAIN <<v>> : <<v>>[i] = v)
               /\ \A x : Latest(x, <<v>>) = v
    <3>1. <<v>> \in Seq({v}) /\ Len(<<v>>) = 1 /\ <<v>>[1] = v /\ <<v>> # <<>> /\ DOMAIN <<v>> = {1}
      OBVIOUS
    <3> QED
      BY <3>1 DEF IsSeq, Latest
  <2>2. \A p \in Panels : saved[p] \in Nat
    <3>1. FullPct \in Nat
      BY ClosuresAssumption
    <3> QED
      BY <1>2, <3>1
  <2> HIDE DEF saved
  <2>3. RoofSwitchQueues'
    <3>1. \A p \in Panels :
             /\ "roofSwitch" \in DOMAIN unread' /\ Of("at", p) \in DOMAIN unread'["roofSwitch"]
             /\ IsSeq(SeenOf(p)') /\ \A i \in DOMAIN SeenOf(p)' : SeenOf(p)'[i] \in Nat
      BY <1>8, <1>12, <2>1, <2>2
    <3> QED
      BY <3>1 DEF RoofSwitchQueues, Panels
  <2>4. \A p \in Panels : Latest(mem'["roofSwitch"].at[p], SeenOf(p)') = mem'["roof"].shown[p]
    BY <1>5, <1>8, <1>12, <2>1
  <2>5. \A p \in Panels :
           Latest(mem'["roof"].dir[p], MovesTo(p)') \in {mem'["roofSwitch"].last[p], "STOP"}
    BY <1>5, <1>7 DEF Latest
  <2>6. mem'["roofSwitch"].at \in [Panels -> Nat]
    BY <1>6, <1>12
  <2> QED
    BY <1>6, <1>12, <2>3, <2>4, <2>5, <2>6 DEF RoofSwitchSound
<1>13. TickSound'
  BY <1>5 DEF TickSound, Off
<1> QED
  <2>1. \A p \in Panels : Of("at", p) \in DOMAIN bus'
    BY <1>1, <1>3
  <2>2. /\ Covered(mem'["roof"].shown)
        /\ world'.saved.roof \in [Panels -> 0..FullPct] /\ Covered(world'.saved.roof)
    BY <1>2, <1>5, <1>9
  <2>3. \A p \in Panels : MovesTo(p)' = <<>> /\ mem'["roof"].dir[p] = "STOP"
    BY <1>5, <1>7
  <2> QED
    BY <1>4, <1>10, <1>11, <1>12, <1>13, <2>1, <2>2, <2>3 DEF RoofSound

\* Every step keeps what is known of the roof.
LEMMA RoofKept == ASSUME Shape, FlashSound, RoofSound, [Next]_vars PROVE RoofSound'
<1>1. CASE "roof" \notin DOMAIN mem
  <2>1. DOMAIN mem' = DOMAIN mem
    BY WorldSteps DEF vars
  <2> QED
    BY <1>1, <2>1 DEF RoofSound
<1>2. CASE UNCHANGED vars
  BY <1>2 DEF vars, RoofSound, RoofQueues, RoofSwitchSound, RoofSwitchQueues, TickSound, MovesTo,
     SeenOf, MaySafely
<1>3. ASSUME "roof" \in DOMAIN mem, RoofSwitchStep PROVE RoofSound'
  BY <1>3, RoofSwitchKeeps
<1>4. ASSUME "roof" \in DOMAIN mem, MotorsStep PROVE RoofSound'
  BY <1>4, RoofTickKeeps, RoofHearsKeeps DEF MotorsStep
<1>5. ASSUME "roof" \in DOMAIN mem, Reboots PROVE RoofSound'
  BY <1>5, RoofBoots
<1>6. ASSUME "roof" \in DOMAIN mem, TimePasses PROVE RoofSound'
  BY <1>6, RoofTimeKeeps
<1>7. ASSUME "roof" \in DOMAIN mem, Next,
             ~RoofSwitchStep, ~MotorsStep, ~Reboots, ~TimePasses
      PROVE  RoofSound'
  BY <1>7, RoofStays
<1> QED
  BY <1>1, <1>2, <1>3, <1>4, <1>5, <1>6, <1>7

\* The roof is closed at first, and nothing has been said of it.
LEMMA RoofInit == Init => RoofSound
<1> SUFFICES ASSUME Init, "roof" \in DOMAIN mem PROVE RoofSound
  BY DEF RoofSound
<1>1. PICK name \in DOMAIN Teams :
         /\ bus = Over(Teams[name].bus, Over(EntryBus, ComfortBus))
         /\ world.saved = FactoryState
         /\ \A t \in DOMAIN mem : mem[t] = Task(t, bus, world).mem
         /\ unread = [t \in DOMAIN mem |-> [s \in Task(t, bus, world).follows |-> <<>>]]
  BY InitForms
<1>2. world.saved.roof = [p \in Panels |-> 0]
  BY <1>1 DEF FactoryState
<1>3. /\ Task("roof", bus, world) = RoofTask(world.saved)
      /\ Task("roofSwitch", bus, world) = RoofSwitchTask
  BY DEF Task, EntryTasks, ComfortTask
<1>4. LET n == mem["roof"] IN
      /\ DOMAIN n = RoofFields
      /\ n.pos = [p \in Panels |-> 5 * world.saved.roof[p]] /\ n.shown = world.saved.roof
      /\ n.dir = [p \in Panels |-> "STOP"]
      /\ DOMAIN n.timer = {"tick"} /\ n.timer.tick = Off
  <2>1. mem["roof"] = RoofTask(world.saved).mem
    BY <1>1, <1>3
  <2> QED
    BY <2>1 DEF RoofTask, RoofFields, Timers
<1>5. ASSUME "roofSwitch" \in DOMAIN mem
      PROVE  LET t == mem["roofSwitch"] IN
             /\ DOMAIN t = RoofSwitchFields
             /\ t.at = [p \in Panels |-> 0] /\ t.last = [p \in Panels |-> None]
  <2>1. mem["roofSwitch"] = RoofSwitchTask.mem
    BY <1>1, <1>3, <1>5
  <2> QED
    BY <2>1 DEF RoofSwitchTask, RoofSwitchFields
<1>6. ASSUME NEW p \in Panels
      PROVE  /\ "roof" \in DOMAIN unread /\ Of("move", p) \in DOMAIN unread["roof"]
             /\ MovesTo(p) = <<>>
  <2>1. Of("move", p) \in RoofTask(world.saved).follows
    BY DEF RoofTask, OfAll
  <2> QED
    BY <1>1, <1>3, <2>1 DEF MovesTo
<1>7. ASSUME NEW p \in Panels, "roofSwitch" \in DOMAIN mem
      PROVE  /\ "roofSwitch" \in DOMAIN unread /\ Of("at", p) \in DOMAIN unread["roofSwitch"]
             /\ SeenOf(p) = <<>>
  <2>1. Of("at", p) \in RoofSwitchTask.follows
    BY DEF RoofSwitchTask, OfAll
  <2> QED
    BY <1>1, <1>3, <1>7, <2>1 DEF SeenOf
<1>8. FullPct \in Nat
  BY ClosuresAssumption
<1>9. RoofRecord(mem["roof"]) /\ Covered(mem["roof"].shown)
      /\ world.saved.roof \in [Panels -> 0..FullPct] /\ Covered(world.saved.roof)
  <2>1. 5 * 0 \in 0..(5 * FullPct) /\ Pct(5 * 0) = 0 /\ 0 \in 0..FullPct
    BY <1>8, PctForms
  <2>2. \A p \in Panels : world.saved.roof[p] = 0
    BY <1>2
  <2>3. world.saved.roof \in [Panels -> 0..FullPct] /\ Covered(world.saved.roof)
    BY <1>2, <2>1 DEF Covered, Panels
  <2>4. mem["roof"].pos = [p \in Panels |-> 5 * 0]
    BY <1>2, <1>4
  <2>5. mem["roof"].shown = [p \in Panels |-> Pct(mem["roof"].pos[p])]
    BY <1>2, <1>4, <2>1, <2>4
  <2> QED
    BY <1>4, <2>1, <2>3, <2>4, <2>5 DEF RoofRecord
<1>10. RoofQueues
  BY <1>6, NothingIsSeq DEF RoofQueues, Panels
<1>11. ASSUME "roofSwitch" \in DOMAIN mem PROVE RoofSwitchSound
  <2>1. DOMAIN <<>> = {} /\ IsSeq(<<>>)
    BY NothingIsSeq, SeqPlaces
  <2>2. RoofSwitchQueues
    BY <1>7, <1>11, <2>1 DEF RoofSwitchQueues, Panels
  <2>3. \A p \in Panels : Latest(mem["roofSwitch"].at[p], SeenOf(p)) = mem["roof"].shown[p]
    BY <1>2, <1>4, <1>5, <1>7, <1>11 DEF Latest
  <2>4. \A p \in Panels :
           Latest(mem["roof"].dir[p], MovesTo(p)) \in {mem["roofSwitch"].last[p], "STOP"}
    BY <1>4, <1>6 DEF Latest
  <2>5. mem["roofSwitch"].at \in [Panels -> Nat]
    BY <1>5, <1>11
  <2> QED
    BY <1>5, <1>11, <2>2, <2>3, <2>4, <2>5 DEF RoofSwitchSound
<1>12. TickSound
  BY <1>4 DEF TickSound, Off
<1>13. \A p \in Panels : Of("at", p) \in DOMAIN bus
  <2> DEFINE c6 == [s \in OfAll("aimCmd", Sides) |-> "NONE"]
             c5 == Over([s \in OfAll("move", Panels) |-> "STOP"], c6)
             c4 == Over([s \in OfAll("at", Panels) \cup OfAll("tilt", Sides)
                               \cup OfAll("yaw", Sides) |-> 0], c5)
             c3 == Over([s \in OfAll("detent", Sources) |-> Neutral], c4)
             c2 == Over([s \in OfAll("foldCmd", Sides) \cup OfAll("folded", Sides) |-> FALSE], c3)
             c1 == Over([s \in OfAll("lamp", Sides) \cup OfAll("defect", Sides) |-> FALSE], c2)
             c0 == Over([s \in Claimable |-> Unclaimed(s)], c1)
  <2>1. ComfortBus = Over(ComfortSignals, c0)
    BY DEF ComfortBus
  <2>2. \A new, prev : DOMAIN prev \subseteq DOMAIN Over(new, prev)
    BY DEF Over
  <2>3. \A p \in Panels : Of("at", p) \in DOMAIN c4
    <3> HIDE DEF c5
    <3> QED
      BY DEF Over, OfAll
  <2> HIDE DEF c4
  <2>4. DOMAIN c4 \subseteq DOMAIN c3
    BY <2>2
  <2> HIDE DEF c3
  <2>5. DOMAIN c3 \subseteq DOMAIN c2
    BY <2>2
  <2> HIDE DEF c2
  <2>6. DOMAIN c2 \subseteq DOMAIN c1
    BY <2>2
  <2> HIDE DEF c1
  <2>7. DOMAIN c1 \subseteq DOMAIN c0
    BY <2>2
  <2> HIDE DEF c0
  <2>8. DOMAIN c0 \subseteq DOMAIN ComfortBus
    BY <2>1, <2>2
  <2>9. DOMAIN ComfortBus \subseteq DOMAIN bus
    BY <1>1, <2>2
  <2> QED
    BY <2>3, <2>4, <2>5, <2>6, <2>7, <2>8, <2>9
<1> QED
  BY <1>4, <1>6, <1>9, <1>10, <1>11, <1>12, <1>13 DEF RoofSound

\* The roof opens under an open shade (sunroof.rs: drive, and the plant's motors):
\* the switch commands the plant by positions it reads late, and the plant acts on commands
\* it reads late, but a tick of the motors finds both done; and since the file holds the
\* positions of one moment, a restart restores positions that are allowed too.
THEOREM RoofOpensUnderShade == Spec => []RoofOpensUnderOpenShade
<1> DEFINE Inv == Shape /\ FlashSound /\ RoofSound
<1>1. Init => Inv
  BY ShapeInit, FlashInit, RoofInit
<1>2. Inv /\ [Next]_vars => Inv'
  BY ShapeKept, FlashKept, RoofKept
<1>3. Inv => RoofOpensUnderOpenShade
  <2> SUFFICES ASSUME RoofSound, "roof" \in DOMAIN mem, Pct(mem["roof"].pos["roof"]) > 1
               PROVE  Pct(mem["roof"].pos["shade"]) >= FullPct - 1
    BY DEF RoofOpensUnderOpenShade, Runs
  <2>1. RoofRecord(mem["roof"]) /\ Covered(mem["roof"].shown)
    BY DEF RoofSound
  <2>2. /\ mem["roof"].shown["roof"] = Pct(mem["roof"].pos["roof"])
        /\ mem["roof"].shown["shade"] = Pct(mem["roof"].pos["shade"])
        /\ mem["roof"].pos["roof"] \in 0..(5 * FullPct)
    BY <2>1 DEF RoofRecord, Panels
  <2>3. Pct(mem["roof"].pos["roof"]) \in Nat
    <3>1. Pct(mem["roof"].pos["roof"]) \in 0..FullPct
      BY <2>2, PctForms
    <3> QED
      BY <3>1
  <2> QED
    BY <2>1, <2>2, <2>3 DEF Covered
<1> QED
  BY <1>1, <1>2, <1>3, PTL DEF Spec

-----------------------------------------------------------------------------
(* What is said of the lock of the rear door.                              *)

\* The signals of the lock that its plants publish.
LockOfDoor == {"isLocked", "double", "soldier"}

\* News about the signal s: nothing, or one value, which it has then.
Says(news, s, q) ==
  /\ ValuesOf(news, s) = q
  /\ s \in DOMAIN bus => s \in DOMAIN BusAfter(news) /\ BusAfter(news)[s] = Latest(bus[s], q)

\* News without the signal s, and news with one place for it.
LEMMA SaysForms ==
  ASSUME NEW news, NEW s
  PROVE  /\ Mutes(news, {s}) => Says(news, s, <<>>)
         /\ \A v : \A i \in DOMAIN news \cap Nat :
              news[i] = <<s, v>> /\ (\A j \in DOMAIN news : news[j][1] = s => j = i)
                => Says(news, s, <<v>>)
<1>1. ASSUME Mutes(news, {s}) PROVE Says(news, s, <<>>)
  <2>1. /\ s \in DOMAIN bus => s \in DOMAIN BusAfter(news) /\ BusAfter(news)[s] = bus[s]
        /\ ValuesOf(news, s) = <<>>
    BY <1>1, MuteNews
  <2> QED
    BY <2>1 DEF Says, Latest
<1>2. ASSUME NEW v, NEW i \in DOMAIN news \cap Nat, news[i] = <<s, v>>,
             \A j \in DOMAIN news : news[j][1] = s => j = i
      PROVE  Says(news, s, <<v>>)
  <2>0. news[i][1] = s /\ news[i][2] = v
    BY <1>2
  <2>1. PlacesOf(news, s) = {i}
    BY <1>2, <2>0 DEF PlacesOf
  <2>2. s \in DOMAIN BusAfter(news) /\ BusAfter(news)[s] = v
    BY <2>0, <2>1 DEF BusAfter, Over
  <2>3. \A k \in {i} : {j \in {i} : j <= k} = {i}
    OBVIOUS
  <2>4. Cardinality({i}) = 1
    BY FS_Singleton
  <2>5. ValuesOf(news, s) = [n \in 1..1 |-> v]
    BY <2>0, <2>1, <2>3, <2>4 DEF ValuesOf
  <2>6. Latest(bus[s], <<v>>) = v
    BY DEF Latest
  <2> QED
    BY <2>2, <2>5, <2>6 DEF Says
<1> QED
  BY <1>1, <1>2

\* News of up to three signals.
LEMMA SayFew ==
  ASSUME NEW a, NEW u, NEW b, NEW v, NEW c, NEW w
  PROVE  /\ Says(<< <<a, u>> >>, a, <<u>>)
         /\ a # b => /\ Says(<< <<a, u>>, <<b, v>> >>, a, <<u>>)
                     /\ Says(<< <<a, u>>, <<b, v>> >>, b, <<v>>)
         /\ a # b /\ b # c /\ c # a =>
              /\ Says(<< <<a, u>>, <<b, v>>, <<c, w>> >>, a, <<u>>)
              /\ Says(<< <<a, u>>, <<b, v>>, <<c, w>> >>, b, <<v>>)
              /\ Says(<< <<a, u>>, <<b, v>>, <<c, w>> >>, c, <<w>>)
<1>1. Says(<< <<a, u>> >>, a, <<u>>)
  <2> DEFINE news == << <<a, u>> >>
  <2>1. DOMAIN news = {1} /\ news[1] = <<a, u>>
    OBVIOUS
  <2> HIDE DEF news
  <2>2. Says(news, a, <<u>>)
    BY <2>1, SaysForms
  <2> QED
    BY <2>2 DEF news
<1>2. ASSUME a # b
      PROVE  /\ Says(<< <<a, u>>, <<b, v>> >>, a, <<u>>)
             /\ Says(<< <<a, u>>, <<b, v>> >>, b, <<v>>)
  <2> DEFINE news == << <<a, u>>, <<b, v>> >>
  <2>1. DOMAIN news = {1, 2} /\ news[1] = <<a, u>> /\ news[2] = <<b, v>>
        /\ news[1][1] = a /\ news[2][1] = b
    OBVIOUS
  <2> HIDE DEF news
  <2>2. /\ 1 \in DOMAIN news \cap Nat /\ \A j \in DOMAIN news : news[j][1] = a => j = 1
        /\ 2 \in DOMAIN news \cap Nat /\ \A j \in DOMAIN news : news[j][1] = b => j = 2
    BY <1>2, <2>1
  <2>3. Says(news, a, <<u>>)
    BY Zenon, <2>1, <2>2, SaysForms
  <2>4. Says(news, b, <<v>>)
    BY Zenon, <2>1, <2>2, SaysForms
  <2> QED
    BY <2>3, <2>4 DEF news
<1>3. ASSUME a # b, b # c, c # a
      PROVE  /\ Says(<< <<a, u>>, <<b, v>>, <<c, w>> >>, a, <<u>>)
             /\ Says(<< <<a, u>>, <<b, v>>, <<c, w>> >>, b, <<v>>)
             /\ Says(<< <<a, u>>, <<b, v>>, <<c, w>> >>, c, <<w>>)
  <2> DEFINE news == << <<a, u>>, <<b, v>>, <<c, w>> >>
  <2>1. DOMAIN news = {1, 2, 3} /\ news[1] = <<a, u>> /\ news[2] = <<b, v>> /\ news[3] = <<c, w>>
        /\ news[1][1] = a /\ news[2][1] = b /\ news[3][1] = c
    OBVIOUS
  <2> HIDE DEF news
  <2>2. /\ 1 \in DOMAIN news \cap Nat /\ \A j \in DOMAIN news : news[j][1] = a => j = 1
        /\ 2 \in DOMAIN news \cap Nat /\ \A j \in DOMAIN news : news[j][1] = b => j = 2
        /\ 3 \in DOMAIN news \cap Nat /\ \A j \in DOMAIN news : news[j][1] = c => j = 3
    BY <1>3, <2>1
  <2>3. Says(news, a, <<u>>)
    BY Zenon, <2>1, <2>2, SaysForms
  <2>4. Says(news, b, <<v>>)
    BY Zenon, <2>1, <2>2, SaysForms
  <2>5. Says(news, c, <<w>>)
    BY Zenon, <2>1, <2>2, SaysForms
  <2> QED
    BY <2>3, <2>4, <2>5 DEF news
<1> QED
  BY <1>1, <1>2, <1>3

\* News of the plants: of the lock, the superlock and the knob.
SayLock(news, lock, double, knob) ==
  /\ Says(news, "isLocked", lock) /\ Says(news, "double", double) /\ Says(news, "soldier", knob)
  /\ Says(news, "command", <<>>) /\ Says(news, "status", <<>>)

\* What is left of a queue when t has read s.
Rest(t, s, u, x) == IF u = t /\ x = s THEN Tail(unread[u][x]) ELSE unread[u][x]

\* Plant t has read s, goes on as n and has said that of the lock.
HeardOfLock(t, s, n, lock, double, knob) ==
  /\ mem' = [mem EXCEPT ![t] = n]
  /\ world' = world
  /\ LockSignals \subseteq DOMAIN bus'
  /\ bus'["isLocked"] = Latest(bus["isLocked"], lock)
  /\ bus'["double"] = Latest(bus["double"], double)
  /\ bus'["soldier"] = Latest(bus["soldier"], knob)
  /\ bus'["status"] = bus["status"]
  /\ {"door", "locks"} \subseteq DOMAIN unread'
  /\ LockOfDoor \subseteq DOMAIN unread'["door"]
  /\ {"command", "isLocked", "double"} \subseteq DOMAIN unread'["locks"]
  /\ unread'["door"]["isLocked"] = Rest(t, s, "door", "isLocked") \o lock
  /\ unread'["door"]["double"] = Rest(t, s, "door", "double") \o double
  /\ unread'["door"]["soldier"] = Rest(t, s, "door", "soldier") \o knob
  /\ unread'["locks"]["isLocked"] = Rest(t, s, "locks", "isLocked") \o lock
  /\ unread'["locks"]["double"] = Rest(t, s, "locks", "double") \o double
  /\ unread'["locks"]["command"] = Rest(t, s, "locks", "command") \o <<>>

\* The variables of the two plants, by name.
DoorFields ==
  {"locked", "double", "child", "latched", "open", "outside", "inside", "excused", "timer"}

LocksFields == {"locked", "double", "excused", "timer"}

\* The form of the plants' variables and queues.
DoorShape ==
  /\ {"door", "locks"} \subseteq Team.tasks
  /\ LockSignals \subseteq DOMAIN bus
  /\ \A s \in LockOfDoor : bus[s] \in BOOLEAN
  /\ DOMAIN mem["door"] = DoorFields /\ DOMAIN mem["locks"] = LocksFields
  /\ \A t \in {"door", "locks"} :
        mem[t].locked \in BOOLEAN /\ mem[t].double \in BOOLEAN /\ mem[t].excused \in BOOLEAN
  /\ {"door", "locks"} \subseteq DOMAIN unread
  /\ LockOfDoor \subseteq DOMAIN unread["door"]
  /\ {"command", "isLocked", "double"} \subseteq DOMAIN unread["locks"]
  /\ \A s \in LockOfDoor : unread["door"][s] \in Seq(BOOLEAN)
  /\ \A s \in {"isLocked", "double"} : unread["locks"][s] \in Seq(BOOLEAN)
  /\ IsSeq(unread["locks"]["command"])

LEMMA HeardForms ==
  ASSUME DoorShape, NEW t, NEW s, NEW n, NEW news, NEW lock, NEW double, NEW knob,
         React(t, s, n, news), world' = world, SayLock(news, lock, double, knob)
  PROVE  HeardOfLock(t, s, n, lock, double, knob)
<1> DEFINE q == [unread EXCEPT ![t][s] = Tail(@)]
<1>1. mem' = [mem EXCEPT ![t] = n] /\ bus' = BusAfter(news) /\ unread' = Delivered(q, news)
  BY DEF React
<1>2. \A u \in {"door", "locks"} : \A x \in DOMAIN unread[u] :
        u \in DOMAIN q /\ x \in DOMAIN q[u] /\ q[u][x] = Rest(t, s, u, x)
  <2> SUFFICES ASSUME NEW u \in {"door", "locks"}, NEW x \in DOMAIN unread[u]
               PROVE  u \in DOMAIN q /\ x \in DOMAIN q[u] /\ q[u][x] = Rest(t, s, u, x)
    OBVIOUS
  <2>1. u \in DOMAIN unread
    BY DEF DoorShape
  <2> QED
    BY <2>1 DEF Rest
<1> HIDE DEF q
<1>3. \A u \in {"door", "locks"} : \A x \in DOMAIN unread[u] :
        /\ u \in DOMAIN unread' /\ x \in DOMAIN unread'[u]
        /\ unread'[u][x] = Rest(t, s, u, x) \o ValuesOf(news, x)
  <2> SUFFICES ASSUME NEW u \in {"door", "locks"}, NEW x \in DOMAIN unread[u]
               PROVE  /\ u \in DOMAIN unread' /\ x \in DOMAIN unread'[u]
                      /\ unread'[u][x] = Rest(t, s, u, x) \o ValuesOf(news, x)
    OBVIOUS
  <2>1. u \in DOMAIN q /\ x \in DOMAIN q[u] /\ q[u][x] = Rest(t, s, u, x)
    BY <1>2
  <2>2. /\ u \in DOMAIN Delivered(q, news) /\ x \in DOMAIN Delivered(q, news)[u]
        /\ Delivered(q, news)[u][x] = q[u][x] \o ValuesOf(news, x)
    BY Zenon, <2>1, DeliveredForms
  <2> QED
    BY <1>1, <2>1, <2>2
<1>4. /\ LockSignals \subseteq DOMAIN bus'
      /\ bus'["isLocked"] = Latest(bus["isLocked"], lock)
      /\ bus'["double"] = Latest(bus["double"], double)
      /\ bus'["soldier"] = Latest(bus["soldier"], knob)
      /\ bus'["status"] = bus["status"]
  BY <1>1 DEF SayLock, Says, DoorShape, LockSignals, Latest
<1>5. /\ ValuesOf(news, "isLocked") = lock /\ ValuesOf(news, "double") = double
      /\ ValuesOf(news, "soldier") = knob /\ ValuesOf(news, "command") = <<>>
  BY DEF SayLock, Says
<1>6. /\ LockOfDoor \subseteq DOMAIN unread["door"]
      /\ {"command", "isLocked", "double"} \subseteq DOMAIN unread["locks"]
      /\ {"door", "locks"} \subseteq DOMAIN unread
  BY DEF DoorShape
<1>7. /\ {"door", "locks"} \subseteq DOMAIN unread'
      /\ LockOfDoor \subseteq DOMAIN unread'["door"]
      /\ {"command", "isLocked", "double"} \subseteq DOMAIN unread'["locks"]
  BY <1>3, <1>6 DEF LockOfDoor
<1>8. /\ unread'["door"]["isLocked"] = Rest(t, s, "door", "isLocked") \o lock
      /\ unread'["door"]["double"] = Rest(t, s, "door", "double") \o double
      /\ unread'["door"]["soldier"] = Rest(t, s, "door", "soldier") \o knob
      /\ unread'["locks"]["isLocked"] = Rest(t, s, "locks", "isLocked") \o lock
      /\ unread'["locks"]["double"] = Rest(t, s, "locks", "double") \o double
      /\ unread'["locks"]["command"] = Rest(t, s, "locks", "command") \o <<>>
  BY <1>3, <1>5, <1>6 DEF LockOfDoor
<1> QED
  BY <1>1, <1>4, <1>7, <1>8 DEF HeardOfLock

\* The plants' news.
LEMMA LockSayings ==
  /\ SayLock(<<>>, <<>>, <<>>, <<>>)
  /\ \A v : SayLock(<< <<"latch", v>> >>, <<>>, <<>>, <<>>)
  /\ SayLock(OpenNews, <<>>, <<>>, <<>>)
  /\ \A v : SayLock(<< <<"isLocked", v>> >>, <<v>>, <<>>, <<>>)
  /\ \A u, v, w :
       SayLock(<< <<"doorOpen", u>>, <<"latch", v>>, <<"isLocked", w>> >>, <<w>>, <<>>, <<>>)
  /\ SayLock(<< <<"isLocked", TRUE>>, <<"soldier", FALSE>> >>, <<TRUE>>, <<>>, <<FALSE>>)
  /\ SayLock(<< <<"double", FALSE>>, <<"isLocked", FALSE>>, <<"soldier", TRUE>> >>,
             <<FALSE>>, <<FALSE>>, <<TRUE>>)
  /\ SayLock(<< <<"isLocked", TRUE>>, <<"double", TRUE>> >>, <<TRUE>>, <<TRUE>>, <<>>)
  /\ SayLock(<< <<"double", FALSE>> >>, <<>>, <<FALSE>>, <<>>)
<1>1. \A news, s : Mutes(news, {s}) => Says(news, s, <<>>)
  BY SaysForms
<1>2. SayLock(<<>>, <<>>, <<>>, <<>>)
  BY <1>1, MuteFew DEF SayLock
<1>3. ASSUME NEW v PROVE SayLock(<< <<"latch", v>> >>, <<>>, <<>>, <<>>)
  BY <1>1, MuteFew DEF SayLock
<1>4. SayLock(OpenNews, <<>>, <<>>, <<>>)
  BY <1>1, MuteFew DEF SayLock, OpenNews
<1>5. ASSUME NEW v PROVE SayLock(<< <<"isLocked", v>> >>, <<v>>, <<>>, <<>>)
  BY <1>1, MuteFew, SayFew DEF SayLock
<1>6. ASSUME NEW u, NEW v, NEW w
      PROVE  SayLock(<< <<"doorOpen", u>>, <<"latch", v>>, <<"isLocked", w>> >>, <<w>>, <<>>, <<>>)
  BY <1>1, MuteFew, SayFew DEF SayLock
<1>7. SayLock(<< <<"isLocked", TRUE>>, <<"soldier", FALSE>> >>, <<TRUE>>, <<>>, <<FALSE>>)
  BY <1>1, MuteFew, SayFew DEF SayLock
<1>8. SayLock(<< <<"double", FALSE>>, <<"isLocked", FALSE>>, <<"soldier", TRUE>> >>,
              <<FALSE>>, <<FALSE>>, <<TRUE>>)
  BY <1>1, MuteFew, SayFew DEF SayLock
<1>9. SayLock(<< <<"isLocked", TRUE>>, <<"double", TRUE>> >>, <<TRUE>>, <<TRUE>>, <<>>)
  BY <1>1, MuteFew, SayFew DEF SayLock
<1>10. SayLock(<< <<"double", FALSE>> >>, <<>>, <<FALSE>>, <<>>)
  BY <1>1, MuteFew, SayFew DEF SayLock
<1> QED
  BY <1>2, <1>3, <1>4, <1>5, <1>6, <1>7, <1>8, <1>9, <1>10

\* The plants do not wait for answers.
LEMMA DoorDoesNotWait == ASSUME Shape PROVE "door" \notin Waiting /\ "locks" \notin Waiting
  BY DEF Shape, SearchShape, SinceShape, Waiting, Askers

\* The handle plant goes on with the lock as it was.
SameLock(n) ==
  n.locked = mem["door"].locked /\ n.double = mem["door"].double /\ n.excused = mem["door"].excused

\* What a step of the handle plant does about the lock: it reads something else; or where
\* the lock or the superlock are; or the knob, which counts only without the superlock; or
\* it closes the door.
DoorDoes(s, n, lock) ==
  \/ s \notin LockOfDoor /\ SameLock(n) /\ lock = <<>>
  \/ /\ s = "isLocked" /\ lock = <<>>
     /\ n.locked = Head(unread["door"]["isLocked"])
     /\ n.double = mem["door"].double /\ n.excused = mem["door"].excused
  \/ /\ s = "double" /\ lock = <<>>
     /\ n.double = Head(unread["door"]["double"])
     /\ n.locked = mem["door"].locked /\ n.excused = mem["door"].excused
  \/ s = "soldier" /\ lock = <<>> /\ mem["door"].double /\ SameLock(n)
  \/ /\ s = "soldier" /\ ~mem["door"].double
     /\ n.locked = ~Head(unread["door"]["soldier"]) /\ lock = <<n.locked>>
     /\ n.double = mem["door"].double /\ n.excused = mem["door"].excused
  \/ /\ s = "closeDoor" /\ lock = <<mem["door"].locked>>
     /\ n.locked = mem["door"].locked /\ n.double = mem["door"].double
     /\ n.excused = (\/ mem["door"].excused
                     \/ /\ bus["isLocked"] # mem["door"].locked
                        /\ mem["door"].double \/ unread["door"]["soldier"] = <<>>)

LEMMA DoorForms ==
  ASSUME DoorShape, "door" \in DOMAIN mem, DoorStep
  PROVE  \E s, n, lock :
            /\ DOMAIN n = DoorFields
            /\ unread["door"][s] # <<>>
            /\ DoorDoes(s, n, lock)
            /\ HeardOfLock("door", s, n, lock, <<>>, <<>>)
<1> DEFINE m == mem["door"]
           Goal == \E s, n, lock :
              /\ DOMAIN n = DoorFields
              /\ unread["door"][s] # <<>>
              /\ DoorDoes(s, n, lock)
              /\ HeardOfLock("door", s, n, lock, <<>>, <<>>)
<1> SUFFICES Goal
  OBVIOUS
<1>0. DOMAIN m = DoorFields
  BY DEF DoorShape
<1>1. ASSUME NEW s, NEW n, NEW news, NEW lock, DoorGoesOn(s, n, news), Reads("door", s),
             DOMAIN n = DoorFields, DoorDoes(s, n, lock), SayLock(news, lock, <<>>, <<>>)
      PROVE  Goal
  BY <1>1, HeardForms DEF DoorGoesOn, Reads, Has
<1>2. ASSUME NEW n, SameLock(n), NEW s, s \notin LockOfDoor PROVE DoorDoes(s, n, <<>>)
  BY <1>2 DEF DoorDoes
<1> HIDE DEF Goal
<1>3. CASE DoorHearsLock
  <2> DEFINE n1 == [m EXCEPT !.locked = Val("door", "isLocked")]
  <2>1. Reads("door", "isLocked")
    BY <1>3 DEF DoorHearsLock
  <2>2. PICK n \in {n1, Opened(n1)}, news \in {<<>>, OpenNews} : DoorGoesOn("isLocked", n, news)
    BY <1>3, Zenon DEF DoorHearsLock
  <2>3. DOMAIN n = DoorFields /\ DoorDoes("isLocked", n, <<>>)
    BY <1>0, <2>2 DEF DoorDoes, Opened, Val, DoorFields
  <2> HIDE DEF n1, m
  <2> QED
    BY <1>1, <2>1, <2>2, <2>3, LockSayings
<1>4. ASSUME NEW s \in {"double", "child"}, DoorKeeps(s) PROVE Goal
  <2> DEFINE n == [m EXCEPT ![s] = Val("door", s)]
  <2>1. Reads("door", s) /\ DoorGoesOn(s, n, <<>>)
    BY <1>4 DEF DoorKeeps, Keeps, DoorGoesOn
  <2>2. DOMAIN n = DoorFields /\ DoorDoes(s, n, <<>>)
    BY <1>0, <1>4 DEF DoorDoes, SameLock, Val, DoorFields, LockOfDoor
  <2> HIDE DEF n, m
  <2> QED
    BY <1>1, <2>1, <2>2, LockSayings
<1>5. CASE DoorSeesOpen
  <2> DEFINE n1 == [m EXCEPT !.open = Val("door", "doorOpen")]
             n2 == [n1 EXCEPT !.latched = TRUE]
  <2>1. Reads("door", "doorOpen")
    BY <1>5 DEF DoorSeesOpen
  <2>2. PICK n \in {n1, n2}, news \in {<<>>, << <<"latch", TRUE>> >>} :
           DoorGoesOn("doorOpen", n, news)
    BY <1>5, Zenon DEF DoorSeesOpen
  <2>3. DOMAIN n = DoorFields /\ DoorDoes("doorOpen", n, <<>>)
    BY <1>0, <2>2 DEF DoorDoes, SameLock, DoorFields, LockOfDoor
  <2> HIDE DEF n1, n2, m
  <2> QED
    BY <1>1, <2>1, <2>2, <2>3, LockSayings
<1>6. CASE DoorHearsInside
  <2> DEFINE n1 == [m EXCEPT !.inside = Val("door", "insideHandle")]
  <2>1. Reads("door", "insideHandle")
    BY <1>6 DEF DoorHearsInside
  <2>2. PICK n \in {n1, Opened(n1), [n1 EXCEPT !.latched = FALSE], [n1 EXCEPT !.latched = TRUE]},
             news \in {<<>>, OpenNews, << <<"latch", FALSE>> >>, << <<"latch", TRUE>> >>} :
           DoorGoesOn("insideHandle", n, news)
    BY <1>6 DEF DoorHearsInside
  <2>3. DOMAIN n = DoorFields /\ DoorDoes("insideHandle", n, <<>>)
    BY <1>0, <2>2 DEF DoorDoes, SameLock, DoorFields, LockOfDoor, Opened
  <2> HIDE DEF n1, m
  <2> QED
    BY <1>1, <2>1, <2>2, <2>3, LockSayings
<1>7. CASE DoorHearsOutside
  <2> DEFINE n1 == [m EXCEPT !.outside = Val("door", "outsideHandle")]
  <2>1. Reads("door", "outsideHandle")
    BY <1>7 DEF DoorHearsOutside
  <2>2. PICK n \in {n1, Opened(n1)}, news \in {<<>>, OpenNews} :
           DoorGoesOn("outsideHandle", n, news)
    BY <1>7, Zenon DEF DoorHearsOutside
  <2>3. DOMAIN n = DoorFields /\ DoorDoes("outsideHandle", n, <<>>)
    BY <1>0, <2>2 DEF DoorDoes, SameLock, DoorFields, LockOfDoor, Opened
  <2> HIDE DEF n1, m
  <2> QED
    BY <1>1, <2>1, <2>2, <2>3, LockSayings
<1>8. CASE DoorHearsSoldier
  <2> DEFINE locked == ~Val("door", "soldier")
             n1 == [m EXCEPT !.locked = locked]
  <2>1. Reads("door", "soldier")
    BY <1>8 DEF DoorHearsSoldier
  <2>2. CASE m.double
    <3>1. DoorGoesOn("soldier", m, <<>>)
      BY <1>8, <2>2, Zenon DEF DoorHearsSoldier
    <3>2. DoorDoes("soldier", m, <<>>)
      BY <2>2 DEF DoorDoes, SameLock
    <3> HIDE DEF m
    <3> QED
      BY <1>0, <1>1, <2>1, <3>1, <3>2, LockSayings
  <2>3. CASE ~m.double
    <3>1. DoorGoesOn("soldier", n1, << <<"isLocked", locked>> >>)
      BY <1>8, <2>3, Zenon DEF DoorHearsSoldier
    <3>2. DOMAIN n1 = DoorFields /\ DoorDoes("soldier", n1, <<locked>>)
      BY <1>0, <2>3 DEF DoorDoes, Val, DoorFields
    <3> HIDE DEF m, n1, locked
    <3> QED
      BY <1>1, <2>1, <3>1, <3>2, LockSayings
  <2> QED
    BY <2>2, <2>3
<1>9. CASE DoorHearsClose
  <2> DEFINE stale == bus["isLocked"] # m.locked /\ (m.double \/ ~Has("door", "soldier"))
             n1 == [m EXCEPT !.open = FALSE, !.latched = TRUE, !.excused = @ \/ stale]
  <2>1. Reads("door", "closeDoor")
    BY <1>9 DEF DoorHearsClose
  <2>2. \/ DoorGoesOn("closeDoor", m, <<>>)
        \/ DoorGoesOn("closeDoor", n1,
                      << <<"doorOpen", FALSE>>, <<"latch", TRUE>>, <<"isLocked", m.locked>> >>)
    BY <1>9, Zenon DEF DoorHearsClose
  <2>3. DoorDoes("closeDoor", m, <<>>)
    BY DEF DoorDoes, SameLock, LockOfDoor
  <2>4. DOMAIN n1 = DoorFields /\ DoorDoes("closeDoor", n1, <<m.locked>>)
    <3>1. stale <=> /\ bus["isLocked"] # m.locked
                    /\ m.double \/ unread["door"]["soldier"] = <<>>
      BY DEF Has, Runs
    <3>2. m.excused \in BOOLEAN
      BY DEF DoorShape
    <3> HIDE DEF stale
    <3> QED
      BY <1>0, <3>1, <3>2 DEF DoorDoes, DoorFields
  <2> HIDE DEF n1, m, stale
  <2> QED
    BY <1>0, <1>1, <2>1, <2>2, <2>3, <2>4, LockSayings
<1> QED
  BY <1>3, <1>4, <1>5, <1>6, <1>7, <1>8, <1>9 DEF DoorStep

\* Short news one after the other.
LEMMA NewsJoin ==
  /\ \A a : <<>> \o <<a>> = <<a>>
  /\ \A a, b : <<>> \o <<a, b>> = <<a, b>> /\ <<a>> \o <<b>> = <<a, b>>
  /\ \A a, b, c : <<a>> \o <<b, c>> = <<a, b, c>>
<1>1. ASSUME NEW a, NEW b, NEW c
      PROVE  /\ <<>> \o <<a>> = <<a>> /\ <<>> \o <<a, b>> = <<a, b>>
             /\ <<a>> \o <<b>> = <<a, b>> /\ <<a>> \o <<b, c>> = <<a, b, c>>
  <2> DEFINE X == {a, b, c}
  <2>1. /\ <<a>> \in Seq(X) /\ <<b>> \in Seq(X) /\ <<a, b>> \in Seq(X)
        /\ <<b, c>> \in Seq(X) /\ <<a, b, c>> \in Seq(X)
    OBVIOUS
  <2>2. <<a>> \o <<b, c>> = <<a, b, c>>
    <3> DEFINE r == <<a>> \o <<b, c>>
    <3>1. r \in Seq(X) /\ Len(r) = 3 /\ r[1] = a /\ r[2] = b /\ r[3] = c
      BY <2>1
    <3> HIDE DEF r
    <3>2. r = <<a, b, c>>
      BY <2>1, <3>1
    <3> QED
      BY <3>2 DEF r
  <2> QED
    BY <2>1, <2>2, PairIsJoined
<1> QED
  BY <1>1

\* The lock stays as its plant knows it, and nothing is said.
SameBolt(n, lock, double, knob) ==
  /\ n.locked = mem["locks"].locked /\ n.double = mem["locks"].double
  /\ lock = <<>> /\ double = <<>> /\ knob = <<>>

\* What the lock's plant makes of the command c.
Obeys(c, n, lock, double, knob) ==
  LET m == mem["locks"] IN
  \/ c = "UnlockAll" /\ ~m.locked /\ SameBolt(n, lock, double, knob)
  \/ /\ c = "UnlockAll" /\ m.locked /\ n.locked = FALSE /\ n.double = FALSE
     /\ lock = <<FALSE>> /\ double = <<FALSE>> /\ knob = <<TRUE>>
  \/ c = "LockAll" /\ m.locked /\ SameBolt(n, lock, double, knob)
  \/ /\ c = "LockAll" /\ ~m.locked /\ n.locked = TRUE /\ n.double = m.double
     /\ lock = <<TRUE>> /\ double = <<>> /\ knob = <<FALSE>>
  \/ c = "DoubleLockAll" /\ m.double /\ SameBolt(n, lock, double, knob)
  \/ /\ c = "DoubleLockAll" /\ ~m.double /\ n.locked = TRUE /\ n.double = TRUE
     /\ lock = <<TRUE>> /\ double = <<TRUE>> /\ knob = <<>>
  \/ /\ c \notin {"UnlockAll", "LockAll", "DoubleLockAll"}
     /\ ~m.double /\ SameBolt(n, lock, double, knob)
  \/ /\ c \notin {"UnlockAll", "LockAll", "DoubleLockAll"}
     /\ m.double /\ n.locked = m.locked /\ n.double = FALSE
     /\ lock = <<>> /\ double = <<FALSE>> /\ knob = <<>>

\* What excuses the lock's plant.
Surprised(c) ==
  \/ \E s \in {"isLocked", "double"} : unread["locks"][s] # <<>> \/ unread["door"][s] # <<>>
  \/ unread["door"]["soldier"] # <<>>
  \/ c = "DoubleLockAll" /\ ~mem["locks"].locked

\* What a step of the lock's plant does about the lock: it reads where the lock or the
\* superlock are, or a command.
LocksDo(s, n, lock, double, knob) ==
  LET m == mem["locks"] IN
  \/ /\ s = "isLocked" /\ lock = <<>> /\ double = <<>> /\ knob = <<>>
     /\ n.locked = Head(unread["locks"]["isLocked"])
     /\ n.double = m.double /\ n.excused = m.excused
  \/ /\ s = "double" /\ lock = <<>> /\ double = <<>> /\ knob = <<>>
     /\ n.double = Head(unread["locks"]["double"])
     /\ n.locked = m.locked /\ n.excused = m.excused
  \/ LET c == Head(unread["locks"]["command"]) IN
     /\ s = "command"
     /\ n.excused = (m.excused \/ Surprised(c))
     /\ Obeys(c, n, lock, double, knob)

LEMMA LocksForms ==
  ASSUME DoorShape, {"door", "locks"} \subseteq DOMAIN mem, LocksStep
  PROVE  \E s, n, lock, double, knob :
            /\ DOMAIN n = LocksFields
            /\ unread["locks"][s] # <<>>
            /\ LocksDo(s, n, lock, double, knob)
            /\ HeardOfLock("locks", s, n, lock, double, knob)
<1> DEFINE m == mem["locks"]
           Goal == \E s, n, lock, double, knob :
              /\ DOMAIN n = LocksFields
              /\ unread["locks"][s] # <<>>
              /\ LocksDo(s, n, lock, double, knob)
              /\ HeardOfLock("locks", s, n, lock, double, knob)
<1> SUFFICES Goal
  OBVIOUS
<1>0. DOMAIN m = LocksFields /\ {m.locked, m.double, m.excused} \subseteq BOOLEAN
  BY DEF DoorShape
<1>1. ASSUME NEW s, NEW n, NEW news, NEW lock, NEW double, NEW knob,
             React("locks", s, n, news), UNCHANGED world, Reads("locks", s),
             DOMAIN n = LocksFields, LocksDo(s, n, lock, double, knob),
             SayLock(news, lock, double, knob)
      PROVE  Goal
  BY <1>1, HeardForms DEF Reads, Has
<1> HIDE DEF Goal
<1>2. ASSUME NEW s \in {"isLocked", "double"}, LocksSee(s) PROVE Goal
  <2> DEFINE n == IF s = "isLocked" THEN [m EXCEPT !.locked = Val("locks", s)]
                  ELSE [m EXCEPT !.double = Val("locks", s)]
  <2>1. Reads("locks", s) /\ React("locks", s, n, <<>>) /\ UNCHANGED world
    BY <1>2, Zenon DEF LocksSee
  <2>2. DOMAIN n = LocksFields /\ LocksDo(s, n, <<>>, <<>>, <<>>)
    BY <1>0, <1>2 DEF LocksDo, Val, LocksFields
  <2> HIDE DEF n
  <2> QED
    BY <1>1, <2>1, <2>2, LockSayings
<1>3. CASE LocksHearCommand
  <2> DEFINE c == Val("locks", "command")
             sees == \/ \E s \in {"isLocked", "double"} : Has("locks", s) \/ Has("door", s)
                     \/ Has("door", "soldier")
                     \/ c = "DoubleLockAll" /\ ~m.locked
             e == [m EXCEPT !.excused = @ \/ sees]
  <2>1. sees <=> Surprised(c)
    BY DEF Surprised, Has, Runs
  <2>2. e = [m EXCEPT !.excused =
                \/ @
                \/ \E s \in {"isLocked", "double"} : Has("locks", s) \/ Has("door", s)
                \/ Has("door", "soldier")
                \/ c = "DoubleLockAll" /\ ~mem["locks"].locked]
    BY Zenon DEF LocksHearCommand
  <2>3. /\ Reads("locks", "command") /\ UNCHANGED world
        /\ \/ c = "UnlockAll" /\ React("locks", "command", LockedTo(e, FALSE), LockNews(e, FALSE))
           \/ c = "LockAll" /\ React("locks", "command", LockedTo(e, TRUE), LockNews(e, TRUE))
           \/ c = "DoubleLockAll"
              /\ React("locks", "command", DoubledTo(e, TRUE), DoubleNews(e, TRUE))
           \/ c \notin {"UnlockAll", "LockAll", "DoubleLockAll"}
              /\ React("locks", "command", DoubledTo(e, FALSE), DoubleNews(e, FALSE))
    <3> HIDE DEF e, c
    <3> QED
      BY <1>3, <2>2 DEF LocksHearCommand, c
  <2>4. /\ DOMAIN e = LocksFields
        /\ e.locked = m.locked /\ e.double = m.double
        /\ e.excused = (m.excused \/ Surprised(c))
    <3> HIDE DEF sees, c
    <3> QED
      BY <1>0, <2>1 DEF LocksFields
  <2>5. c = Head(unread["locks"]["command"])
    BY DEF Val
  <2> HIDE DEF e, c, m
  <2>6. ASSUME NEW n, NEW news, NEW lock, NEW double, NEW knob, React("locks", "command", n, news),
               DOMAIN n = LocksFields, n.excused = e.excused,
               Obeys(c, n, lock, double, knob), SayLock(news, lock, double, knob)
        PROVE  Goal
    <3>1. LocksDo("command", n, lock, double, knob)
      BY <2>4, <2>5, <2>6 DEF LocksDo, m
    <3> QED
      BY <1>1, <2>3, <2>6, <3>1
  <2>7. ASSUME c = "UnlockAll", React("locks", "command", LockedTo(e, FALSE), LockNews(e, FALSE))
        PROVE  Goal
    <3>1. CASE ~m.locked
      <4>1. LockedTo(e, FALSE) = e /\ LockNews(e, FALSE) = <<>>
        BY <1>0, <2>4, <3>1 DEF LockedTo, LockNews
      <4>2. Obeys(c, e, <<>>, <<>>, <<>>)
        BY <2>4, <2>7, <3>1 DEF Obeys, SameBolt, m
      <4> QED
        BY <2>4, <2>6, <2>7, <4>1, <4>2, LockSayings
    <3>2. CASE m.locked
      <4> DEFINE n == [e EXCEPT !.locked = FALSE, !.double = FALSE]
      <4>1. LockedTo(e, FALSE) = n
        BY <1>0, <2>4, <3>2 DEF LockedTo
      <4>2. LockNews(e, FALSE)
            = << <<"double", FALSE>>, <<"isLocked", FALSE>>, <<"soldier", TRUE>> >>
        <5>1. LockNews(e, FALSE)
              = << <<"double", FALSE>> >> \o << <<"isLocked", FALSE>>, <<"soldier", TRUE>> >>
          BY <1>0, <2>4, <3>2 DEF LockNews
        <5> QED
          BY Zenon, <5>1, NewsJoin
      <4>3. DOMAIN n = LocksFields /\ n.excused = e.excused
            /\ Obeys(c, n, <<FALSE>>, <<FALSE>>, <<TRUE>>)
        BY <2>4, <2>7, <3>2 DEF Obeys, m, LocksFields
      <4> HIDE DEF n
      <4> QED
        BY <2>6, <2>7, <4>1, <4>2, <4>3, LockSayings
    <3> QED
      BY <3>1, <3>2
  <2>8. ASSUME c = "LockAll", React("locks", "command", LockedTo(e, TRUE), LockNews(e, TRUE))
        PROVE  Goal
    <3>1. CASE m.locked
      <4>1. LockedTo(e, TRUE) = e /\ LockNews(e, TRUE) = <<>>
        BY <1>0, <2>4, <3>1 DEF LockedTo, LockNews
      <4>2. Obeys(c, e, <<>>, <<>>, <<>>)
        BY <2>4, <2>8, <3>1 DEF Obeys, SameBolt, m
      <4> QED
        BY <2>4, <2>6, <2>8, <4>1, <4>2, LockSayings
    <3>2. CASE ~m.locked
      <4> DEFINE n == [e EXCEPT !.locked = TRUE, !.double = TRUE /\ @]
      <4>1. LockedTo(e, TRUE) = n
        BY <1>0, <2>4, <3>2 DEF LockedTo
      <4>2. LockNews(e, TRUE) = << <<"isLocked", TRUE>>, <<"soldier", FALSE>> >>
        <5>1. LockNews(e, TRUE) = <<>> \o << <<"isLocked", TRUE>>, <<"soldier", FALSE>> >>
          BY <1>0, <2>4, <3>2 DEF LockNews
        <5> QED
          BY Zenon, <5>1, NewsJoin
      <4>3. DOMAIN n = LocksFields /\ n.excused = e.excused
            /\ Obeys(c, n, <<TRUE>>, <<>>, <<FALSE>>)
        BY <1>0, <2>4, <2>8, <3>2 DEF Obeys, m, LocksFields
      <4> HIDE DEF n
      <4> QED
        BY <2>6, <2>8, <4>1, <4>2, <4>3, LockSayings
    <3> QED
      BY <3>1, <3>2
  <2>9. ASSUME c = "DoubleLockAll",
               React("locks", "command", DoubledTo(e, TRUE), DoubleNews(e, TRUE))
        PROVE  Goal
    <3>1. CASE m.double
      <4>1. DoubledTo(e, TRUE) = e /\ DoubleNews(e, TRUE) = <<>>
        BY <1>0, <2>4, <3>1 DEF DoubledTo, DoubleNews
      <4>2. Obeys(c, e, <<>>, <<>>, <<>>)
        BY <2>4, <2>9, <3>1 DEF Obeys, SameBolt, m
      <4> QED
        BY <2>4, <2>6, <2>9, <4>1, <4>2, LockSayings
    <3>2. CASE ~m.double
      <4> DEFINE n == [e EXCEPT !.double = TRUE, !.locked = TRUE \/ @]
      <4>1. DoubledTo(e, TRUE) = n
        BY <1>0, <2>4, <3>2 DEF DoubledTo
      <4>2. DoubleNews(e, TRUE) = << <<"isLocked", TRUE>>, <<"double", TRUE>> >>
        <5>1. DoubleNews(e, TRUE) = << <<"isLocked", TRUE>> >> \o << <<"double", TRUE>> >>
          BY <1>0, <2>4, <3>2 DEF DoubleNews
        <5> QED
          BY Zenon, <5>1, NewsJoin
      <4>3. DOMAIN n = LocksFields /\ n.excused = e.excused
            /\ Obeys(c, n, <<TRUE>>, <<TRUE>>, <<>>)
        BY <1>0, <2>4, <2>9, <3>2 DEF Obeys, m, LocksFields
      <4> HIDE DEF n
      <4> QED
        BY <2>6, <2>9, <4>1, <4>2, <4>3, LockSayings
    <3> QED
      BY <3>1, <3>2
  <2>10. ASSUME c \notin {"UnlockAll", "LockAll", "DoubleLockAll"},
                React("locks", "command", DoubledTo(e, FALSE), DoubleNews(e, FALSE))
         PROVE  Goal
    <3>1. CASE ~m.double
      <4>1. DoubledTo(e, FALSE) = e /\ DoubleNews(e, FALSE) = <<>>
        BY <1>0, <2>4, <3>1 DEF DoubledTo, DoubleNews
      <4>2. Obeys(c, e, <<>>, <<>>, <<>>)
        BY <2>4, <2>10, <3>1 DEF Obeys, SameBolt, m
      <4> QED
        BY <2>4, <2>6, <2>10, <4>1, <4>2, LockSayings
    <3>2. CASE m.double
      <4> DEFINE n == [e EXCEPT !.double = FALSE, !.locked = FALSE \/ @]
      <4>1. DoubledTo(e, FALSE) = n
        BY <1>0, <2>4, <3>2 DEF DoubledTo
      <4>2. DoubleNews(e, FALSE) = << <<"double", FALSE>> >>
        <5>1. DoubleNews(e, FALSE) = <<>> \o << <<"double", FALSE>> >>
          BY <1>0, <2>4, <3>2 DEF DoubleNews
        <5> QED
          BY Zenon, <5>1, NewsJoin
      <4>3. DOMAIN n = LocksFields /\ n.excused = e.excused
            /\ Obeys(c, n, <<>>, <<FALSE>>, <<>>)
        BY <1>0, <2>4, <2>10, <3>2 DEF Obeys, m, LocksFields
      <4> HIDE DEF n
      <4> QED
        BY <2>6, <2>10, <4>1, <4>2, <4>3, LockSayings
    <3> QED
      BY <3>1, <3>2
  <2> QED
    BY <2>3, <2>7, <2>8, <2>9, <2>10
<1> QED
  BY <1>2, <1>3 DEF LocksStep

-----------------------------------------------------------------------------
(* What the plants of the rear door know of it.                            *)

\* The commands whose effect the status tells; the release of a superlock is told as a lock,
\* whatever the lock was.
PlainCommands == {"LockAll", "UnlockAll", "UnlockDriver", "DoubleLockAll"}

PlainOrders == \A i \in DOMAIN world.orders : world.orders[i].command \in PlainCommands

\* Both plants know, or are about to read, where the lock and the superlock are.
DoorMirrors ==
  \A t \in {"door", "locks"} :
     /\ Latest(mem[t].locked, unread[t]["isLocked"]) = bus["isLocked"]
     /\ Latest(mem[t].double, unread[t]["double"]) = bus["double"]

\* The knob has told the handle plant where it is, or is about to tell; the lock is where
\* the knob says when that is told, or will not be heard because of the superlock.
KnobSound ==
  LET knob  == unread["door"]["soldier"]
      heard == unread["door"]["double"]
  IN
  /\ knob \in {<<>>, <<bus["soldier"]>>}
  /\ knob = <<>> \/ mem["door"].double => bus["isLocked"] = ~bus["soldier"]
  /\ knob # <<>> => \A i \in DOMAIN heard : ~heard[i]
  /\ bus["double"] => ~bus["soldier"]

\* The status tells what the knob and the superlock are.
StatusAgrees ==
  /\ bus["status"] = "UNLOCKED" => bus["soldier"]
  /\ bus["status"] \in Locked => ~bus["soldier"]
  /\ bus["status"] = "DOUBLE_LOCKED" => bus["double"]
  /\ bus["double"] => bus["status"] \in Locked

\* It does, or the lock's plant is about to read the command that the status tells of.
CommandSound ==
  \/ unread["locks"]["command"] = <<>> /\ StatusAgrees
  \/ \E c \in PlainCommands : unread["locks"]["command"] = <<c>> /\ bus["status"] = StatusFor(c)

\* Neither plant has been surprised by an order or by somebody closing the door.
Unexcused == ~mem["door"].excused /\ ~mem["locks"].excused

\* All of it, where both plants run.
DoorSound ==
  {"door", "locks"} \subseteq DOMAIN mem =>
     /\ DoorShape
     /\ Unexcused => DoorMirrors /\ KnobSound /\ CommandSound

\* Nothing, or one value.
Short(vs) == vs = <<>> \/ \E v \in BOOLEAN : vs = <<v>>

\* The latest after nothing and after one value.
LEMMA LatestShort == \A x, v : Latest(x, <<>>) = x /\ Latest(x, <<v>>) = v
<1> SUFFICES ASSUME NEW x, NEW v PROVE Latest(x, <<>>) = x /\ Latest(x, <<v>>) = v
  OBVIOUS
<1>1. <<v>> # <<>> /\ Len(<<v>>) = 1 /\ <<v>>[1] = v
  OBVIOUS
<1> QED
  BY <1>1 DEF Latest

\* The latest of what is known and unread stays so as it is read and added to.
LEMMA MirrorForms ==
  ASSUME NEW q \in Seq(BOOLEAN), NEW vs, Short(vs), NEW x
  PROVE  /\ q \o vs \in Seq(BOOLEAN)
         /\ Latest(x, q \o vs) = Latest(Latest(x, q), vs)
         /\ q # <<>> => /\ Head(q) \in BOOLEAN /\ Tail(q) \in Seq(BOOLEAN)
                        /\ Tail(q) \o vs \in Seq(BOOLEAN)
                        /\ Latest(Head(q), Tail(q) \o vs) = Latest(Latest(x, q), vs)
<1>1. ASSUME NEW r \in Seq(BOOLEAN), NEW y
      PROVE  r \o vs \in Seq(BOOLEAN) /\ Latest(y, r \o vs) = Latest(Latest(y, r), vs)
  <2>0. IsSeq(r)
    BY DEF IsSeq
  <2>1. CASE vs = <<>>
    <3>1. r \o vs = r
      BY Zenon, <2>0, <2>1, LatestForms
    <3>2. Latest(Latest(y, r), vs) = Latest(y, r)
      BY <2>1 DEF Latest
    <3> QED
      BY <3>1, <3>2
  <2>2. ASSUME NEW v \in BOOLEAN, vs = <<v>>
        PROVE  r \o vs \in Seq(BOOLEAN) /\ Latest(y, r \o vs) = Latest(Latest(y, r), vs)
    <3>1. Latest(y, r \o <<v>>) = v
      <4>1. \A w : /\ IsSeq(r \o <<w>>) /\ Latest(y, r \o <<w>>) = w
                   /\ \A i \in DOMAIN (r \o <<w>>) :
                         (r \o <<w>>)[i] = w \/ (i \in DOMAIN r /\ (r \o <<w>>)[i] = r[i])
        BY <2>0, LatestForms
      <4> QED
        BY Zenon, <4>1
    <3>2. \A z : Latest(z, <<v>>) = v
      BY Zenon, LatestShort
    <3>3. r \o <<v>> \in Seq(BOOLEAN)
      OBVIOUS
    <3> QED
      BY Zenon, <2>2, <3>1, <3>2, <3>3
  <2> QED
    BY <2>1, <2>2 DEF Short
<1>2. ASSUME q # <<>>
      PROVE  /\ Head(q) \in BOOLEAN /\ Tail(q) \in Seq(BOOLEAN)
             /\ Latest(Head(q), Tail(q)) = Latest(x, q)
  <2>1. IsSeq(q)
    BY DEF IsSeq
  <2>2. Latest(Head(q), Tail(q)) = Latest(x, q)
    BY Zenon, <1>2, <2>1, LatestForms
  <2> QED
    BY <1>2, <2>2
<1>3. q \o vs \in Seq(BOOLEAN) /\ Latest(x, q \o vs) = Latest(Latest(x, q), vs)
  BY Zenon, <1>1
<1>4. ASSUME q # <<>>
      PROVE  /\ Tail(q) \o vs \in Seq(BOOLEAN)
             /\ Latest(Head(q), Tail(q) \o vs) = Latest(Latest(x, q), vs)
  <2>1. /\ Tail(q) \o vs \in Seq(BOOLEAN)
        /\ Latest(Head(q), Tail(q) \o vs) = Latest(Latest(Head(q), Tail(q)), vs)
    BY Zenon, <1>1, <1>2, <1>4
  <2> QED
    BY Zenon, <1>2, <1>4, <2>1
<1> QED
  BY Zenon, <1>2, <1>3, <1>4

\* A plant that has read s and goes on as n keeps to the form of its variables and queues.
LEMMA HeardShape ==
  ASSUME DoorShape, {"door", "locks"} \subseteq DOMAIN mem,
         NEW t \in {"door", "locks"}, NEW s, NEW n, NEW lock, NEW double, NEW knob,
         Short(lock), Short(double), Short(knob),
         unread[t][s] # <<>>, DOMAIN n = DOMAIN mem[t],
         n.locked \in BOOLEAN, n.double \in BOOLEAN, n.excused \in BOOLEAN,
         HeardOfLock(t, s, n, lock, double, knob)
  PROVE  DoorShape'
<1>1. Team'.tasks = Team.tasks
  BY DEF HeardOfLock, Team
<1>2. \A x, vs : x \in BOOLEAN /\ Short(vs) => Latest(x, vs) \in BOOLEAN
  BY DEF Short, Latest
<1>3. \A x \in LockOfDoor : bus'[x] \in BOOLEAN
  BY <1>2 DEF HeardOfLock, DoorShape, LockOfDoor
<1>4. \A vs : \A u \in {"door", "locks"}, x \in {"isLocked", "double", "soldier"} :
        /\ x \in DOMAIN unread[u] /\ Short(vs) /\ unread[u][x] \in Seq(BOOLEAN)
        /\ unread'[u][x] = Rest(t, s, u, x) \o vs
        => unread'[u][x] \in Seq(BOOLEAN)
  BY MirrorForms DEF Rest
<1>5. \A x \in LockOfDoor : unread'["door"][x] \in Seq(BOOLEAN)
  BY <1>4 DEF HeardOfLock, DoorShape, LockOfDoor
<1>6. \A x \in {"isLocked", "double"} : unread'["locks"][x] \in Seq(BOOLEAN)
  BY <1>4 DEF HeardOfLock, DoorShape
<1>7. IsSeq(unread'["locks"]["command"])
  <2> DEFINE q == unread["locks"]["command"]
             r == Rest(t, s, "locks", "command")
  <2>1. IsSeq(q) /\ (q # <<>> => IsSeq(Tail(q)))
    BY TailPlaces DEF DoorShape
  <2>2. IsSeq(r)
    BY <2>1 DEF Rest
  <2> HIDE DEF r
  <2>3. r \o <<>> = r
    BY Zenon, <2>2, LatestForms
  <2> QED
    BY <2>2, <2>3 DEF HeardOfLock, r
<1>8. \A u \in {"door", "locks"} :
         /\ DOMAIN mem'[u] = DOMAIN mem[u]
         /\ mem'[u].locked \in BOOLEAN /\ mem'[u].double \in BOOLEAN /\ mem'[u].excused \in BOOLEAN
  BY DEF HeardOfLock, DoorShape
<1> QED
  BY <1>1, <1>3, <1>5, <1>6, <1>7, <1>8 DEF HeardOfLock, DoorShape

\* What is known of one signal, and what is unread of it, when the values vs are said and a
\* value may have been read.
LEMMA MirrorKept ==
  ASSUME NEW q \in Seq(BOOLEAN), NEW vs, Short(vs), NEW old, NEW new, NEW rest,
         \/ q # <<>> /\ rest = Tail(q) /\ new = Head(q)
         \/ rest = q /\ (vs = <<>> => new = old)
  PROVE  Latest(new, rest \o vs) = Latest(Latest(old, q), vs)
<1>1. CASE q # <<>> /\ rest = Tail(q) /\ new = Head(q)
  <2>1. Latest(Head(q), Tail(q) \o vs) = Latest(Latest(old, q), vs)
    BY Zenon, <1>1, MirrorForms
  <2> QED
    BY <1>1, <2>1
<1>2. CASE rest = q /\ (vs = <<>> => new = old)
  <2>1. \A y : Latest(y, q \o vs) = Latest(Latest(y, q), vs)
    BY Zenon, MirrorForms
  <2>2. CASE vs = <<>>
    BY <1>2, <2>1, <2>2
  <2>3. ASSUME NEW v \in BOOLEAN, vs = <<v>>
        PROVE  Latest(new, q \o vs) = Latest(Latest(old, q), vs)
    <3>1. \A y : Latest(y, vs) = v
      BY Zenon, <2>3, LatestShort
    <3> QED
      BY Zenon, <1>2, <2>1, <3>1
  <2>4. CASE vs # <<>>
    BY <1>2, <2>3, <2>4 DEF Short
  <2> QED
    BY <2>2, <2>4
<1> QED
  BY <1>1, <1>2

\* When it knows what it has said, both plants know or are about to read where the lock is.
LEMMA MirrorsKept ==
  ASSUME DoorShape, {"door", "locks"} \subseteq DOMAIN mem, DoorMirrors,
         NEW t \in {"door", "locks"}, NEW s, NEW n, NEW lock, NEW double, NEW knob,
         Short(lock), Short(double), unread[t][s] # <<>>,
         lock = <<>> /\ s # "isLocked" => n.locked = mem[t].locked,
         s = "isLocked" => n.locked = Head(unread[t][s]),
         double = <<>> /\ s # "double" => n.double = mem[t].double,
         s = "double" => n.double = Head(unread[t][s]),
         HeardOfLock(t, s, n, lock, double, knob)
  PROVE  DoorMirrors'
<1>1. \A u \in {"door", "locks"} : \A x \in {"isLocked", "double"} : unread[u][x] \in Seq(BOOLEAN)
  BY DEF DoorShape, LockOfDoor
<1>2. mem'[t] = n /\ \A u \in {"door", "locks"} \ {t} : mem'[u] = mem[u]
  BY DEF HeardOfLock
<1>3. \A u \in {"door", "locks"} :
        /\ Latest(mem[u].locked, unread[u]["isLocked"]) = bus["isLocked"]
        /\ Latest(mem[u].double, unread[u]["double"]) = bus["double"]
        /\ unread'[u]["isLocked"] = Rest(t, s, u, "isLocked") \o lock
        /\ unread'[u]["double"] = Rest(t, s, u, "double") \o double
  BY DEF DoorMirrors, HeardOfLock
<1>4. /\ bus'["isLocked"] = Latest(bus["isLocked"], lock)
      /\ bus'["double"] = Latest(bus["double"], double)
  BY DEF HeardOfLock
<1>5. ASSUME NEW u \in {"door", "locks"}
      PROVE  Latest(mem'[u].locked, unread'[u]["isLocked"]) = bus'["isLocked"]
  <2> DEFINE q     == unread[u]["isLocked"]
             rest  == Rest(t, s, u, "isLocked")
             old   == mem[u].locked
             new   == mem'[u].locked
  <2>1. /\ q \in Seq(BOOLEAN)
        /\ \/ q # <<>> /\ rest = Tail(q) /\ new = Head(q)
           \/ rest = q /\ (lock = <<>> => new = old)
    BY <1>1, <1>2 DEF Rest
  <2>2. unread'[u]["isLocked"] = rest \o lock
    BY <1>3
  <2> HIDE DEF q, rest, old, new
  <2>3. Latest(new, rest \o lock) = Latest(Latest(old, q), lock)
    BY <2>1, MirrorKept
  <2>4. Latest(old, q) = bus["isLocked"]
    BY <1>3 DEF old, q
  <2>5. Latest(new, unread'[u]["isLocked"]) = bus'["isLocked"]
    BY Zenon, <1>4, <2>2, <2>3, <2>4
  <2> QED
    BY <2>5 DEF new
<1>6. ASSUME NEW u \in {"door", "locks"}
      PROVE  Latest(mem'[u].double, unread'[u]["double"]) = bus'["double"]
  <2> DEFINE q     == unread[u]["double"]
             rest  == Rest(t, s, u, "double")
             old   == mem[u].double
             new   == mem'[u].double
  <2>1. /\ q \in Seq(BOOLEAN)
        /\ \/ q # <<>> /\ rest = Tail(q) /\ new = Head(q)
           \/ rest = q /\ (double = <<>> => new = old)
    BY <1>1, <1>2 DEF Rest
  <2>2. unread'[u]["double"] = rest \o double
    BY <1>3
  <2> HIDE DEF q, rest, old, new
  <2>3. Latest(new, rest \o double) = Latest(Latest(old, q), double)
    BY <2>1, MirrorKept
  <2>4. Latest(old, q) = bus["double"]
    BY <1>3 DEF old, q
  <2>5. Latest(new, unread'[u]["double"]) = bus'["double"]
    BY Zenon, <1>4, <2>2, <2>3, <2>4
  <2> QED
    BY <2>5 DEF new
<1> QED
  BY <1>5, <1>6 DEF DoorMirrors

\* The order, the knob and the superlock stay while the handle plant makes a step.
LEMMA DoorLeaves ==
  ASSUME DoorShape, NEW s, NEW n, NEW lock, unread["door"][s] # <<>>,
         HeardOfLock("door", s, n, lock, <<>>, <<>>)
  PROVE  /\ bus'["double"] = bus["double"] /\ bus'["soldier"] = bus["soldier"]
         /\ bus'["status"] = bus["status"] /\ bus'["isLocked"] = Latest(bus["isLocked"], lock)
         /\ unread'["locks"]["command"] = unread["locks"]["command"]
         /\ LET q == unread["door"]["soldier"] IN
            unread'["door"]["soldier"] = IF s = "soldier" THEN Tail(q) ELSE q
         /\ LET q == unread["door"]["double"] IN
            unread'["door"]["double"] = IF s = "double" THEN Tail(q) ELSE q
<1>1. \A q : IsSeq(q) => q \o <<>> = q
  BY LatestForms
<1>2. IsSeq(unread["locks"]["command"])
  BY DEF DoorShape
<1>3. unread'["locks"]["command"] = unread["locks"]["command"]
  <2>1. unread'["locks"]["command"] = unread["locks"]["command"] \o <<>>
    BY DEF HeardOfLock, Rest
  <2> QED
    BY Zenon, <1>1, <1>2, <2>1
<1>4. ASSUME NEW x \in {"soldier", "double"},
             unread'["door"][x] = Rest("door", s, "door", x) \o <<>>
      PROVE  unread'["door"][x] = IF s = x THEN Tail(unread["door"][x]) ELSE unread["door"][x]
  <2> DEFINE q == unread["door"][x]
             r == IF s = x THEN Tail(q) ELSE q
  <2>1. q \in Seq(BOOLEAN) /\ (s = x => q # <<>>)
    BY DEF DoorShape, LockOfDoor
  <2>2. r \in Seq(BOOLEAN)
    <3> HIDE DEF q
    <3>1. q # <<>> => Tail(q) \in Seq(BOOLEAN)
      BY <2>1
    <3> QED
      BY Zenon, <2>1, <3>1
  <2>3. r \o <<>> = r
    <3> HIDE DEF r
    <3>1. IsSeq(r)
      BY <2>2 DEF IsSeq
    <3> QED
      BY Zenon, <1>1, <3>1
  <2> QED
    BY <1>4, <2>3 DEF Rest
<1>5. \A x : Latest(x, <<>>) = x
  BY LatestShort
<1> QED
  BY <1>3, <1>4, <1>5 DEF HeardOfLock

\* A step of the handle plant keeps what is known of the lock.
LEMMA DoorStepKeeps ==
  ASSUME DoorShape, {"door", "locks"} \subseteq DOMAIN mem, DoorSound, DoorStep
  PROVE  DoorSound'
<1>1. PICK s, n, lock : /\ DOMAIN n = DoorFields
                        /\ unread["door"][s] # <<>>
                        /\ DoorDoes(s, n, lock)
                        /\ HeardOfLock("door", s, n, lock, <<>>, <<>>)
  BY DoorForms
<1> DEFINE m == mem["door"]
           q == unread["door"]["soldier"]
           d == unread["door"]["double"]
<1>2. /\ m.locked \in BOOLEAN /\ m.double \in BOOLEAN /\ m.excused \in BOOLEAN
      /\ \A x \in LockOfDoor : unread["door"][x] \in Seq(BOOLEAN) /\ bus[x] \in BOOLEAN
  BY DEF DoorShape
<1>3. \A x \in LockOfDoor : s = x => Head(unread["door"][x]) \in BOOLEAN
  BY <1>1, <1>2
<1>4. /\ n.locked \in BOOLEAN /\ n.double \in BOOLEAN /\ n.excused \in BOOLEAN
      /\ Short(lock) /\ Short(<<>>)
  BY <1>1, <1>2, <1>3 DEF DoorDoes, SameLock, LockOfDoor, Short
<1>5. DoorShape'
  BY <1>1, <1>4, HeardShape DEF DoorShape
<1>6. mem'["door"] = n /\ mem'["locks"] = mem["locks"] /\ DOMAIN mem' = DOMAIN mem
  BY <1>1 DEF HeardOfLock
<1> SUFFICES ASSUME Unexcused' PROVE DoorMirrors' /\ KnobSound' /\ CommandSound'
  BY <1>5, <1>6 DEF DoorSound
<1>7. ~n.excused
  BY <1>6 DEF Unexcused
<1>8. Unexcused
  BY <1>1, <1>6, <1>7 DEF Unexcused, DoorDoes, SameLock
<1>9. DoorMirrors /\ KnobSound /\ CommandSound
  BY <1>8 DEF DoorSound
<1>10. /\ lock = <<>> /\ s # "isLocked" => n.locked = m.locked
       /\ s = "isLocked" => n.locked = Head(unread["door"][s])
       /\ s # "double" => n.double = m.double
       /\ s = "double" => n.double = Head(unread["door"][s])
  <2>0. \A v : <<v>> # <<>>
    OBVIOUS
  <2>1. lock = <<>> /\ s # "isLocked" => n.locked = m.locked
    BY Zenon, <1>1, <2>0 DEF DoorDoes, SameLock
  <2>2. s = "isLocked" => n.locked = Head(unread["door"][s])
    BY <1>1 DEF DoorDoes, LockOfDoor
  <2>3. s # "double" => n.double = m.double
    BY Zenon, <1>1 DEF DoorDoes, SameLock
  <2>4. s = "double" => n.double = Head(unread["door"][s])
    BY <1>1 DEF DoorDoes, LockOfDoor
  <2> QED
    BY <2>1, <2>2, <2>3, <2>4
<1>11. DoorMirrors'
  BY <1>1, <1>4, <1>9, <1>10, MirrorsKept
<1>12. /\ bus'["double"] = bus["double"] /\ bus'["soldier"] = bus["soldier"]
       /\ bus'["status"] = bus["status"] /\ bus'["isLocked"] = Latest(bus["isLocked"], lock)
       /\ unread'["locks"]["command"] = unread["locks"]["command"]
       /\ unread'["door"]["soldier"] = IF s = "soldier" THEN Tail(q) ELSE q
       /\ unread'["door"]["double"] = IF s = "double" THEN Tail(d) ELSE d
  BY <1>1, DoorLeaves
<1>13. CommandSound'
  BY <1>9, <1>12 DEF CommandSound, StatusAgrees
<1>14. /\ q \in {<<>>, <<bus["soldier"]>>}
       /\ q = <<>> \/ m.double => bus["isLocked"] = ~bus["soldier"]
       /\ q # <<>> => \A i \in DOMAIN d : ~d[i]
       /\ bus["double"] => ~bus["soldier"]
  BY <1>9 DEF KnobSound
<1>15. s = "soldier" => q = <<bus["soldier"]>> /\ Tail(q) = <<>> /\ Head(q) = bus["soldier"]
  <2>1. \A b : Tail(<<b>>) = <<>> /\ Head(<<b>>) = b
    OBVIOUS
  <2>2. s = "soldier" => q = <<bus["soldier"]>>
    BY <1>1, <1>14
  <2> QED
    BY Zenon, <2>1, <2>2
<1>16. unread'["door"]["soldier"] \in {<<>>, <<bus'["soldier"]>>}
  BY <1>12, <1>14, <1>15
<1>17. unread'["door"]["soldier"] # <<>>
       => \A i \in DOMAIN unread'["door"]["double"] : ~unread'["door"]["double"][i]
  <2> SUFFICES ASSUME unread'["door"]["soldier"] # <<>>
               PROVE  \A i \in DOMAIN unread'["door"]["double"] : ~unread'["door"]["double"][i]
    OBVIOUS
  <2>1. s # "soldier" /\ q # <<>>
    BY <1>12, <1>15
  <2>2. CASE s = "double"
    <3>1. d # <<>> /\ IsSeq(d) /\ unread'["door"]["double"] = Tail(d)
      BY <1>1, <1>2, <1>12, <2>2 DEF IsSeq, LockOfDoor
    <3>2. \A i \in DOMAIN Tail(d) : i + 1 \in DOMAIN d /\ Tail(d)[i] = d[i + 1]
      BY <3>1, TailPlaces
    <3> QED
      BY <1>14, <2>1, <3>1, <3>2
  <2>3. CASE s # "double"
    BY <1>12, <1>14, <2>1, <2>3
  <2> QED
    BY <2>2, <2>3
<1>18. bus'["double"] => ~bus'["soldier"]
  BY <1>12, <1>14
<1>19. unread'["door"]["soldier"] = <<>> \/ n.double => bus'["isLocked"] = ~bus'["soldier"]
  <2> SUFFICES ASSUME unread'["door"]["soldier"] = <<>> \/ n.double
               PROVE  bus'["isLocked"] = ~bus["soldier"]
    BY <1>12
  <2>0. \A x, v : Latest(x, <<>>) = x /\ Latest(x, <<v>>) = v
    BY LatestShort
  <2>1. CASE s \notin LockOfDoor /\ SameLock(n) /\ lock = <<>>
    BY <1>12, <1>14, <2>0, <2>1 DEF LockOfDoor, SameLock
  <2>2. CASE s = "isLocked" /\ lock = <<>> /\ n.double = m.double
    BY <1>12, <1>14, <2>0, <2>2
  <2>3. CASE s = "double" /\ lock = <<>> /\ n.double = Head(d)
    <3>1. d # <<>> /\ 1 \in DOMAIN d /\ Head(d) = d[1]
      <4>1. d # <<>> /\ d \in Seq(BOOLEAN)
        BY <1>1, <1>2, <2>3 DEF LockOfDoor
      <4> HIDE DEF d
      <4> QED
        BY <4>1
    <3>2. q = <<>>
      BY <1>12, <1>14, <2>3, <3>1
    <3> QED
      BY <1>12, <1>14, <2>0, <2>3, <3>2
  <2>4. CASE s = "soldier" /\ lock = <<>> /\ m.double
    BY <1>12, <1>14, <2>0, <2>4
  <2>5. CASE s = "soldier" /\ n.locked = ~Head(q) /\ lock = <<n.locked>>
    BY <1>12, <1>15, <2>0, <2>5
  <2>6. CASE /\ s = "closeDoor" /\ lock = <<m.locked>> /\ n.double = m.double
             /\ n.excused = (m.excused \/ (bus["isLocked"] # m.locked /\ (m.double \/ q = <<>>)))
    <3>1. q = <<>> \/ m.double
      BY <1>12, <2>6
    <3>2. bus["isLocked"] = m.locked
      BY <1>7, <2>6, <3>1
    <3> QED
      BY <1>12, <1>14, <2>0, <2>6, <3>1, <3>2
  <2> QED
    BY <1>1, <2>1, <2>2, <2>3, <2>4, <2>5, <2>6 DEF DoorDoes
<1>20. KnobSound'
  BY <1>6, <1>16, <1>17, <1>18, <1>19 DEF KnobSound
<1> QED
  BY <1>11, <1>13, <1>20

\* What a command leaves when it has found the plants done.
Obeyed(c, double, knob) ==
  /\ bus'["soldier"] = ~bus'["isLocked"] /\ (bus'["double"] => bus'["isLocked"])
  /\ knob \in {<<>>, <<bus'["soldier"]>>} /\ (knob # <<>> => double \in {<<>>, <<FALSE>>})
  /\ c = "UnlockAll" => ~bus'["isLocked"]
  /\ c \in {"LockAll", "DoubleLockAll"} => bus'["isLocked"]
  /\ c = "DoubleLockAll" => bus'["double"]
  /\ c \notin {"LockAll", "DoubleLockAll"} => ~bus'["double"]

\* A command that finds the plants done leaves lock, superlock and knob as it says.
LEMMA ObeysForms ==
  ASSUME NEW c, NEW n, NEW lock, NEW double, NEW knob, Obeys(c, n, lock, double, knob),
         bus["isLocked"] \in BOOLEAN, bus["double"] \in BOOLEAN, bus["soldier"] \in BOOLEAN,
         mem["locks"].locked = bus["isLocked"], mem["locks"].double = bus["double"],
         bus["soldier"] = ~bus["isLocked"], bus["double"] => bus["isLocked"],
         c = "DoubleLockAll" => bus["isLocked"],
         bus'["isLocked"] = Latest(bus["isLocked"], lock),
         bus'["double"] = Latest(bus["double"], double),
         bus'["soldier"] = Latest(bus["soldier"], knob)
  PROVE  Obeyed(c, double, knob)
<1> DEFINE l == bus["isLocked"]
           d == bus["double"]
           k == bus["soldier"]
           Goal == LET l1 == Latest(l, lock)
                       d1 == Latest(d, double)
                       k1 == Latest(k, knob)
                   IN
                   /\ k1 = ~l1 /\ (d1 => l1)
                   /\ knob \in {<<>>, <<k1>>} /\ (knob # <<>> => double \in {<<>>, <<FALSE>>})
                   /\ c = "UnlockAll" => ~l1
                   /\ c \in {"LockAll", "DoubleLockAll"} => l1
                   /\ c = "DoubleLockAll" => d1
                   /\ c \notin {"LockAll", "DoubleLockAll"} => ~d1
<1>0. /\ l \in BOOLEAN /\ d \in BOOLEAN /\ k \in BOOLEAN
      /\ mem["locks"].locked = l /\ mem["locks"].double = d
      /\ k = ~l /\ (d => l) /\ (c = "DoubleLockAll" => l)
  OBVIOUS
<1> SUFFICES Goal
  BY DEF Obeyed
<1> HIDE DEF l, d, k
<1> USE <1>0
<1>1. \A x, v : Latest(x, <<>>) = x /\ Latest(x, <<v>>) = v
  BY LatestShort
<1>2. ASSUME lock = <<>>, double = <<>>, knob = <<>>,
             c = "UnlockAll" => ~l, c = "LockAll" => l, c = "DoubleLockAll" => d,
             c \notin {"LockAll", "DoubleLockAll"} => ~d
      PROVE  Goal
  <2>1. Latest(l, lock) = l /\ Latest(d, double) = d /\ Latest(k, knob) = k
    BY Zenon, <1>1, <1>2
  <2> QED
    BY <1>2, <2>1
<1>3. CASE c = "UnlockAll"
  <2>1. CASE ~l /\ SameBolt(n, lock, double, knob)
    <3>1. ~d
      BY <2>1
    <3> QED
      BY <1>2, <1>3, <2>1, <3>1 DEF SameBolt
  <2>2. CASE lock = <<FALSE>> /\ double = <<FALSE>> /\ knob = <<TRUE>>
    <3>1. Latest(l, lock) = FALSE /\ Latest(d, double) = FALSE /\ Latest(k, knob) = TRUE
      BY Zenon, <1>1, <2>2
    <3> QED
      BY <1>3, <2>2, <3>1
  <2> QED
    BY <1>3, <2>1, <2>2 DEF Obeys
<1>4. CASE c = "LockAll"
  <2>1. CASE l /\ SameBolt(n, lock, double, knob)
    BY <1>2, <1>4, <2>1 DEF SameBolt
  <2>2. CASE ~l /\ lock = <<TRUE>> /\ double = <<>> /\ knob = <<FALSE>>
    <3>1. Latest(l, lock) = TRUE /\ Latest(d, double) = d /\ Latest(k, knob) = FALSE
      BY Zenon, <1>1, <2>2
    <3> QED
      BY <1>4, <2>2, <3>1
  <2> QED
    BY <1>4, <2>1, <2>2 DEF Obeys
<1>5. CASE c = "DoubleLockAll"
  <2>1. CASE d /\ SameBolt(n, lock, double, knob)
    BY <1>2, <1>5, <2>1 DEF SameBolt
  <2>2. CASE lock = <<TRUE>> /\ double = <<TRUE>> /\ knob = <<>>
    <3>1. Latest(l, lock) = TRUE /\ Latest(d, double) = TRUE /\ Latest(k, knob) = k
      BY Zenon, <1>1, <2>2
    <3> QED
      BY <1>5, <2>2, <3>1
  <2> QED
    BY <1>5, <2>1, <2>2 DEF Obeys
<1>6. CASE c \notin {"UnlockAll", "LockAll", "DoubleLockAll"}
  <2>1. CASE ~d /\ SameBolt(n, lock, double, knob)
    BY <1>2, <1>6, <2>1 DEF SameBolt
  <2>2. CASE lock = <<>> /\ double = <<FALSE>> /\ knob = <<>>
    <3>1. Latest(l, lock) = l /\ Latest(d, double) = FALSE /\ Latest(k, knob) = k
      BY Zenon, <1>1, <2>2
    <3> QED
      BY <1>6, <2>2, <3>1
  <2> QED
    BY <1>6, <2>1, <2>2 DEF Obeys
<1> QED
  BY <1>3, <1>4, <1>5, <1>6

\* A step of the lock's plant keeps what is known of the lock.
LEMMA LocksStepKeeps ==
  ASSUME DoorShape, {"door", "locks"} \subseteq DOMAIN mem, DoorSound, LocksStep
  PROVE  DoorSound'
<1>1. PICK s, n, lock, double, knob : /\ DOMAIN n = LocksFields
                                      /\ unread["locks"][s] # <<>>
                                      /\ LocksDo(s, n, lock, double, knob)
                                      /\ HeardOfLock("locks", s, n, lock, double, knob)
  BY LocksForms
<1> DEFINE m == mem["locks"]
           q == unread["locks"]["command"]
           c == Head(q)
<1>2. /\ m.locked \in BOOLEAN /\ m.double \in BOOLEAN /\ m.excused \in BOOLEAN
      /\ \A x \in {"isLocked", "double"} : unread["locks"][x] \in Seq(BOOLEAN)
      /\ \A x \in LockOfDoor : unread["door"][x] \in Seq(BOOLEAN) /\ bus[x] \in BOOLEAN
  BY DEF DoorShape
<1>3. \A x \in {"isLocked", "double"} : s = x => Head(unread["locks"][x]) \in BOOLEAN
  <2>1. \A r \in Seq(BOOLEAN) : r # <<>> => Head(r) \in BOOLEAN
    OBVIOUS
  <2> QED
    BY <1>1, <1>2, <2>1
<1>4. /\ n.locked \in BOOLEAN /\ n.double \in BOOLEAN /\ n.excused \in BOOLEAN
      /\ Short(lock) /\ Short(double) /\ Short(knob)
  <2>1. CASE s \in {"isLocked", "double"}
    BY <1>1, <1>2, <1>3, <2>1 DEF LocksDo, Short
  <2>2. CASE s = "command"
    <3>1. Obeys(c, n, lock, double, knob) /\ n.excused \in BOOLEAN
      BY <1>1, <2>2 DEF LocksDo
    <3> HIDE DEF c
    <3> QED
      BY <1>2, <3>1 DEF Obeys, SameBolt, Short
  <2> QED
    BY <1>1, <2>1, <2>2 DEF LocksDo
<1>5. DoorShape'
  BY <1>1, <1>4, HeardShape DEF DoorShape
<1>6. mem'["locks"] = n /\ mem'["door"] = mem["door"] /\ DOMAIN mem' = DOMAIN mem
  BY <1>1 DEF HeardOfLock
<1> SUFFICES ASSUME Unexcused' PROVE DoorMirrors' /\ KnobSound' /\ CommandSound'
  BY <1>5, <1>6 DEF DoorSound
<1>7. ~n.excused /\ ~mem["door"].excused
  BY <1>6 DEF Unexcused
<1>8. Unexcused
  BY <1>1, <1>7 DEF Unexcused, LocksDo
<1>9. DoorMirrors /\ KnobSound /\ CommandSound
  BY <1>8 DEF DoorSound
<1>10. \A v : <<v>> # <<>>
  OBVIOUS
<1>11. s \in {"isLocked", "double", "command"}
  BY <1>1 DEF LocksDo
<1>12. /\ lock = <<>> /\ s # "isLocked" => n.locked = m.locked
       /\ s = "isLocked" => n.locked = Head(unread["locks"][s])
       /\ double = <<>> /\ s # "double" => n.double = m.double
       /\ s = "double" => n.double = Head(unread["locks"][s])
  <2>1. lock = <<>> /\ s # "isLocked" => n.locked = m.locked
    BY Zenon, <1>1, <1>10 DEF LocksDo, Obeys, SameBolt
  <2>2. s = "isLocked" => n.locked = Head(unread["locks"][s])
    BY <1>1 DEF LocksDo
  <2>3. double = <<>> /\ s # "double" => n.double = m.double
    BY Zenon, <1>1, <1>10 DEF LocksDo, Obeys, SameBolt
  <2>4. s = "double" => n.double = Head(unread["locks"][s])
    BY <1>1 DEF LocksDo
  <2> QED
    BY <2>1, <2>2, <2>3, <2>4
<1>13. DoorMirrors'
  BY <1>1, <1>4, <1>9, <1>12, MirrorsKept
<1>14. \A x : Latest(x, <<>>) = x
  BY LatestShort
<1>15. \A r : IsSeq(r) => r \o <<>> = r
  BY LatestForms
<1>16. \A x \in LockOfDoor : IsSeq(unread["door"][x])
  BY <1>2 DEF IsSeq
<1>17. /\ unread'["door"]["soldier"] = unread["door"]["soldier"] \o knob
       /\ unread'["door"]["double"] = unread["door"]["double"] \o double
       /\ bus'["isLocked"] = Latest(bus["isLocked"], lock)
       /\ bus'["double"] = Latest(bus["double"], double)
       /\ bus'["soldier"] = Latest(bus["soldier"], knob)
       /\ bus'["status"] = bus["status"]
       /\ unread'["locks"]["command"] = (IF s = "command" THEN Tail(q) ELSE q) \o <<>>
  BY <1>1 DEF HeardOfLock, Rest
<1>18. CASE s # "command"
  <2>1. lock = <<>> /\ double = <<>> /\ knob = <<>>
    BY <1>1, <1>18 DEF LocksDo
  <2>2. /\ unread'["door"]["soldier"] = unread["door"]["soldier"]
        /\ unread'["door"]["double"] = unread["door"]["double"]
        /\ bus'["isLocked"] = bus["isLocked"] /\ bus'["double"] = bus["double"]
        /\ bus'["soldier"] = bus["soldier"]
    BY Zenon, <1>14, <1>15, <1>16, <1>17, <2>1 DEF LockOfDoor
  <2>3. unread'["locks"]["command"] = q
    BY <1>15, <1>17, <1>18 DEF DoorShape
  <2> QED
    BY <1>6, <1>9, <1>13, <1>17, <2>2, <2>3 DEF KnobSound, CommandSound, StatusAgrees
<1>19. CASE s = "command"
  <2>1. /\ unread["door"]["isLocked"] = <<>> /\ unread["locks"]["isLocked"] = <<>>
        /\ unread["door"]["double"] = <<>> /\ unread["locks"]["double"] = <<>>
        /\ unread["door"]["soldier"] = <<>>
        /\ c = "DoubleLockAll" => m.locked
    BY <1>1, <1>7, <1>19 DEF LocksDo, Surprised
  <2>2. m.locked = bus["isLocked"] /\ m.double = bus["double"]
    BY Zenon, <1>9, <1>14, <2>1 DEF DoorMirrors
  <2>3. bus["isLocked"] = ~bus["soldier"] /\ (bus["double"] => ~bus["soldier"])
    BY Zenon, <1>9, <2>1 DEF KnobSound
  <2>4. q = <<c>> /\ c \in PlainCommands /\ bus["status"] = StatusFor(c) /\ Tail(q) = <<>>
    <3>1. PICK e \in PlainCommands : q = <<e>> /\ bus["status"] = StatusFor(e)
      BY <1>1, <1>9, <1>19 DEF CommandSound
    <3>2. c = e /\ Tail(q) = <<>>
      BY <3>1
    <3> QED
      BY <3>1, <3>2
  <2>5. Obeys(c, n, lock, double, knob)
    BY <1>1, <1>19 DEF LocksDo
  <2> DEFINE l1 == bus'["isLocked"]
             d1 == bus'["double"]
             k1 == bus'["soldier"]
  <2> HIDE DEF c
  <2>6. bus["isLocked"] \in BOOLEAN /\ bus["double"] \in BOOLEAN /\ bus["soldier"] \in BOOLEAN
    BY <1>2 DEF LockOfDoor
  <2>7. /\ k1 = ~l1 /\ (d1 => l1)
        /\ knob \in {<<>>, <<k1>>} /\ (knob # <<>> => double \in {<<>>, <<FALSE>>})
        /\ c = "UnlockAll" => ~l1
        /\ c \in {"LockAll", "DoubleLockAll"} => l1
        /\ c = "DoubleLockAll" => d1
        /\ c \notin {"LockAll", "DoubleLockAll"} => ~d1
    <3>1. /\ bus["soldier"] = ~bus["isLocked"] /\ (bus["double"] => bus["isLocked"])
          /\ c = "DoubleLockAll" => bus["isLocked"]
      BY <2>1, <2>2, <2>3, <2>6
    <3>2. Obeyed(c, double, knob)
      BY <1>17, <2>2, <2>5, <2>6, <3>1, ObeysForms
    <3> QED
      BY <3>2 DEF Obeyed
  <2>8. l1 \in BOOLEAN /\ d1 \in BOOLEAN /\ k1 \in BOOLEAN
    BY <1>5 DEF DoorShape, LockOfDoor
  <2>9. <<>> \o knob = knob /\ <<>> \o double = double /\ <<>> \o <<>> = <<>>
    BY <1>4 DEF Short
  <2>10. /\ unread'["door"]["soldier"] = knob /\ unread'["door"]["double"] = double
         /\ unread'["locks"]["command"] = <<>>
    BY <1>17, <1>19, <2>1, <2>4, <2>9
  <2>11. KnobSound'
    <3>1. double \in {<<>>, <<FALSE>>} => \A i \in DOMAIN double : ~double[i]
      <4>1. DOMAIN <<>> = {} /\ DOMAIN <<FALSE>> = {1} /\ <<FALSE>>[1] = FALSE
        OBVIOUS
      <4> QED
        BY Zenon, <4>1
    <3>2. bus'["isLocked"] = ~bus'["soldier"] /\ (bus'["double"] => ~bus'["soldier"])
      BY <2>7, <2>8
    <3> QED
      BY <2>7, <2>10, <3>1, <3>2 DEF KnobSound
  <2>12. StatusAgrees'
    <3>1. bus'["status"] = StatusFor(c) /\ c \in PlainCommands
      BY <1>17, <2>4
    <3>2. CASE c = "UnlockAll"
      BY <2>7, <2>8, <3>1, <3>2 DEF StatusFor, StatusAgrees, Locked
    <3>3. CASE c = "UnlockDriver"
      BY <2>7, <2>8, <3>1, <3>3 DEF StatusFor, StatusAgrees, Locked
    <3>4. CASE c = "LockAll"
      BY <2>7, <2>8, <3>1, <3>4 DEF StatusFor, StatusAgrees, Locked
    <3>5. CASE c = "DoubleLockAll"
      BY <2>7, <2>8, <3>1, <3>5 DEF StatusFor, StatusAgrees, Locked
    <3> QED
      BY <3>1, <3>2, <3>3, <3>4, <3>5 DEF PlainCommands
  <2> QED
    BY <1>13, <2>10, <2>11, <2>12 DEF CommandSound
<1> QED
  BY <1>18, <1>19

\* A step that says nothing of the lock, and leaves what its plants know of it, keeps all of it.
LEMMA SameDoorKeeps ==
  ASSUME {"door", "locks"} \subseteq DOMAIN mem => DoorSound, DOMAIN mem' = DOMAIN mem,
         world'.team = world.team,
         \A u \in {"door", "locks"} \cap DOMAIN mem :
            /\ DOMAIN mem'[u] = DOMAIN mem[u]
            /\ mem'[u].locked = mem[u].locked /\ mem'[u].double = mem[u].double
            /\ mem'[u].excused = mem[u].excused,
         NEW t, t \notin {"door", "locks"}, Mute(t, LockSignals)
  PROVE  DoorSound'
<1> SUFFICES ASSUME {"door", "locks"} \subseteq DOMAIN mem
             PROVE  DoorShape' /\ (Unexcused' => DoorMirrors' /\ KnobSound' /\ CommandSound')
  BY DEF DoorSound
<1>1. DoorShape /\ (Unexcused => DoorMirrors /\ KnobSound /\ CommandSound)
  BY DEF DoorSound
<1>2. LockSignals \subseteq DOMAIN bus' /\ \A x \in LockSignals : bus'[x] = bus[x]
  BY <1>1 DEF Mute, DoorShape
<1>3. Team' = Team
  BY DEF Team
<1>4. /\ DOMAIN unread' = DOMAIN unread
      /\ \A u \in DOMAIN unread : DOMAIN unread'[u] = DOMAIN unread[u]
      /\ \A u \in {"door", "locks"} : \A x \in LockSignals \cap DOMAIN unread[u] :
            IsSeq(unread[u][x]) => unread'[u][x] = unread[u][x]
  BY <1>1 DEF Mute, DoorShape
<1>5. /\ \A x \in LockOfDoor : unread'["door"][x] = unread["door"][x]
      /\ \A x \in {"command", "isLocked", "double"} : unread'["locks"][x] = unread["locks"][x]
  BY <1>1, <1>4 DEF DoorShape, LockOfDoor, LockSignals, IsSeq
<1>6. DoorShape'
  BY <1>1, <1>2, <1>3, <1>4, <1>5 DEF DoorShape, LockOfDoor, LockSignals
<1>7. Unexcused' = Unexcused
  BY DEF Unexcused
<1>8. /\ DoorMirrors' = DoorMirrors /\ KnobSound' = KnobSound /\ CommandSound' = CommandSound
  <2>1. /\ unread'["door"]["isLocked"] = unread["door"]["isLocked"]
        /\ unread'["door"]["double"] = unread["door"]["double"]
        /\ unread'["door"]["soldier"] = unread["door"]["soldier"]
        /\ unread'["locks"]["isLocked"] = unread["locks"]["isLocked"]
        /\ unread'["locks"]["double"] = unread["locks"]["double"]
        /\ unread'["locks"]["command"] = unread["locks"]["command"]
    BY <1>5 DEF LockOfDoor
  <2>2. /\ bus'["isLocked"] = bus["isLocked"] /\ bus'["double"] = bus["double"]
        /\ bus'["soldier"] = bus["soldier"] /\ bus'["status"] = bus["status"]
    BY <1>2 DEF LockSignals
  <2>3. \A u \in {"door", "locks"} :
           mem'[u].locked = mem[u].locked /\ mem'[u].double = mem[u].double
    BY <1>1
  <2>4. DoorMirrors' = DoorMirrors
    <3>1. ASSUME NEW u \in {"door", "locks"}
          PROVE  /\ Latest(mem'[u].locked, unread'[u]["isLocked"])
                      = Latest(mem[u].locked, unread[u]["isLocked"])
                 /\ Latest(mem'[u].double, unread'[u]["double"])
                      = Latest(mem[u].double, unread[u]["double"])
      BY <2>1, <2>3
    <3> QED
      BY <2>2, <3>1 DEF DoorMirrors
  <2>5. KnobSound' = KnobSound
    BY <2>1, <2>2, <2>3 DEF KnobSound
  <2>6. CommandSound' = CommandSound
    <3>1. StatusAgrees' = StatusAgrees
      BY <2>2 DEF StatusAgrees
    <3> QED
      BY Zenon, <2>1, <2>2, <3>1 DEF CommandSound
  <2> QED
    BY <2>4, <2>5, <2>6
<1> QED
  BY <1>1, <1>6, <1>7, <1>8

\* The arbiter dispatches a command when the lock's plant has read the one before.
LEMMA OrderKeeps ==
  ASSUME Shape, DoorSound, PlainOrders, PublishOrder
  PROVE  DoorSound'
<1> SUFFICES ASSUME {"door", "locks"} \subseteq DOMAIN mem PROVE DoorSound'
  BY DEF DoorSound, PublishOrder
<1>0. UNCHANGED mem /\ world'.team = world.team /\ world'.claims = world.claims
  BY DEF PublishOrder, Shape, WorldFields
<1>1. CASE world.stage # "taken"
  <2>1. \E news : Publish(news) /\ Mutes(news, LockSignals)
    <3>1. \A v : Mutes(<< <<"requestor", v>> >>, LockSignals)
                 /\ Mutes(<< <<"eventNum", v>> >>, LockSignals)
      BY MuteFew DEF LockSignals
    <3> QED
      BY <1>1, <3>1 DEF PublishOrder
  <2>2. Mute("arbiter", LockSignals)
    BY <1>0, <2>1, MuteForms DEF Shape
  <2> QED
    BY <1>0, <2>2, SameDoorKeeps
<1>2. CASE world.stage = "taken"
  <2> DEFINE c == Head(world.orders).command
             news == << <<"command", c>>, <<"status", StatusFor(c)>> >>
             q == unread["locks"]["command"]
  <2>1. /\ world.orders # <<>> /\ ~Has("locks", "command") /\ Publish(news)
    BY <1>2 DEF PublishOrder
  <2>2. c \in PlainCommands
    <3>1. PICK X : world.orders \in Seq(X)
      BY DEF Shape, IsSeq
    <3>2. 1 \in DOMAIN world.orders /\ Head(world.orders) = world.orders[1]
      BY <2>1, <3>1
    <3> QED
      BY <3>2 DEF PlainOrders
  <2>3. q = <<>>
    BY <2>1 DEF Has, Runs
  <2> DEFINE st == StatusFor(c)
  <2> HIDE DEF c, st
  <2>4. Says(news, "command", <<c>>) /\ Says(news, "status", <<st>>)
    BY SayFew DEF st
  <2>5. \A x \in LockOfDoor : Says(news, x, <<>>)
    <3>1. \A x \in LockOfDoor : Mutes(news, {x})
      BY MuteFew DEF LockOfDoor
    <3> QED
      BY Zenon, <3>1, SaysForms
  <2> HIDE DEF news
  <2>6. bus' = BusAfter(news) /\ unread' = Delivered(unread, news)
    BY <2>1 DEF Publish
  <2>7. DoorShape /\ (Unexcused => DoorMirrors /\ KnobSound)
    BY DEF DoorSound
  <2>8. \A x : Latest(x, <<>>) = x /\ Latest(x, <<st>>) = st
    BY LatestShort
  <2>9. /\ LockSignals \subseteq DOMAIN bus'
        /\ \A x \in LockOfDoor : bus'[x] = bus[x]
        /\ bus'["status"] = st
    BY <2>4, <2>5, <2>6, <2>7, <2>8 DEF Says, DoorShape, LockSignals, LockOfDoor
  <2>10. \A u \in {"door", "locks"} : \A x \in DOMAIN unread[u] :
           /\ u \in DOMAIN unread' /\ x \in DOMAIN unread'[u]
           /\ unread'[u][x] = unread[u][x] \o ValuesOf(news, x)
    <3> SUFFICES ASSUME NEW u \in {"door", "locks"}, NEW x \in DOMAIN unread[u]
                 PROVE  /\ u \in DOMAIN unread' /\ x \in DOMAIN unread'[u]
                        /\ unread'[u][x] = unread[u][x] \o ValuesOf(news, x)
      OBVIOUS
    <3>1. u \in DOMAIN unread
      BY <2>7 DEF DoorShape
    <3>2. /\ u \in DOMAIN Delivered(unread, news) /\ x \in DOMAIN Delivered(unread, news)[u]
          /\ Delivered(unread, news)[u][x] = unread[u][x] \o ValuesOf(news, x)
      BY Zenon, <3>1, DeliveredForms
    <3> QED
      BY <2>6, <3>2
  <2>11. \A r : IsSeq(r) => r \o <<>> = r
    BY LatestForms
  <2>12. /\ {"door", "locks"} \subseteq DOMAIN unread'
         /\ LockOfDoor \subseteq DOMAIN unread'["door"]
         /\ {"command", "isLocked", "double"} \subseteq DOMAIN unread'["locks"]
    BY <2>7, <2>10 DEF DoorShape, LockOfDoor
  <2>13. \A u \in {"door", "locks"} : \A x \in LockOfDoor \cap DOMAIN unread[u] :
            unread[u][x] \in Seq(BOOLEAN) => unread'[u][x] = unread[u][x]
    BY <2>5, <2>10, <2>11 DEF Says, IsSeq
  <2>14. /\ \A x \in LockOfDoor : unread'["door"][x] = unread["door"][x]
         /\ \A x \in {"isLocked", "double"} : unread'["locks"][x] = unread["locks"][x]
    BY <2>7, <2>13 DEF DoorShape, LockOfDoor
  <2>15. unread'["locks"]["command"] = <<c>>
    <3>1. unread'["locks"]["command"] = q \o <<c>>
      BY <2>4, <2>7, <2>10 DEF Says, DoorShape
    <3> QED
      BY Zenon, <2>3, <3>1, NewsJoin
  <2>16. DoorShape'
    <3>1. IsSeq(<<c>>)
      BY FewAreSeq
    <3>2. Team' = Team
      BY <1>0 DEF Team
    <3> QED
      BY <1>0, <2>7, <2>9, <2>12, <2>14, <2>15, <3>1, <3>2 DEF DoorShape, LockOfDoor
  <2>17. CommandSound'
    BY <2>2, <2>9, <2>15 DEF CommandSound, st
  <2>18. Unexcused' = Unexcused /\ DoorMirrors' = DoorMirrors /\ KnobSound' = KnobSound
    BY <1>0, <2>9, <2>14 DEF Unexcused, DoorMirrors, KnobSound, LockOfDoor
  <2> QED
    BY <2>7, <2>16, <2>17, <2>18 DEF DoorSound
<1> QED
  BY <1>1, <1>2

\* Who else makes a step says nothing of the lock.
LEMMA LockIsMute ==
  ASSUME Shape, FlashSound, Next, ~DoorStep, ~LocksStep, ~PublishOrder,
         {"door", "locks"} \subseteq Team.tasks
  PROVE  \E t : t \notin {"door", "locks"} /\ Mute(t, LockSignals)
<1> DEFINE Goal == \E t : t \notin {"door", "locks"} /\ Mute(t, LockSignals)
<1> SUFFICES Goal
  OBVIOUS
<1>1. LockSignals \subseteq Told /\ LockSignals \cap TaskSignals = {}
  BY LockNames DEF LockSignals, Told, LockChain
<1>2. ASSUME NEW t, t \notin {"door", "locks"}, NEW X, X \subseteq TaskSignals, Mute(t, Told \ X)
      PROVE  Goal
  <2>1. LockSignals \subseteq Told \ X
    BY <1>1, <1>2
  <2>2. Mute(t, LockSignals)
    BY Zenon, <1>2, <2>1, MuteFewer
  <2> QED
    BY <1>2, <2>2
<1>3. ASSUME NEW t, t \notin {"door", "locks"}, Mute(t, Told) PROVE Goal
  <2>1. Mute(t, LockSignals)
    BY Zenon, <1>1, <1>3, MuteFewer
  <2> QED
    BY <1>3, <2>1
<1>4. /\ {"lostKey", "chime"} \subseteq TaskSignals /\ {"chime"} \subseteq TaskSignals
      /\ {"motor"} \subseteq TaskSignals /\ OfAll("rf", Fobs) \subseteq TaskSignals
      /\ OfAll("move", Panels) \subseteq TaskSignals /\ OfAll("at", Panels) \subseteq TaskSignals
  BY DEF TaskSignals
<1>5. \A t \in Silent : t \notin {"door", "locks"}
  BY DEF Silent
<1>6. CASE OfferStep
  <2>1. PICK o \in Team.offers : Happens(o[1], o[2])
    BY <1>6 DEF OfferStep
  <2>2. o[1] \notin LockSignals
    BY DoorTeamsAssumption DEF Shape, Team
  <2>3. world'.claims = world.claims
    BY <2>1 DEF Happens, Shape, WorldFields
  <2>4. Mute("around", LockSignals)
    BY <2>1, <2>2, <2>3, MuteFew, MuteForms DEF Shape, Happens
  <2> QED
    BY <2>4
<1> HIDE DEF Goal
<1>7. CASE EntryHappens
  BY <1>2, <1>3, <1>4, <1>6, <1>7, AroundIsMute
<1>8. CASE TimePasses
  BY <1>3, <1>8, AroundIsMute
<1>9. CASE EntryTasksStep
  BY <1>2, <1>3, <1>4, <1>5, <1>9, EntryIsMute
<1>10. CASE ComfortTasksStep
  BY <1>2, <1>3, <1>4, <1>5, <1>10, ComfortIsMute
<1>11. ~Team.reboots
  BY DoorTeamsAssumption DEF Shape, Team
<1> QED
  BY <1>7, <1>8, <1>9, <1>10, <1>11 DEF Next

\* What the plants know is theirs.
LEMMA DoorMemory ==
  ASSUME Shape, Next, ~DoorStep, ~LocksStep, {"door", "locks"} \subseteq Team.tasks
  PROVE  \A u \in {"door", "locks"} \cap DOMAIN mem :
            mem'[u] = mem[u] \/ mem'[u] = [mem[u] EXCEPT !.timer = Passed(@)]
<1> DEFINE Goal == \A u \in {"door", "locks"} \cap DOMAIN mem :
                      mem'[u] = mem[u] \/ mem'[u] = [mem[u] EXCEPT !.timer = Passed(@)]
<1> SUFFICES Goal
  OBVIOUS
<1>1. ASSUME NEW t, t \notin {"door", "locks"}, Only(t) PROVE Goal
  BY <1>1 DEF Only
<1>2. CASE OthersStep
  <2>1. PICK t \in Others \ {"door", "locks"} : Local(t)
    BY <1>2 DEF OthersStep
  <2> QED
    BY <1>1, <2>1 DEF Local
<1>3. CASE TimePasses
  BY <1>3, TimeForms
<1>4. CASE UNCHANGED mem
  BY <1>4
<1> HIDE DEF Goal
<1>5. CASE Walk \/ Lost \/ PepsStep \/ PassiveStep \/ RkeStep
  BY <1>1, <1>5, OnlyForms
<1>6. CASE FlashStep \/ RelayStep \/ WindowStep \/ RoofSwitchStep \/ MotorsStep
  BY <1>1, <1>6, OnlyForms
<1>7. CASE SearchServed \/ PublishOrder \/ EntryHappens
  <2>1. UNCHANGED mem
    BY <1>7, OnlyForms
  <2> QED
    BY <1>4, <2>1
<1>8. ~Team.reboots
  BY DoorTeamsAssumption DEF Shape, Team
<1>9. CASE EntryTasksStep
  BY <1>2, <1>5, <1>7, <1>9, EntryCases
<1>10. CASE ComfortTasksStep
  BY <1>2, <1>6, <1>10, ComfortCases
<1> QED
  BY <1>3, <1>7, <1>8, <1>9, <1>10 DEF Next

\* What is known of the lock is kept by every step, when what is ordered is plain.
LEMMA DoorKept ==
  ASSUME Shape, FlashSound, DoorSound, PlainOrders, [Next]_vars
  PROVE  DoorSound'
<1>1. CASE UNCHANGED vars
  <2>1. Team' = Team
    BY <1>1 DEF vars, Team
  <2> QED
    BY <1>1, <2>1
    DEF vars, DoorSound, DoorShape, Unexcused, DoorMirrors, KnobSound, CommandSound, StatusAgrees
<1>2. ASSUME Next PROVE DOMAIN mem' = DOMAIN mem /\ world'.team = world.team
  BY <1>2, WorldSteps
<1>3. CASE Next /\ ~({"door", "locks"} \subseteq DOMAIN mem)
  BY <1>2, <1>3 DEF DoorSound
<1> SUFFICES ASSUME Next, {"door", "locks"} \subseteq DOMAIN mem PROVE DoorSound'
  BY <1>1, <1>3
<1>4. DoorShape
  BY DEF DoorSound
<1>5. CASE DoorStep
  BY <1>4, <1>5, DoorStepKeeps
<1>6. CASE LocksStep
  BY <1>4, <1>6, LocksStepKeeps
<1>7. CASE PublishOrder
  BY <1>7, OrderKeeps
<1>8. {"door", "locks"} \subseteq Team.tasks
  BY <1>4 DEF DoorShape
<1>9. ASSUME ~DoorStep, ~LocksStep, ~PublishOrder PROVE DoorSound'
  <2>1. PICK t : t \notin {"door", "locks"} /\ Mute(t, LockSignals)
    BY <1>8, <1>9, LockIsMute
  <2>2. \A u \in {"door", "locks"} \cap DOMAIN mem :
            /\ DOMAIN mem'[u] = DOMAIN mem[u]
            /\ mem'[u].locked = mem[u].locked /\ mem'[u].double = mem[u].double
            /\ mem'[u].excused = mem[u].excused
    <3>1. \A u \in {"door", "locks"} \cap DOMAIN mem :
             mem'[u] = mem[u] \/ mem'[u] = [mem[u] EXCEPT !.timer = Passed(@)]
      BY <1>8, <1>9, DoorMemory
    <3> QED
      BY <1>4, <3>1 DEF DoorShape, DoorFields, LocksFields
  <2> QED
    BY <1>2, <2>1, <2>2, SameDoorKeeps
<1> QED
  BY <1>5, <1>6, <1>7, <1>9

\* The plants start with what the bus holds.
LEMMA DoorInit == ASSUME Init PROVE DoorSound
<1> SUFFICES ASSUME {"door", "locks"} \subseteq DOMAIN mem
             PROVE  DoorShape /\ DoorMirrors /\ KnobSound /\ CommandSound
  BY DEF DoorSound
<1>1. PICK name \in DOMAIN Teams :
         /\ world.team = name
         /\ bus = Over(Teams[name].bus, Over(EntryBus, ComfortBus))
         /\ DOMAIN mem = Teams[name].tasks
         /\ \A t \in DOMAIN mem : mem[t] = Task(t, bus, world).mem
         /\ unread = [t \in DOMAIN mem |-> [s \in Task(t, bus, world).follows |-> <<>>]]
  BY InitForms
<1>2. Task("door", bus, world) = DoorTask(bus) /\ Task("locks", bus, world) = LocksTask(bus)
  BY DEF Task, EntryTasks, ComfortTask
<1>3. mem["door"] = DoorTask(bus).mem /\ mem["locks"] = LocksTask(bus).mem
  BY <1>1, <1>2
<1>4. /\ DOMAIN unread = DOMAIN mem
      /\ unread["door"] = [s \in DoorTask(bus).follows |-> <<>>]
      /\ unread["locks"] = [s \in LocksTask(bus).follows |-> <<>>]
  BY <1>1, <1>2
<1>5. /\ {bus["isLocked"], bus["double"], bus["soldier"]} \subseteq BOOLEAN
      /\ bus["soldier"] = ~bus["isLocked"]
      /\ bus["status"] = "UNLOCKED" => ~bus["isLocked"]
      /\ bus["status"] \in Locked => bus["isLocked"]
      /\ bus["status"] = "DOUBLE_LOCKED" => bus["double"]
      /\ bus["double"] => bus["status"] \in Locked
  BY <1>1, DoorTeamsAssumption
<1>6. LockSignals \subseteq DOMAIN bus
  <2>1. {"command", "status"} \subseteq DOMAIN EntrySignals
    BY DEF EntrySignals
  <2>2. {"isLocked", "double", "soldier"} \subseteq DOMAIN ComfortSignals
    BY DEF ComfortSignals
  <2>3. \A f, g : DOMAIN Over(f, g) = DOMAIN f \cup DOMAIN g
    BY DEF Over
  <2>4. DOMAIN EntrySignals \subseteq DOMAIN EntryBus
    BY <2>3 DEF EntryBus
  <2>5. DOMAIN ComfortSignals \subseteq DOMAIN ComfortBus
    BY <2>3 DEF ComfortBus
  <2>6. DOMAIN EntryBus \cup DOMAIN ComfortBus \subseteq DOMAIN bus
    <3>1. DOMAIN bus = DOMAIN Teams[name].bus \cup DOMAIN Over(EntryBus, ComfortBus)
      BY Zenon, <1>1, <2>3
    <3>2. DOMAIN Over(EntryBus, ComfortBus) = DOMAIN EntryBus \cup DOMAIN ComfortBus
      BY Zenon, <2>3
    <3> QED
      BY <3>1, <3>2
  <2> QED
    BY <2>1, <2>2, <2>4, <2>5, <2>6 DEF LockSignals
<1>7. /\ DOMAIN mem["door"] = DoorFields /\ DOMAIN mem["locks"] = LocksFields
      /\ \A t \in {"door", "locks"} :
            /\ mem[t].locked = bus["isLocked"] /\ mem[t].double = bus["double"]
            /\ mem[t].excused = FALSE
  BY <1>3 DEF DoorTask, LocksTask, DoorFields, LocksFields
<1>8. /\ LockOfDoor \subseteq DOMAIN unread["door"]
      /\ {"command", "isLocked", "double"} \subseteq DOMAIN unread["locks"]
      /\ \A s \in LockOfDoor : unread["door"][s] = <<>>
      /\ \A s \in {"command", "isLocked", "double"} : unread["locks"][s] = <<>>
  BY <1>4 DEF DoorTask, LocksTask, LockOfDoor
<1>9. \A x : Latest(x, <<>>) = x
  BY LatestShort
<1>10. DoorShape
  <2>1. <<>> \in Seq(BOOLEAN) /\ IsSeq(<<>>)
    BY NothingIsSeq
  <2> QED
    BY <1>1, <1>4, <1>5, <1>6, <1>7, <1>8, <2>1 DEF DoorShape, LockOfDoor, Team
<1>11. DoorMirrors
  BY <1>7, <1>8, <1>9 DEF DoorMirrors, LockOfDoor
<1>12. KnobSound
  <2>1. unread["door"]["soldier"] = <<>>
    BY <1>8 DEF LockOfDoor
  <2>2. bus["double"] => ~bus["soldier"]
    BY <1>5
  <2> QED
    BY <1>5, <2>1, <2>2 DEF KnobSound
<1>13. CommandSound
  BY <1>5, <1>8 DEF CommandSound, StatusAgrees
<1> QED
  BY <1>10, <1>11, <1>12, <1>13

\* As long as the release of a superlock, which the status tells as a lock, is not ordered,
\* the rear door rests as the last command left it, and its knob shows it, when both of its
\* plants have read everything: provided that a command has found them done with what was
\* published before it, and that nobody has closed the door while the handle plant knew
\* another lock than the bus and would not hear the knob (door_handle.rs and
\* door_lock.rs each publish the lock as they know it, and read each other late).
THEOREM DoorRests == Spec /\ []PlainOrders => []DoorRestsAsCommanded
<1> DEFINE Inv == Shape /\ FlashSound /\ DoorSound
<1>1. Init => Inv
  BY ShapeInit, FlashInit, DoorInit
<1>2. Inv /\ [Next]_vars /\ PlainOrders => Inv'
  BY ShapeKept, FlashKept, DoorKept
<1>3. Inv => DoorRestsAsCommanded
  <2> SUFFICES ASSUME DoorSound, Runs("locks"), Runs("door"), Unexcused,
                      CaughtUp("locks"), CaughtUp("door")
               PROVE  /\ bus["status"] = "UNLOCKED" => ~bus["isLocked"]
                      /\ bus["status"] \in Locked => bus["isLocked"]
                      /\ bus["status"] = "DOUBLE_LOCKED" => bus["double"]
                      /\ bus["double"] => bus["status"] \in Locked
                      /\ bus["soldier"] = ~bus["isLocked"]
    BY DEF DoorRestsAsCommanded, Unexcused
  <2>1. DoorShape /\ KnobSound /\ CommandSound
    BY DEF DoorSound, Runs
  <2>2. unread["locks"]["command"] = <<>> /\ unread["door"]["soldier"] = <<>>
    BY <2>1 DEF CaughtUp, DoorShape, LockOfDoor
  <2>3. StatusAgrees
    <3>1. \A c : <<c>> # <<>>
      OBVIOUS
    <3> QED
      BY Zenon, <2>1, <2>2, <3>1 DEF CommandSound
  <2>4. bus["isLocked"] \in BOOLEAN /\ bus["soldier"] \in BOOLEAN
    BY <2>1 DEF DoorShape, LockOfDoor
  <2>5. bus["isLocked"] = ~bus["soldier"]
    BY Zenon, <2>1, <2>2 DEF KnobSound
  <2> QED
    BY <2>3, <2>4, <2>5 DEF StatusAgrees
<1> QED
  BY <1>1, <1>2, <1>3, PTL DEF Spec
=============================================================================
