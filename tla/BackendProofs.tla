--------------------------- MODULE BackendProofs ----------------------------
(***************************************************************************)
(* The backends of the bridge.  Of the server one runs, for any number of  *)
(* connections, capacity and queue limit: its counters account for every   *)
(* request, none waits beside a free place, and they are served first      *)
(* come, first served.  Of the reconciler, for any slots and any canvas: a *)
(* backend has one slot, and the drain state and the tunnel of a slot are  *)
(* the ones its owner is meant to have.                                    *)
(***************************************************************************)
EXTENDS ServiceServer, Reconciler, Induction

-----------------------------------------------------------------------------
(* The server *)

Request == [id : Int, conn : ConnId, close : BOOLEAN]

CountSet == [arrivals : Int, ok : Int, err : Int, shed : Int, abandoned : Int]

ServerSet == [busy : Int, queue : Seq(Request), serving : SUBSET Request, c : CountSet,
              open_conns : Int, reqs : Int]

(* Each request is at one place, in the queue too, and a new one is none   *)
(* of those.                                                               *)
PlacesOK(busy, queue, serving, reqs) ==
  /\ busy \in Nat /\ queue \in Seq(Request) /\ serving \in SUBSET Request /\ reqs \in Int
  /\ IsFiniteSet(serving) /\ busy = Cardinality(serving)
  /\ \A r \in serving : r.id <= reqs
  /\ \A i \in 1 .. Len(queue) : queue[i] \notin serving /\ queue[i].id <= reqs
  /\ \A i, l \in 1 .. Len(queue) : queue[i] = queue[l] => i = l

SumsOK(c, pending, b) ==
  /\ c.arrivals + b = c.ok + c.err + c.shed + pending
  /\ c.abandoned <= c.ok + c.err

WorkOK(s, cap) == Len(s.queue) > 0 => s.busy >= cap

ServerOK(s, b) ==
  /\ s \in ServerSet
  /\ PlacesOK(s.busy, s.queue, s.serving, s.reqs)
  /\ SumsOK(s.c, s.busy + Len(s.queue), b)

LEMMA NewServed ==
  ASSUME NEW busy, NEW queue, NEW serving, NEW reqs, PlacesOK(busy, queue, serving, reqs),
         NEW r \in Request, r.id = reqs + 1, Len(queue) = 0
  PROVE  PlacesOK(busy + 1, queue, serving \cup {r}, reqs + 1)
<1>1. /\ busy \in Nat /\ queue \in Seq(Request) /\ serving \in SUBSET Request /\ reqs \in Int
      /\ IsFiniteSet(serving) /\ busy = Cardinality(serving)
      /\ \A q \in serving : q.id <= reqs
  BY Zenon DEF PlacesOK
<1>2. \A q \in serving : q.id \in Int
  BY <1>1 DEF Request
<1>3. r \notin serving /\ \A q \in serving \cup {r} : q.id <= reqs + 1
  BY <1>1, <1>2
<1>4. IsFiniteSet(serving \cup {r}) /\ Cardinality(serving \cup {r}) = busy + 1
  BY <1>1, <1>3, FS_AddElement, Zenon
<1>5. 1 .. Len(queue) = {}
  OBVIOUS
<1>6. busy + 1 \in Nat /\ reqs + 1 \in Int /\ serving \cup {r} \in SUBSET Request
  BY <1>1
<1>7. QED
  BY <1>1, <1>3, <1>4, <1>5, <1>6, Zenon DEF PlacesOK

LEMMA NewQueued ==
  ASSUME NEW busy, NEW queue, NEW serving, NEW reqs, PlacesOK(busy, queue, serving, reqs),
         NEW r \in Request, r.id = reqs + 1
  PROVE  /\ PlacesOK(busy, Append(queue, r), serving, reqs + 1)
         /\ Len(Append(queue, r)) = Len(queue) + 1
<1> DEFINE a == Append(queue, r)
<1>1. /\ busy \in Nat /\ queue \in Seq(Request) /\ serving \in SUBSET Request /\ reqs \in Int
      /\ IsFiniteSet(serving) /\ busy = Cardinality(serving)
      /\ \A q \in serving : q.id <= reqs
      /\ \A i \in 1 .. Len(queue) : queue[i] \notin serving /\ queue[i].id <= reqs
      /\ \A i, l \in 1 .. Len(queue) : queue[i] = queue[l] => i = l
  BY Zenon DEF PlacesOK
<1>2. PICK n \in Nat : n = Len(queue)
  BY <1>1
<1>3. a \in Seq(Request) /\ Len(a) = n + 1 /\ a[n + 1] = r /\ \A i \in 1 .. n : a[i] = queue[i]
  BY <1>1, <1>2
<1>4. \A i \in 1 .. n : queue[i] \in Request
  BY <1>1, <1>2
<1>5. (\A q \in serving : q.id \in Int) /\ \A i \in 1 .. n : queue[i].id \in Int
  BY <1>1, <1>4 DEF Request
<1>6. r \notin serving /\ \A q \in serving : q.id <= reqs + 1
  BY <1>1, <1>5
<1>7. \A i \in 1 .. n : queue[i] # r /\ queue[i].id <= reqs + 1
  BY <1>1, <1>2, <1>5
<1>8. \A i \in 1 .. n + 1 : i \in 1 .. n \/ i = n + 1
  OBVIOUS
<1>9. r.id <= reqs + 1 /\ reqs + 1 \in Int
  BY <1>1
<1> HIDE DEF a
<1>10. \A i \in 1 .. Len(a) : a[i] \notin serving /\ a[i].id <= reqs + 1
  BY <1>1, <1>2, <1>3, <1>6, <1>7, <1>8, <1>9, Zenon
<1>11. \A i, l \in 1 .. Len(a) : a[i] = a[l] => i = l
  <2>1. SUFFICES ASSUME NEW i \in 1 .. n + 1, NEW l \in 1 .. n + 1, a[i] = a[l] PROVE i = l
    BY <1>3, Zenon
  <2>2. CASE i \in 1 .. n /\ l \in 1 .. n
    BY <1>1, <1>2, <1>3, <2>1, <2>2, Zenon
  <2>3. CASE i = n + 1 \/ l = n + 1
    BY <1>3, <1>7, <1>8, <2>1, <2>3, Zenon
  <2>4. QED
    BY <1>8, <2>2, <2>3, Zenon
<1>12. PlacesOK(busy, a, serving, reqs + 1)
  BY <1>1, <1>3, <1>6, <1>9, <1>10, <1>11, Zenon DEF PlacesOK
<1>13. QED
  BY <1>2, <1>3, <1>12, Zenon DEF a

LEMMA NewShed ==
  ASSUME NEW busy, NEW queue, NEW serving, NEW reqs, PlacesOK(busy, queue, serving, reqs)
  PROVE  PlacesOK(busy, queue, serving, reqs + 1)
<1>1. /\ busy \in Nat /\ queue \in Seq(Request) /\ serving \in SUBSET Request /\ reqs \in Int
      /\ IsFiniteSet(serving) /\ busy = Cardinality(serving)
      /\ \A q \in serving : q.id <= reqs
      /\ \A i \in 1 .. Len(queue) : queue[i] \notin serving /\ queue[i].id <= reqs
      /\ \A i, l \in 1 .. Len(queue) : queue[i] = queue[l] => i = l
  BY Zenon DEF PlacesOK
<1>2. \A i \in 1 .. Len(queue) : queue[i] \in Request
  BY <1>1
<1>3. (\A q \in serving : q.id \in Int) /\ \A i \in 1 .. Len(queue) : queue[i].id \in Int
  BY <1>1, <1>2 DEF Request
<1>4. (\A q \in serving : q.id <= reqs + 1) /\ \A i \in 1 .. Len(queue) : queue[i].id <= reqs + 1
  BY <1>1, <1>3
<1>5. reqs + 1 \in Int
  BY <1>1
<1>6. QED
  BY <1>1, <1>4, <1>5, Zenon DEF PlacesOK

(* submit: served, queued or shed, a new request is accounted for. *)
LEMMA SubmitOK ==
  ASSUME NEW s, NEW r \in Request, NEW b \in Int, capacity \in Int, queue_limit \in Int,
         ServerOK(s, b), WorkOK(s, capacity), r.id = s.reqs + 1
  PROVE  /\ ServerOK(submit(s, r), b) /\ WorkOK(submit(s, r), capacity)
         /\ submit(s, r).reqs = s.reqs + 1 /\ submit(s, r).open_conns = s.open_conns
<1> DEFINE t == [s EXCEPT !.c.arrivals = @ + 1, !.reqs = @ + 1]
           u == submit(s, r)
<1>1. s \in ServerSet /\ PlacesOK(s.busy, s.queue, s.serving, s.reqs)
      /\ SumsOK(s.c, s.busy + Len(s.queue), b)
  BY Zenon DEF ServerOK
<1>2. /\ s.busy \in Nat /\ s.queue \in Seq(Request) /\ Len(s.queue) \in Nat
      /\ s.serving \in SUBSET Request
      /\ s.reqs \in Int /\ s.open_conns \in Int /\ s.c \in CountSet
      /\ s.c.arrivals \in Int /\ s.c.ok \in Int /\ s.c.err \in Int /\ s.c.shed \in Int
      /\ s.c.abandoned \in Int
  <2>1. s.busy \in Nat /\ s.queue \in Seq(Request)
    BY <1>1, Zenon DEF PlacesOK
  <2>2. Len(s.queue) \in Nat
    BY <2>1
  <2>3. /\ s.serving \in SUBSET Request /\ s.reqs \in Int /\ s.open_conns \in Int
        /\ s.c \in CountSet
    BY <1>1, Zenon DEF ServerSet
  <2>4. QED
    BY <2>1, <2>2, <2>3, Zenon DEF CountSet
<1> DEFINE d == [s.c EXCEPT !.arrivals = s.c.arrivals + 1]
<1>3. t = [s EXCEPT !.c = d, !.reqs = s.reqs + 1]
  OBVIOUS
<1>4. /\ d \in CountSet /\ d.arrivals = s.c.arrivals + 1 /\ d.ok = s.c.ok /\ d.err = s.c.err
      /\ d.shed = s.c.shed /\ d.abandoned = s.c.abandoned
  <2>1. s.c.arrivals + 1 \in Int
    BY <1>2
  <2>2. QED
    BY <1>2, <2>1, Zenon DEF CountSet
<1>5. u = IF t.busy < capacity THEN _start(t, r)
          ELSE IF Len(t.queue) < queue_limit THEN [t EXCEPT !.queue = Append(@, r)]
          ELSE [t EXCEPT !.c.shed = @ + 1]
  BY Zenon DEF submit
<1> HIDE DEF d, t
<1>6. /\ t \in ServerSet /\ t.busy = s.busy /\ t.queue = s.queue /\ t.serving = s.serving
      /\ t.c = d /\ t.open_conns = s.open_conns /\ t.reqs = s.reqs + 1
  <2>1. s.reqs + 1 \in Int
    BY <1>2
  <2>2. QED
    BY <1>1, <1>3, <1>4, <2>1, Zenon DEF ServerSet
<1>11. PICK x \in Nat, y \in Nat : s.busy = x /\ Len(s.queue) = y
  BY <1>2, Zenon
<1>12. PICK a \in Int, o \in Int, f \in Int, h \in Int, v \in Int :
         s.c.arrivals = a /\ s.c.ok = o /\ s.c.err = f /\ s.c.shed = h /\ s.c.abandoned = v
  BY <1>2, Zenon
<1>13. a + b = o + f + h + (x + y) /\ v <= o + f
  BY <1>1, <1>11, <1>12, Zenon DEF SumsOK
<1>14. d.arrivals = a + 1 /\ d.ok = o /\ d.err = f /\ d.shed = h /\ d.abandoned = v
  BY <1>4, <1>12, Zenon
<1> HIDE DEF u
<1>7. CASE t.busy < capacity
  <2>1. u = [t EXCEPT !.busy = t.busy + 1, !.serving = t.serving \cup {r}]
    BY <1>5, <1>7, Zenon DEF _start
  <2>2. s.busy + 1 \in Int /\ s.serving \cup {r} \in SUBSET Request
    BY <1>2
  <2>3. /\ u.busy = s.busy + 1 /\ u.serving = s.serving \cup {r} /\ u.queue = s.queue
        /\ u.c = d /\ u.open_conns = s.open_conns /\ u.reqs = s.reqs + 1 /\ u \in ServerSet
    BY <1>6, <2>1, <2>2, Zenon DEF ServerSet
  <2>4. Len(s.queue) = 0
    BY SMTT(60), <1>2, <1>6, <1>7 DEF WorkOK
  <2>5. PlacesOK(u.busy, u.queue, u.serving, u.reqs)
    <3>1. PlacesOK(s.busy + 1, s.queue, s.serving \cup {r}, s.reqs + 1)
      BY <1>1, <2>4, NewServed
    <3>2. QED
      BY <2>3, <3>1, Zenon
  <2>6. SumsOK(d, (s.busy + 1) + Len(s.queue), b)
    <3>1. (a + 1) + b = o + f + h + ((x + 1) + y)
      BY <1>13
    <3>2. QED
      BY <1>11, <1>13, <1>14, <3>1, Zenon DEF SumsOK
  <2>7. WorkOK(u, capacity)
    BY <2>3, <2>4 DEF WorkOK
  <2>8. QED
    BY <2>3, <2>5, <2>6, <2>7, Zenon DEF u, ServerOK
<1>8. CASE ~(t.busy < capacity) /\ Len(t.queue) < queue_limit
  <2>1. u = [t EXCEPT !.queue = Append(t.queue, r)]
    BY <1>5, <1>8, Zenon
  <2>2. Append(s.queue, r) \in Seq(Request)
    BY <1>2
  <2>3. /\ u.busy = s.busy /\ u.serving = s.serving /\ u.queue = Append(s.queue, r)
        /\ u.c = d /\ u.open_conns = s.open_conns /\ u.reqs = s.reqs + 1 /\ u \in ServerSet
    BY <1>6, <2>1, <2>2, Zenon DEF ServerSet
  <2>4. PlacesOK(u.busy, u.queue, u.serving, u.reqs) /\ Len(u.queue) = Len(s.queue) + 1
    <3>1. /\ PlacesOK(s.busy, Append(s.queue, r), s.serving, s.reqs + 1)
          /\ Len(Append(s.queue, r)) = Len(s.queue) + 1
      BY <1>1, NewQueued
    <3>2. QED
      BY <2>3, <3>1, Zenon
  <2>5. SumsOK(d, s.busy + (Len(s.queue) + 1), b)
    <3>1. (a + 1) + b = o + f + h + (x + (y + 1))
      BY <1>13
    <3>2. QED
      BY <1>11, <1>13, <1>14, <3>1, Zenon DEF SumsOK
  <2>6. WorkOK(u, capacity)
    BY <1>2, <1>6, <1>8, <2>3 DEF WorkOK
  <2>7. QED
    BY <2>3, <2>4, <2>5, <2>6, Zenon DEF u, ServerOK
<1>9. CASE ~(t.busy < capacity) /\ ~(Len(t.queue) < queue_limit)
  <2> DEFINE e == [d EXCEPT !.shed = d.shed + 1]
  <2>1. u = [t EXCEPT !.c = e]
    BY <1>5, <1>6, <1>9, Zenon
  <2>2. /\ e \in CountSet /\ e.arrivals = d.arrivals /\ e.ok = d.ok
        /\ e.err = d.err /\ e.shed = d.shed + 1 /\ e.abandoned = d.abandoned
    <3>1. d.shed + 1 \in Int
      BY <1>2, <1>4
    <3>2. QED
      BY <1>4, <3>1, Zenon DEF CountSet
  <2> HIDE DEF e
  <2>3. /\ u.busy = s.busy /\ u.serving = s.serving /\ u.queue = s.queue
        /\ u.c = e /\ u.open_conns = s.open_conns /\ u.reqs = s.reqs + 1 /\ u \in ServerSet
    BY <1>6, <2>1, <2>2, Zenon DEF ServerSet
  <2>4. PlacesOK(u.busy, u.queue, u.serving, u.reqs)
    BY <1>1, <2>3, NewShed, Zenon
  <2>5. SumsOK(e, s.busy + Len(s.queue), b)
    <3>1. (a + 1) + b = o + f + (h + 1) + (x + y)
      BY <1>13
    <3>2. QED
      BY <1>11, <1>13, <1>14, <2>2, <3>1, Zenon DEF SumsOK
  <2>6. WorkOK(u, capacity)
    BY <1>2, <1>6, <1>9, <2>3 DEF WorkOK
  <2>7. QED
    BY <2>3, <2>4, <2>5, <2>6, Zenon DEF u, ServerOK
<1>10. QED
  BY <1>7, <1>8, <1>9, Zenon

(* The first n of the queue go to be served. *)
LEMMA QueuedServed ==
  ASSUME NEW busy, NEW queue, NEW serving, NEW reqs, PlacesOK(busy, queue, serving, reqs),
         NEW n \in 0 .. Len(queue)
  PROVE  /\ PlacesOK(busy + n, SubSeq(queue, n + 1, Len(queue)),
                     serving \cup {queue[i] : i \in 1 .. n}, reqs)
         /\ Len(SubSeq(queue, n + 1, Len(queue))) = Len(queue) - n
<1> DEFINE H == {queue[i] : i \in 1 .. n}
           t == SubSeq(queue, n + 1, Len(queue))
           f == [i \in 1 .. n |-> queue[i]]
<1>1. /\ busy \in Nat /\ queue \in Seq(Request) /\ serving \in SUBSET Request /\ reqs \in Int
      /\ IsFiniteSet(serving) /\ busy = Cardinality(serving)
      /\ \A q \in serving : q.id <= reqs
      /\ \A i \in 1 .. Len(queue) : queue[i] \notin serving /\ queue[i].id <= reqs
      /\ \A i, l \in 1 .. Len(queue) : queue[i] = queue[l] => i = l
  BY Zenon DEF PlacesOK
<1>2. PICK k \in Nat : k = Len(queue)
  BY <1>1
<1>3. n \in Nat /\ n <= k /\ \A i \in 1 .. n : i \in 1 .. Len(queue)
  BY <1>2
<1>4. \A i \in 1 .. Len(queue) : queue[i] \in Request
  BY <1>1
<1>5. t \in Seq(Request) /\ Len(t) = k - n /\ \A i \in 1 .. k - n : t[i] = queue[n + i]
  BY <1>1, <1>2, <1>3, <1>4, SMTT(60)
<1>6. f \in Bijection(1 .. n, H)
  <2>1. f \in [1 .. n -> H] /\ DOMAIN f = 1 .. n
    OBVIOUS
  <2>2. \A i, l \in 1 .. n : f[i] = f[l] => i = l
    BY <1>1, <1>3, Zenon
  <2>3. \A x \in H : \E i \in 1 .. n : f[i] = x
    OBVIOUS
  <2> HIDE DEF f, H
  <2>4. QED
    BY <2>1, <2>2, <2>3, Zenon DEF Bijection, Injection, Surjection, IsInjective
<1>7. H \subseteq Request /\ (\A x \in H : x.id <= reqs) /\ serving \cap H = {}
  BY <1>1, <1>3, <1>4, Zenon
<1>8. \A i \in 1 .. k - n : t[i] \notin serving /\ t[i] \notin H /\ t[i].id <= reqs
  <2>1. SUFFICES ASSUME NEW i \in 1 .. k - n
                 PROVE  t[i] \notin serving /\ t[i] \notin H /\ t[i].id <= reqs
    BY Zenon
  <2>2. n + i \in 1 .. Len(queue) /\ \A l \in 1 .. n : l # n + i
    BY <1>2, <1>3
  <2>3. t[i] = queue[n + i]
    BY <1>5
  <2> HIDE DEF t
  <2>4. t[i] \notin H
    BY <1>1, <1>3, <2>2, <2>3, Zenon
  <2>5. QED
    BY <1>1, <2>2, <2>3, <2>4, Zenon
<1>9. \A i, l \in 1 .. k - n : t[i] = t[l] => i = l
  <2>1. SUFFICES ASSUME NEW i \in 1 .. k - n, NEW l \in 1 .. k - n, t[i] = t[l] PROVE i = l
    BY Zenon
  <2>2. n + i \in 1 .. Len(queue) /\ n + l \in 1 .. Len(queue) /\ (n + i = n + l => i = l)
    BY <1>2, <1>3
  <2>3. queue[n + i] = queue[n + l]
    BY <1>5, <2>1
  <2>4. QED
    BY <1>1, <2>2, <2>3, Zenon
<1> HIDE DEF f, H, t
<1>10. IsFiniteSet(1 .. n) /\ Cardinality(1 .. n) = n
  BY <1>3, FS_Interval
<1>11. IsFiniteSet(H) /\ Cardinality(H) = n
  <2>1. ExistsBijection(1 .. n, H)
    BY <1>6, Zenon DEF ExistsBijection
  <2>2. QED
    BY <1>10, <2>1, FS_Bijection, Zenon
<1>12. IsFiniteSet(serving \cup H) /\ Cardinality(serving \cup H) = busy + n
  <2>1. IsFiniteSet(serving \cup H)
        /\ Cardinality(serving \cup H)
             = Cardinality(serving) + Cardinality(H) - Cardinality(serving \cap H)
    BY <1>1, <1>11, FS_Union, Zenon
  <2>2. Cardinality(serving \cap H) = 0
    BY <1>7, FS_EmptySet, Zenon
  <2>3. QED
    BY <1>1, <1>3, <1>11, <2>1, <2>2
<1>13. /\ busy + n \in Nat /\ serving \cup H \in SUBSET Request
       /\ \A x \in serving \cup H : x.id <= reqs
  BY <1>1, <1>3, <1>7
<1>14. \A i \in 1 .. Len(t) : t[i] \notin serving \cup H /\ t[i].id <= reqs
  BY <1>5, <1>8, Zenon
<1>15. \A i, l \in 1 .. Len(t) : t[i] = t[l] => i = l
  BY <1>5, <1>9, Zenon
<1>16. PlacesOK(busy + n, t, serving \cup H, reqs)
  BY <1>1, <1>5, <1>12, <1>13, <1>14, <1>15, Zenon DEF PlacesOK
<1>17. QED
  BY <1>2, <1>5, <1>16, Zenon DEF t, H

(* The loops of _serve and on_command leave a place free only if nobody    *)
(* waits.                                                                  *)
LEMMA StartOK ==
  ASSUME NEW s, NEW b \in Int, NEW cap \in Int, ServerOK(s, b)
  PROVE  LET u == StartQueued(s, cap)
         IN /\ ServerOK(u, b) /\ WorkOK(u, cap)
            /\ u.reqs = s.reqs /\ u.open_conns = s.open_conns
<1> DEFINE free == IF s.busy < cap THEN cap - s.busy ELSE 0
           n == IF Len(s.queue) < free THEN Len(s.queue) ELSE free
           S == s.serving \cup {s.queue[i] : i \in 1 .. n}
           q == SubSeq(s.queue, n + 1, Len(s.queue))
           u == StartQueued(s, cap)
<1>1. s \in ServerSet /\ PlacesOK(s.busy, s.queue, s.serving, s.reqs)
      /\ SumsOK(s.c, s.busy + Len(s.queue), b)
  BY Zenon DEF ServerOK
<1>2. s.busy \in Nat /\ s.queue \in Seq(Request)
  BY <1>1, Zenon DEF PlacesOK
<1>3. PICK x \in Nat, y \in Nat : s.busy = x /\ Len(s.queue) = y
  BY <1>2
<1>4. n \in 0 .. Len(s.queue) /\ (y - n > 0 => x + n >= cap)
  BY <1>3
<1>5. u = [s EXCEPT !.busy = s.busy + n, !.serving = S, !.queue = q]
  BY DEF StartQueued
<1> HIDE DEF free, n
<1>6. PlacesOK(s.busy + n, q, S, s.reqs) /\ Len(q) = Len(s.queue) - n
  BY <1>1, <1>4, QueuedServed, Zenon
<1> HIDE DEF S, q, u
<1>7. s.busy + n \in Int /\ q \in Seq(Request) /\ S \in SUBSET Request
  <2>1. s.busy + n \in Nat /\ q \in Seq(Request) /\ S \in SUBSET Request
    BY <1>6, Zenon DEF PlacesOK
  <2>2. QED
    BY <2>1
<1>8. /\ u.busy = s.busy + n /\ u.serving = S /\ u.queue = q /\ u.c = s.c
      /\ u.open_conns = s.open_conns /\ u.reqs = s.reqs /\ u \in ServerSet
  BY <1>1, <1>5, <1>7, Zenon DEF ServerSet
<1>9. SumsOK(u.c, u.busy + Len(u.queue), b)
  <2>1. (x + n) + (y - n) = x + y
    BY <1>3, <1>4
  <2>2. u.busy + Len(u.queue) = s.busy + Len(s.queue)
    BY <1>3, <1>6, <1>8, <2>1, Zenon
  <2>3. QED
    BY <1>1, <1>8, <2>2, Zenon
<1>10. WorkOK(u, cap)
  BY <1>3, <1>4, <1>6, <1>8, Zenon DEF WorkOK
<1>11. ServerOK(u, b)
  BY <1>6, <1>8, <1>9, Zenon DEF ServerOK
<1>12. QED
  BY <1>8, <1>10, <1>11, Zenon DEF u

(* Lines that arrive together are submitted one after the other: what each *)
(* submit keeps in V stays there.                                          *)
LEMMA SubmittedIn ==
  ASSUME NEW s, s.reqs \in Int, NEW k, NEW closes \in Seq(BOOLEAN), NEW V, s \in V,
         \A i \in 1 .. Len(closes) : \A v \in V :
           v.reqs = s.reqs + i - 1 =>
             /\ submit(v, RequestLine(s, k, closes, i)) \in V
             /\ submit(v, RequestLine(s, k, closes, i)).reqs = s.reqs + i
  PROVE  Submitted(s, k, closes, Len(closes)) \in V
<1> DEFINE N == Len(closes)
           line(i) == RequestLine(s, k, closes, i)
           step == [w \in (1 .. N) \X V |-> IF w[2].reqs = s.reqs + w[1] - 1
                                            THEN submit(w[2], line(w[1])) ELSE s]
           after == CHOOSE g : g = [i \in 0 .. N |-> IF i = 0 THEN s ELSE submit(g[i - 1], line(i))]
<1>1. N \in Nat /\ s \in V /\ s.reqs \in Int
  OBVIOUS
<1>2. ASSUME NEW i \in 1 .. N, NEW v \in V, v.reqs = s.reqs + i - 1
      PROVE  submit(v, line(i)) \in V /\ submit(v, line(i)).reqs = s.reqs + i
  BY <1>2, Zenon
<1> HIDE DEF line
<1>3. ASSUME NEW i \in 1 .. N, NEW v \in V
      PROVE  /\ step[<<i, v>>] \in V
             /\ v.reqs = s.reqs + i - 1 => step[<<i, v>>] = submit(v, line(i))
  <2>1. step[<<i, v>>] = IF v.reqs = s.reqs + i - 1 THEN submit(v, line(i)) ELSE s
    BY Zenon
  <2>2. QED
    BY <1>1, <1>2, <2>1, Zenon
<1>4. step \in [(1 .. N) \X V -> V]
  <2>1. ASSUME NEW w \in (1 .. N) \X V PROVE step[w] \in V
    <3> HIDE DEF step, N
    <3>1. PICK i \in 1 .. N, v \in V : w = <<i, v>>
      BY <2>1
    <3>2. QED
      BY <1>3, <3>1, Zenon
  <2>2. QED
    BY <2>1, Zenon
<1> HIDE DEF step, N
<1>5. StepsTo(N, V, s, step)
  BY <1>1, <1>4, Zenon DEF StepsTo
<1>6. PICK g : IteratesTo(g, N, V, s, step)
  BY <1>5, IntervalIteration, Zenon
<1>7. g \in [0 .. N -> V] /\ g[0] = s /\ \A i \in 1 .. N : g[i] = step[<<i, g[i - 1]>>]
  BY <1>6, Zenon DEF IteratesTo
<1>8. \A i \in 1 .. N : i - 1 \in 0 .. N
  BY <1>1
<1>9. 0 .. N \subseteq {i \in 0 .. N : g[i].reqs = s.reqs + i}
  <2> DEFINE S == {i \in 0 .. N : g[i].reqs = s.reqs + i}
  <2>1. 0 \in S
    <3>1. 0 \in 0 .. N /\ s.reqs = s.reqs + 0
      BY <1>1
    <3>2. QED
      BY <1>7, <3>1, Zenon
  <2>2. ASSUME NEW i \in 1 .. N, i - 1 \in S PROVE i \in S
    <3>1. g[i - 1] \in V /\ g[i] = step[<<i, g[i - 1]>>]
      BY <1>7, <1>8, Zenon
    <3>2. g[i - 1].reqs = s.reqs + i - 1
      BY <1>1, <2>2
    <3>3. g[i] = submit(g[i - 1], line(i))
      BY <1>3, <3>1, <3>2, Zenon
    <3>4. g[i].reqs = s.reqs + i
      BY <1>2, <3>1, <3>2, <3>3, ZenonT(60)
    <3>5. i \in 0 .. N
      BY <1>1
    <3>6. QED
      BY <3>4, <3>5, Zenon
  <2> HIDE DEF S
  <2>3. 0 .. N \subseteq S
    BY <1>1, <2>1, <2>2, IntervalSet, Zenon
  <2>4. QED
    BY <2>3, Zenon DEF S
<1>10. ASSUME NEW i \in 1 .. N PROVE g[i] = submit(g[i - 1], line(i))
  <2>1. g[i - 1].reqs = s.reqs + (i - 1)
    BY <1>8, <1>9, Zenon
  <2>2. g[i - 1].reqs = s.reqs + i - 1
    BY <1>1, <2>1
  <2>3. QED
    BY <1>3, <1>7, <1>8, <2>2, Zenon
<1>11. g = [i \in 0 .. N |-> IF i = 0 THEN s ELSE submit(g[i - 1], line(i))]
  <2>1. \A i \in 0 .. N : i = 0 \/ i \in 1 .. N
    BY <1>1
  <2>2. \A i \in 1 .. N : i # 0
    OBVIOUS
  <2>3. \A i \in 0 .. N : g[i] = IF i = 0 THEN s ELSE submit(g[i - 1], line(i))
    BY <1>7, <1>10, <2>1, <2>2, Zenon
  <2>4. QED
    BY <1>7, <2>3, Zenon
<1>12. after = [i \in 0 .. N |-> IF i = 0 THEN s ELSE submit(after[i - 1], line(i))]
  BY <1>11, Zenon
<1>13. Submitted(s, k, closes, N) = after[N]
  BY Zenon DEF Submitted, N, line
<1> HIDE DEF after
<1> DEFINE A == {i \in 0 .. N : after[i] \in V /\ after[i].reqs = s.reqs + i}
<1>14. 0 .. N \subseteq A
  <2>1. 0 \in A
    <3>1. after[0] = s /\ 0 \in 0 .. N
      BY <1>1, <1>12
    <3>2. s.reqs = s.reqs + 0
      BY <1>1
    <3>3. QED
      BY <1>1, <3>1, <3>2, Zenon
  <2>2. ASSUME NEW i \in 1 .. N, i - 1 \in A PROVE i \in A
    <3>1. after[i - 1] \in V /\ after[i - 1].reqs = s.reqs + i - 1 /\ i \in 0 .. N /\ i # 0
      BY <1>1, <2>2
    <3>2. after[i] = submit(after[i - 1], line(i))
      BY <1>12, <3>1, Zenon
    <3>3. QED
      BY <1>2, <3>1, <3>2, ZenonT(60)
  <2> HIDE DEF A
  <2>3. QED
    BY <1>1, <2>1, <2>2, IntervalSet, Zenon
<1>15. N \in 0 .. N
  BY <1>1
<1>16. after[N] \in V
  BY <1>14, <1>15, Zenon
<1>17. QED
  BY <1>13, <1>16, Zenon DEF N

(* submit takes nothing away and lets nobody overtake the queue. *)
Kept(s, t) ==
  /\ s.serving \subseteq t.serving
  /\ Len(s.queue) > 0 => t.serving = s.serving
  /\ Len(s.queue) <= Len(t.queue)
  /\ \A i \in 1 .. Len(s.queue) : t.queue[i] = s.queue[i]

LEMMA SubmitKeeps ==
  ASSUME NEW s, NEW r, NEW b, ServerOK(s, b), WorkOK(s, capacity), capacity \in Int
  PROVE  Kept(s, submit(s, r))
<1> DEFINE t == [s EXCEPT !.c.arrivals = @ + 1, !.reqs = @ + 1]
           u == submit(s, r)
<1>1. s \in ServerSet /\ s.busy \in Nat /\ s.queue \in Seq(Request)
  BY Zenon DEF ServerOK, PlacesOK
<1>2. t \in [busy : Int, queue : Seq(Request), serving : SUBSET Request,
             c : {t.c}, open_conns : Int, reqs : {t.reqs}]
      /\ t.busy = s.busy /\ t.queue = s.queue /\ t.serving = s.serving
  BY <1>1, Zenon DEF ServerSet
<1>3. u = IF t.busy < capacity THEN _start(t, r)
          ELSE IF Len(t.queue) < queue_limit THEN [t EXCEPT !.queue = Append(@, r)]
          ELSE [t EXCEPT !.c.shed = @ + 1]
  BY Zenon DEF submit
<1> HIDE DEF t, u
<1>4. PICK y \in Nat : Len(s.queue) = y
  BY <1>1
<1>5. CASE t.busy < capacity
  <2>1. u.serving = s.serving \cup {r} /\ u.queue = s.queue
    BY <1>2, <1>3, <1>5, Zenon DEF _start
  <2>2. ~(Len(s.queue) > 0)
    BY <1>1, <1>2, <1>5 DEF WorkOK
  <2>3. y <= y
    OBVIOUS
  <2>4. QED
    BY <1>4, <2>1, <2>2, <2>3, Zenon DEF Kept, u
<1>6. CASE ~(t.busy < capacity) /\ Len(t.queue) < queue_limit
  <2>1. u.serving = s.serving /\ u.queue = Append(s.queue, r)
    BY <1>2, <1>3, <1>6, Zenon
  <2>2. /\ Len(s.queue) <= Len(Append(s.queue, r))
        /\ \A i \in 1 .. Len(s.queue) : Append(s.queue, r)[i] = s.queue[i]
    BY <1>1
  <2>3. QED
    BY <2>1, <2>2, Zenon DEF Kept, u
<1>7. CASE ~(t.busy < capacity) /\ ~(Len(t.queue) < queue_limit)
  <2>1. u.serving = s.serving /\ u.queue = s.queue
    BY <1>2, <1>3, <1>7, Zenon
  <2>2. y <= y
    OBVIOUS
  <2>3. QED
    BY <1>4, <2>1, <2>2, Zenon DEF Kept, u
<1>8. QED
  BY <1>5, <1>6, <1>7, Zenon

LEMMA SubmittedOK ==
  ASSUME NEW s, NEW k \in ConnId, NEW closes \in Seq(BOOLEAN), NEW b \in Int,
         capacity \in Int, queue_limit \in Int, ServerOK(s, b), WorkOK(s, capacity)
  PROVE  LET u == Submitted(s, k, closes, Len(closes))
         IN /\ ServerOK(u, b) /\ WorkOK(u, capacity) /\ u.open_conns = s.open_conns
            /\ Kept(s, u)
<1> DEFINE N == Len(closes)
           V == {v \in ServerSet : /\ ServerOK(v, b) /\ WorkOK(v, capacity)
                                   /\ v.open_conns = s.open_conns /\ Kept(s, v)}
           line(i) == RequestLine(s, k, closes, i)
<1>1. s \in V /\ s.reqs \in Int
  <2>1. s \in ServerSet /\ s.reqs \in Int /\ s.queue \in Seq(Request)
    BY Zenon DEF ServerOK, PlacesOK
  <2>2. Len(s.queue) <= Len(s.queue)
    BY <2>1
  <2>3. QED
    BY <2>1, <2>2, Zenon DEF Kept
<1>2. ASSUME NEW i \in 1 .. N, NEW v \in V, v.reqs = s.reqs + i - 1
      PROVE  submit(v, line(i)) \in V /\ submit(v, line(i)).reqs = s.reqs + i
  <2>1. line(i) \in Request /\ line(i).id = s.reqs + i
    BY <1>1 DEF RequestLine, Request
  <2>2. line(i).id = v.reqs + 1 /\ v.reqs + 1 = s.reqs + i
    BY <1>1, <1>2, <2>1
  <2> HIDE DEF line
  <2>3. /\ ServerOK(submit(v, line(i)), b) /\ WorkOK(submit(v, line(i)), capacity)
        /\ submit(v, line(i)).reqs = v.reqs + 1
        /\ submit(v, line(i)).open_conns = v.open_conns
    BY <2>1, <2>2, SubmitOK
  <2>4. submit(v, line(i)) \in ServerSet
    BY <2>3, Zenon DEF ServerOK
  <2>5. Kept(s, submit(v, line(i)))
    <3> DEFINE w == submit(v, line(i))
    <3>1. Kept(v, w) /\ Kept(s, v)
      BY SubmitKeeps, Zenon
    <3>2. s.queue \in Seq(Request) /\ v.queue \in Seq(Request) /\ w.queue \in Seq(Request)
      BY <2>3, Zenon DEF ServerOK, PlacesOK
    <3> HIDE DEF w, V
    <3>3. PICK x \in Nat, y \in Nat, z \in Nat :
            Len(s.queue) = x /\ Len(v.queue) = y /\ Len(w.queue) = z
      BY <3>2
    <3>4. x <= y /\ y <= z
      BY <3>1, <3>3, Zenon DEF Kept
    <3>5. x <= z /\ (x > 0 => y > 0) /\ \A l \in 1 .. x : l \in 1 .. y
      BY <3>4
    <3>6. QED
      BY <3>1, <3>3, <3>5, Zenon DEF Kept, w
  <2>6. QED
    BY <2>2, <2>3, <2>4, <2>5, Zenon
<1> HIDE DEF V
<1>3. Submitted(s, k, closes, Len(closes)) \in V
  BY <1>1, <1>2, SubmittedIn, Zenon
<1>4. QED
  BY <1>3, Zenon DEF V

(* The connections that connection_lost has not been told of *)
Conns(f) == {k \in ConnId : Connected(f[k])}

ConnState == {"none", "open", "closing", "lost"}

svInv ==
  /\ capacity \in Int /\ queue_limit \in Int /\ brought \in Int
  /\ conns \in [ConnId -> ConnState]
  /\ ServerOK(server, brought) /\ WorkOK(server, capacity)
  /\ server.open_conns = Cardinality(Conns(conns))

(* Served: the request leaves its place, and is counted once. *)
LEMMA PlaceFreed ==
  ASSUME NEW busy, NEW queue, NEW serving, NEW reqs, PlacesOK(busy, queue, serving, reqs),
         NEW r \in serving
  PROVE  PlacesOK(busy - 1, queue, serving \ {r}, reqs)
<1>1. /\ busy \in Nat /\ queue \in Seq(Request) /\ serving \in SUBSET Request /\ reqs \in Int
      /\ IsFiniteSet(serving) /\ busy = Cardinality(serving)
      /\ \A q \in serving : q.id <= reqs
      /\ \A i \in 1 .. Len(queue) : queue[i] \notin serving /\ queue[i].id <= reqs
      /\ \A i, l \in 1 .. Len(queue) : queue[i] = queue[l] => i = l
  BY Zenon DEF PlacesOK
<1>2. /\ IsFiniteSet(serving \ {r}) /\ Cardinality(serving \ {r}) = busy - 1
      /\ Cardinality(serving \ {r}) \in Nat
  BY <1>1, FS_RemoveElement, FS_CardinalityType, Zenon
<1>3. serving \ {r} \in SUBSET Request
  BY <1>1, Zenon
<1>4. QED
  BY <1>1, <1>2, <1>3, Zenon DEF PlacesOK

LEMMA WorkCounted ==
  ASSUME NEW c \in CountSet, NEW pending \in Int, NEW b \in Int, SumsOK(c, pending, b),
         NEW failed, NEW heard
  PROVE  LET d == [c EXCEPT ![IF failed THEN "err" ELSE "ok"] = @ + 1,
                            !.abandoned = IF heard THEN @ ELSE @ + 1]
         IN d \in CountSet /\ SumsOK(d, pending - 1, b)
<1>1. PICK a \in Int, o \in Int, e \in Int, h \in Int, g \in Int :
        c = [arrivals |-> a, ok |-> o, err |-> e, shed |-> h, abandoned |-> g]
  BY Zenon DEF CountSet
<1> DEFINE d == [c EXCEPT ![IF failed THEN "err" ELSE "ok"] = @ + 1,
                          !.abandoned = IF heard THEN @ ELSE @ + 1]
           o1 == IF failed THEN o ELSE o + 1
           e1 == IF failed THEN e + 1 ELSE e
           g1 == IF heard THEN g ELSE g + 1
<1>2. d = [arrivals |-> a, ok |-> o1, err |-> e1, shed |-> h, abandoned |-> g1]
  <2>1. CASE failed
    <3>1. (IF failed THEN "err" ELSE "ok") = "err" /\ o1 = o /\ e1 = c.err + 1
          /\ g1 = IF heard THEN c.abandoned ELSE c.abandoned + 1
      BY <1>1, <2>1
    <3>2. d = [[c EXCEPT !.err = e1] EXCEPT !.abandoned = g1]
      BY <3>1, Zenon
    <3> HIDE DEF d, o1, e1, g1
    <3>3. QED
      BY <1>1, <3>1, <3>2, Zenon
  <2>2. CASE ~failed
    <3>1. (IF failed THEN "err" ELSE "ok") = "ok" /\ e1 = e /\ o1 = c.ok + 1
          /\ g1 = IF heard THEN c.abandoned ELSE c.abandoned + 1
      BY <1>1, <2>2
    <3>2. d = [[c EXCEPT !.ok = o1] EXCEPT !.abandoned = g1]
      BY <3>1, Zenon
    <3> HIDE DEF d, o1, e1, g1
    <3>3. QED
      BY <1>1, <3>1, <3>2, Zenon
  <2>3. QED
    BY <2>1, <2>2, Zenon
<1>3. o1 \in Int /\ e1 \in Int /\ g1 \in Int
  OBVIOUS
<1>4. a + b = o + e + h + pending /\ g <= o + e
  BY <1>1 DEF SumsOK
<1>5. a + b = o1 + e1 + h + (pending - 1) /\ g1 <= o1 + e1
  BY <1>4
<1> HIDE DEF d, o1, e1, g1
<1>6. d \in CountSet /\ SumsOK(d, pending - 1, b)
  BY <1>2, <1>3, <1>5 DEF CountSet, SumsOK
<1>7. QED
  BY <1>6, Zenon DEF d

(* A task ends. *)
Served(s, r, failed, heard) ==
  [s EXCEPT !.serving = @ \ {r}, !.busy = @ - 1,
            !.c[IF failed THEN "err" ELSE "ok"] = @ + 1,
            !.c.abandoned = IF heard THEN @ ELSE @ + 1]

LEMMA ServeOK ==
  ASSUME NEW s, NEW b \in Int, ServerOK(s, b), NEW r \in s.serving,
         NEW failed, NEW heard
  PROVE  LET done == Served(s, r, failed, heard)
         IN ServerOK(done, b) /\ done.open_conns = s.open_conns
<1> DEFINE done == Served(s, r, failed, heard)
           d == [s.c EXCEPT ![IF failed THEN "err" ELSE "ok"] = @ + 1,
                            !.abandoned = IF heard THEN @ ELSE @ + 1]
<1>1. /\ s \in ServerSet /\ PlacesOK(s.busy, s.queue, s.serving, s.reqs)
      /\ SumsOK(s.c, s.busy + Len(s.queue), b)
  BY Zenon DEF ServerOK
<1>2. s.busy \in Nat /\ s.queue \in Seq(Request) /\ s.c \in CountSet
  BY <1>1, Zenon DEF PlacesOK, ServerSet
<1>3. PlacesOK(s.busy - 1, s.queue, s.serving \ {r}, s.reqs)
  BY <1>1, PlaceFreed, Zenon
<1>4. s.busy + Len(s.queue) \in Int /\ s.busy - 1 \in Int
      /\ (s.busy - 1) + Len(s.queue) = (s.busy + Len(s.queue)) - 1
  BY <1>2
<1>5. d \in CountSet /\ SumsOK(d, (s.busy - 1) + Len(s.queue), b)
  BY <1>1, <1>2, <1>4, WorkCounted, Zenon
<1>6. done = [s EXCEPT !.serving = s.serving \ {r}, !.busy = s.busy - 1, !.c = d]
  BY <1>1, Zenon DEF ServerSet, Served
<1>7. s.serving \ {r} \in SUBSET Request
  BY <1>3, Zenon DEF PlacesOK
<1> HIDE DEF d, done
<1>8. /\ done \in ServerSet /\ done.busy = s.busy - 1 /\ done.queue = s.queue
      /\ done.serving = s.serving \ {r} /\ done.c = d /\ done.reqs = s.reqs
      /\ done.open_conns = s.open_conns
  BY <1>1, <1>4, <1>5, <1>6, <1>7, Zenon DEF ServerSet
<1>9. ServerOK(done, b)
  BY <1>3, <1>5, <1>8, Zenon DEF ServerOK
<1>10. QED
  BY <1>8, <1>9, Zenon DEF done

(* Closing, or answering on, a connection that is there leaves it there. *)
LEMMA SameConns ==
  ASSUME NEW f \in [ConnId -> ConnState], NEW k \in ConnId, NEW v \in ConnState,
         Connected(v) <=> Connected(f[k])
  PROVE  /\ [f EXCEPT ![k] = v] \in [ConnId -> ConnState]
         /\ Conns([f EXCEPT ![k] = v]) = Conns(f)
  BY Zenon DEF Conns

LEMMA OneConnMore ==
  ASSUME NEW f \in [ConnId -> ConnState], NEW k \in ConnId, ~Connected(f[k]),
         NEW v \in ConnState, Connected(v)
  PROVE  /\ [f EXCEPT ![k] = v] \in [ConnId -> ConnState]
         /\ Cardinality(Conns([f EXCEPT ![k] = v])) = Cardinality(Conns(f)) + 1
<1>1. Conns([f EXCEPT ![k] = v]) = Conns(f) \cup {k} /\ k \notin Conns(f)
  BY DEF Conns
<1>2. IsFiniteSet(Conns(f))
  BY ConnIdAssumption, FS_Subset, Zenon DEF Conns
<1>3. QED
  BY <1>1, <1>2, FS_AddElement, Zenon

LEMMA OneConnLess ==
  ASSUME NEW f \in [ConnId -> ConnState], NEW k \in ConnId, Connected(f[k]),
         NEW v \in ConnState, ~Connected(v)
  PROVE  /\ [f EXCEPT ![k] = v] \in [ConnId -> ConnState]
         /\ Cardinality(Conns([f EXCEPT ![k] = v])) = Cardinality(Conns(f)) - 1
<1>1. Conns([f EXCEPT ![k] = v]) = Conns(f) \ {k} /\ k \in Conns(f)
  BY DEF Conns
<1>2. IsFiniteSet(Conns(f))
  BY ConnIdAssumption, FS_Subset, Zenon DEF Conns
<1>3. QED
  BY <1>1, <1>2, FS_RemoveElement, Zenon

(* The count of connections is of no account to the rest. *)
LEMMA OpenConnsOnly ==
  ASSUME NEW s, NEW b, NEW cap, NEW n \in Int, ServerOK(s, b), WorkOK(s, cap)
  PROVE  LET u == [s EXCEPT !.open_conns = n]
         IN ServerOK(u, b) /\ WorkOK(u, cap) /\ u.open_conns = n
<1> DEFINE u == [s EXCEPT !.open_conns = n]
<1>1. s \in ServerSet
  BY Zenon DEF ServerOK
<1>2. /\ u \in ServerSet /\ u.busy = s.busy /\ u.queue = s.queue /\ u.serving = s.serving
      /\ u.c = s.c /\ u.reqs = s.reqs /\ u.open_conns = n
  BY <1>1, Zenon DEF ServerSet
<1> HIDE DEF u
<1>3. ServerOK(u, b) /\ WorkOK(u, cap)
  BY <1>2, Zenon DEF ServerOK, WorkOK
<1>4. QED
  BY <1>2, <1>3, Zenon DEF u

LEMMA InitServer ==
  ASSUME svInit
  PROVE  svInv
<1> DEFINE s == [busy |-> 0, queue |-> <<>>, serving |-> {}, c |-> NoCount,
                 open_conns |-> 0, reqs |-> 0]
<1>1. capacity \in Int /\ queue_limit \in Int /\ brought = 0 /\ brought \in Int /\ server = s
      /\ conns \in [ConnId -> ConnState] /\ Conns(conns) = {}
  BY CapacityAssumption DEF svInit, ConnState, Conns, Connected
<1>2. /\ s.busy = 0 /\ s.queue = <<>> /\ s.serving = {} /\ s.c = NoCount
      /\ s.open_conns = 0 /\ s.reqs = 0
  OBVIOUS
<1>3. 0 \in Int /\ <<>> \in Seq(Request) /\ {} \in SUBSET Request /\ Len(<<>>) = 0
  OBVIOUS
<1>4. NoCount \in CountSet /\ SumsOK(NoCount, 0 + 0, 0)
  BY DEF NoCount, CountSet, SumsOK
<1>5. PlacesOK(0, <<>>, {}, 0)
  BY <1>3, FS_EmptySet DEF PlacesOK
<1>6. s \in ServerSet
  BY <1>3, <1>4, Zenon DEF ServerSet
<1>7. ServerOK(s, 0) /\ WorkOK(s, capacity)
  <2>1. ~(0 > 0)
    OBVIOUS
  <2> HIDE DEF s
  <2>2. QED
    BY <1>2, <1>3, <1>4, <1>5, <1>6, <2>1, Zenon DEF ServerOK, WorkOK
<1>8. Cardinality({}) = 0
  BY FS_EmptySet
<1> HIDE DEF s
<1>9. QED
  BY <1>1, <1>2, <1>7, <1>8, Zenon DEF svInv

LEMMA NextServer ==
  ASSUME svInv, [svNext]_svvars
  PROVE  svInv'
<1>1. /\ capacity \in Int /\ queue_limit \in Int /\ brought \in Int
      /\ conns \in [ConnId -> ConnState]
      /\ ServerOK(server, brought) /\ WorkOK(server, capacity)
      /\ server.open_conns = Cardinality(Conns(conns))
  BY Zenon DEF svInv
<1>2. server.open_conns \in Int /\ server.serving \in SUBSET Request
  BY <1>1, Zenon DEF ServerOK, ServerSet
<1> SUFFICES /\ capacity' \in Int /\ queue_limit' \in Int /\ brought' \in Int
             /\ conns' \in [ConnId -> ConnState]
             /\ ServerOK(server', brought') /\ WorkOK(server', capacity')
             /\ server'.open_conns = Cardinality(Conns(conns'))
  BY Zenon DEF svInv, ServerOK, WorkOK, Conns
<1>3. ASSUME NEW k \in ConnId, NEW closes \in Batch, NEW bad \in BOOLEAN,
             server_data_received(k, closes, bad)
      PROVE  /\ capacity' \in Int /\ queue_limit' \in Int /\ brought' \in Int
             /\ conns' \in [ConnId -> ConnState]
             /\ ServerOK(server', brought') /\ WorkOK(server', capacity')
             /\ server'.open_conns = Cardinality(Conns(conns'))
  <2>1. closes \in Seq(BOOLEAN)
    BY CapacityAssumption DEF Batch
  <2>2. /\ server' = Submitted(server, k, closes, Len(closes)) /\ conns[k] = "open"
        /\ \E v \in {"open", "closing"} : conns' = [conns EXCEPT ![k] = v]
        /\ capacity' = capacity /\ queue_limit' = queue_limit /\ brought' = brought
    BY <1>3, Zenon DEF server_data_received
  <2>3. /\ ServerOK(server', brought) /\ WorkOK(server', capacity)
        /\ server'.open_conns = server.open_conns
    BY <1>1, <2>1, <2>2, SubmittedOK, Zenon
  <2>4. conns' \in [ConnId -> ConnState] /\ Conns(conns') = Conns(conns)
    <3>1. PICK v \in {"open", "closing"} : conns' = [conns EXCEPT ![k] = v]
      BY <2>2, Zenon
    <3>2. v \in ConnState /\ (Connected(v) <=> Connected(conns[k]))
      BY <2>2, Zenon DEF ConnState, Connected
    <3>3. QED
      BY <1>1, <3>1, <3>2, SameConns, Zenon
  <2>5. QED
    BY <1>1, <2>2, <2>3, <2>4, Zenon
<1>4. ASSUME NEW k \in ConnId, connection_made(k)
      PROVE  /\ capacity' \in Int /\ queue_limit' \in Int /\ brought' \in Int
             /\ conns' \in [ConnId -> ConnState]
             /\ ServerOK(server', brought') /\ WorkOK(server', capacity')
             /\ server'.open_conns = Cardinality(Conns(conns'))
  <2>1. /\ conns[k] = "none" /\ conns' = [conns EXCEPT ![k] = "open"]
        /\ server' = [server EXCEPT !.open_conns = server.open_conns + 1]
        /\ capacity' = capacity /\ queue_limit' = queue_limit /\ brought' = brought
    BY <1>4, Zenon DEF connection_made
  <2>2. ~Connected(conns[k]) /\ Connected("open") /\ "open" \in ConnState
    BY <2>1 DEF Connected, ConnState
  <2>3. /\ conns' \in [ConnId -> ConnState]
        /\ Cardinality(Conns(conns')) = Cardinality(Conns(conns)) + 1
    BY <1>1, <2>1, <2>2, OneConnMore, Zenon
  <2>4. server.open_conns + 1 \in Int
    BY <1>2
  <2>5. /\ ServerOK(server', brought) /\ WorkOK(server', capacity)
        /\ server'.open_conns = server.open_conns + 1
    BY <1>1, <2>1, <2>4, OpenConnsOnly, ZenonT(60)
  <2>6. QED
    BY <1>1, <2>1, <2>3, <2>5, Zenon
<1>5. ASSUME NEW k \in ConnId, _on_idle(k)
      PROVE  /\ capacity' \in Int /\ queue_limit' \in Int /\ brought' \in Int
             /\ conns' \in [ConnId -> ConnState]
             /\ ServerOK(server', brought') /\ WorkOK(server', capacity')
             /\ server'.open_conns = Cardinality(Conns(conns'))
  <2>1. /\ conns[k] = "open" /\ conns' = [conns EXCEPT ![k] = "closing"]
        /\ server' = server
        /\ capacity' = capacity /\ queue_limit' = queue_limit /\ brought' = brought
    BY <1>5, Zenon DEF _on_idle
  <2>2. "closing" \in ConnState /\ (Connected("closing") <=> Connected(conns[k]))
    BY <2>1, Zenon DEF ConnState, Connected
  <2>3. conns' \in [ConnId -> ConnState] /\ Conns(conns') = Conns(conns)
    BY <1>1, <2>1, <2>2, SameConns, Zenon
  <2>4. QED
    BY <1>1, <2>1, <2>3, Zenon
<1>6. ASSUME NEW k \in ConnId, server_connection_lost(k)
      PROVE  /\ capacity' \in Int /\ queue_limit' \in Int /\ brought' \in Int
             /\ conns' \in [ConnId -> ConnState]
             /\ ServerOK(server', brought') /\ WorkOK(server', capacity')
             /\ server'.open_conns = Cardinality(Conns(conns'))
  <2>1. /\ Connected(conns[k]) /\ conns' = [conns EXCEPT ![k] = "lost"]
        /\ server' = [server EXCEPT !.open_conns = server.open_conns - 1]
        /\ capacity' = capacity /\ queue_limit' = queue_limit /\ brought' = brought
    BY <1>6, Zenon DEF server_connection_lost
  <2>2. ~Connected("lost") /\ "lost" \in ConnState
    BY DEF Connected, ConnState
  <2>3. /\ conns' \in [ConnId -> ConnState]
        /\ Cardinality(Conns(conns')) = Cardinality(Conns(conns)) - 1
    BY <1>1, <2>1, <2>2, OneConnLess, Zenon
  <2>4. server.open_conns - 1 \in Int
    BY <1>2
  <2>5. /\ ServerOK(server', brought) /\ WorkOK(server', capacity)
        /\ server'.open_conns = server.open_conns - 1
    BY <1>1, <2>1, <2>4, OpenConnsOnly, Zenon
  <2>6. QED
    BY <1>1, <2>1, <2>3, <2>5, Zenon
<1>7. ASSUME NEW r \in server.serving, NEW failed \in BOOLEAN, _serve(r, failed)
      PROVE  /\ capacity' \in Int /\ queue_limit' \in Int /\ brought' \in Int
             /\ conns' \in [ConnId -> ConnState]
             /\ ServerOK(server', brought') /\ WorkOK(server', capacity')
             /\ server'.open_conns = Cardinality(Conns(conns'))
  <2> DEFINE heard == Connected(conns[r.conn])
             done == Served(server, r, failed, heard)
  <2>1. /\ server' = StartQueued(done, capacity)
        /\ conns' = [conns EXCEPT ![r.conn] = reply(conns[r.conn], r)]
        /\ capacity' = capacity /\ queue_limit' = queue_limit /\ brought' = brought
    BY <1>7, Zenon DEF _serve, Served
  <2> HIDE DEF heard
  <2>3. ServerOK(done, brought) /\ done.open_conns = server.open_conns
    <3>1. \A l, h : LET u == Served(server, r, l, h)
                    IN ServerOK(u, brought) /\ u.open_conns = server.open_conns
      BY <1>1, ServeOK, Zenon
    <3>2. QED
      BY <3>1, Zenon
  <2> HIDE DEF done
  <2>4. /\ ServerOK(server', brought) /\ WorkOK(server', capacity)
        /\ server'.open_conns = server.open_conns
    BY <1>1, <2>1, <2>3, StartOK, Zenon
  <2>5. r.conn \in ConnId
    BY <1>2, Zenon DEF Request
  <2>6. /\ reply(conns[r.conn], r) \in ConnState
        /\ Connected(reply(conns[r.conn], r)) <=> Connected(conns[r.conn])
    BY <1>1, <2>5 DEF reply, Connected, ConnState
  <2>7. conns' \in [ConnId -> ConnState] /\ Conns(conns') = Conns(conns)
    BY <1>1, <2>1, <2>5, <2>6, SameConns, Zenon
  <2>8. QED
    BY <1>1, <2>1, <2>4, <2>7, Zenon
<1>8. ASSUME NEW cap \in 1 .. MaxCapacity, NEW limit \in 0 .. MaxLimit, config(cap, limit)
      PROVE  /\ capacity' \in Int /\ queue_limit' \in Int /\ brought' \in Int
             /\ conns' \in [ConnId -> ConnState]
             /\ ServerOK(server', brought') /\ WorkOK(server', capacity')
             /\ server'.open_conns = Cardinality(Conns(conns'))
  <2>1. cap \in Int /\ limit \in Int
    BY CapacityAssumption
  <2>2. /\ server' = StartQueued(server, cap) /\ conns' = conns
        /\ capacity' = cap /\ queue_limit' = limit /\ brought' = brought
    BY <1>8, Zenon DEF config
  <2>3. /\ ServerOK(server', brought) /\ WorkOK(server', cap)
        /\ server'.open_conns = server.open_conns
    BY <1>1, <2>1, <2>2, StartOK, Zenon
  <2>4. QED
    BY <1>1, <2>1, <2>2, <2>3, Zenon
<1>9. ASSUME server_reset_stats
      PROVE  /\ capacity' \in Int /\ queue_limit' \in Int /\ brought' \in Int
             /\ conns' \in [ConnId -> ConnState]
             /\ ServerOK(server', brought') /\ WorkOK(server', capacity')
             /\ server'.open_conns = Cardinality(Conns(conns'))
  <2>1. /\ server' = [server EXCEPT !.c = NoCount] /\ conns' = conns
        /\ brought' = server.busy + Len(server.queue)
        /\ capacity' = capacity /\ queue_limit' = queue_limit
    BY <1>9, Zenon DEF server_reset_stats
  <2>2. server \in ServerSet /\ PlacesOK(server.busy, server.queue, server.serving, server.reqs)
    BY <1>1, Zenon DEF ServerOK
  <2>3. NoCount \in CountSet
    BY DEF NoCount, CountSet
  <2>4. /\ server' \in ServerSet /\ server'.busy = server.busy /\ server'.queue = server.queue
        /\ server'.serving = server.serving /\ server'.c = NoCount
        /\ server'.reqs = server.reqs /\ server'.open_conns = server.open_conns
    BY <2>1, <2>2, <2>3, Zenon DEF ServerSet
  <2>5. server.busy \in Nat /\ server.queue \in Seq(Request)
    BY <2>2, Zenon DEF PlacesOK
  <2>6. brought' \in Int
    BY <2>1, <2>5
  <2>7. ASSUME NEW p \in Int PROVE SumsOK(NoCount, p, p)
    BY DEF SumsOK, NoCount
  <2>8. SumsOK(server'.c, server'.busy + Len(server'.queue), brought')
    BY <2>1, <2>4, <2>6, <2>7, Zenon
  <2>9. ServerOK(server', brought') /\ WorkOK(server', capacity)
    BY <1>1, <2>2, <2>4, <2>8, Zenon DEF ServerOK, WorkOK
  <2>10. QED
    BY <1>1, <2>1, <2>4, <2>6, <2>9, Zenon
<1>10. CASE UNCHANGED svvars
  BY <1>1, <1>10, Zenon DEF svvars
<1>11. QED
  BY <1>3, <1>4, <1>5, <1>6, <1>7, <1>8, <1>9, <1>10, Zenon DEF svNext

(* The invariant: each request is being served or is queued once, the      *)
(* counters add up, no place is free while a request waits, and open_conns *)
(* is the number of connections (service_server.py).                       *)
THEOREM ServerInvariance == svSpec => []svInv
<1>1. svInit => svInv
  BY InitServer
<1>2. svInv /\ [svNext]_svvars => svInv'
  BY NextServer
<1>3. QED
  BY <1>1, <1>2, PTL DEF svSpec

(* Nothing a client or the control plane does makes the counters drift.    *)
THEOREM ServerAccounted == svSpec => []Accounted
<1>1. ASSUME svInv PROVE Accounted
  <2>1. /\ server \in ServerSet /\ brought \in Int
        /\ PlacesOK(server.busy, server.queue, server.serving, server.reqs)
        /\ SumsOK(server.c, server.busy + Len(server.queue), brought)
        /\ server.open_conns = Cardinality({k \in ConnId : Connected(conns[k])})
    BY <1>1, Zenon DEF svInv, ServerOK, Conns
  <2>2. /\ server.busy \in Nat /\ server.queue \in Seq(Request)
        /\ server.busy = Cardinality(server.serving)
        /\ \A i \in 1 .. Len(server.queue) : server.queue[i] \notin server.serving
    BY <2>1, Zenon DEF PlacesOK
  <2>3. server.serving \cap Range(server.queue) = {}
    <3>1. DOMAIN server.queue = 1 .. Len(server.queue)
      BY <2>2
    <3>2. QED
      BY <2>2, <3>1, Zenon DEF Range
  <2>4. PICK a \in Int, o \in Int, e \in Int, h \in Int, g \in Int :
          server.c = [arrivals |-> a, ok |-> o, err |-> e, shed |-> h, abandoned |-> g]
    BY <2>1, Zenon DEF ServerSet, CountSet
  <2>5. PICK x \in Nat, y \in Nat : server.busy = x /\ Len(server.queue) = y
    BY <2>2
  <2>6. /\ server.c.arrivals = a /\ server.c.ok = o /\ server.c.err = e
        /\ server.c.shed = h /\ server.c.abandoned = g
    BY <2>4
  <2>7. a + brought = o + e + h + (x + y) /\ g <= o + e
    BY <2>1, <2>5, <2>6, Zenon DEF SumsOK
  <2>8. a + brought = o + e + h + x + y
    BY <2>1, <2>7
  <2>9. QED
    BY <2>1, <2>2, <2>3, <2>5, <2>6, <2>7, <2>8, Zenon DEF Accounted
<1>2. QED
  BY <1>1, ServerInvariance, PTL

(* No request waits beside a free place, through lowered and raised        *)
(* capacities.                                                             *)
THEOREM ServerWorkConserving == svSpec => []WorkConserving
<1>1. ASSUME svInv PROVE WorkConserving
  <2>1. server.queue \in Seq(Request) /\ (Len(server.queue) > 0 => server.busy >= capacity)
    BY <1>1, Zenon DEF svInv, ServerOK, WorkOK, PlacesOK
  <2>2. server.queue # <<>> => Len(server.queue) > 0
    BY <2>1
  <2>3. QED
    BY <2>1, <2>2, Zenon DEF WorkConserving
<1>2. QED
  BY <1>1, ServerInvariance, PTL

(* First come, first served, from any state of the server s to the next,   *)
(* t: one that is being served goes on being served, or is done and is     *)
(* counted as such; of the queue the first n start, the others keep their  *)
(* order and their turn, and while there are any nobody else starts.       *)
InOrder(s, t) ==
  /\ \/ s.serving \subseteq t.serving
     \/ \E r \in s.serving :
          /\ s.serving \ {r} \subseteq t.serving /\ r \notin Pending(t)
          /\ t.c.ok + t.c.err = s.c.ok + s.c.err + 1
  /\ \E n \in 0 .. Len(s.queue) :
       /\ {s.queue[i] : i \in 1 .. n} \subseteq t.serving
       /\ n < Len(s.queue) => t.serving \subseteq s.serving \cup {s.queue[i] : i \in 1 .. n}
       /\ Len(s.queue) - n <= Len(t.queue)
       /\ \A i \in 1 .. Len(s.queue) - n : t.queue[i] = s.queue[n + i]

FirstComeFirstServed == [][InOrder(server, server')]_svvars

LEMMA KeptInOrder ==
  ASSUME NEW s, NEW t, s.queue \in Seq(Request), Kept(s, t)
  PROVE  InOrder(s, t)
<1>1. PICK y \in Nat : Len(s.queue) = y
  OBVIOUS
<1>2. 1 .. 0 = {} /\ 0 \in 0 .. y /\ y - 0 = y /\ (0 < y => y > 0) /\ \A i \in 1 .. y : 0 + i = i
  BY <1>1
<1>3. {s.queue[i] : i \in 1 .. 0} = {}
  BY <1>2, Zenon
<1>4. /\ 0 < Len(s.queue) => t.serving \subseteq s.serving \cup {s.queue[i] : i \in 1 .. 0}
      /\ Len(s.queue) - 0 <= Len(t.queue)
      /\ \A i \in 1 .. Len(s.queue) - 0 : t.queue[i] = s.queue[0 + i]
      /\ {s.queue[i] : i \in 1 .. 0} \subseteq t.serving
  BY <1>1, <1>2, <1>3, Zenon DEF Kept
<1>5. \E n \in 0 .. Len(s.queue) :
        /\ {s.queue[i] : i \in 1 .. n} \subseteq t.serving
        /\ n < Len(s.queue) => t.serving \subseteq s.serving \cup {s.queue[i] : i \in 1 .. n}
        /\ Len(s.queue) - n <= Len(t.queue)
        /\ \A i \in 1 .. Len(s.queue) - n : t.queue[i] = s.queue[n + i]
  BY <1>1, <1>2, <1>4, Zenon
<1>6. QED
  BY <1>5, Zenon DEF InOrder, Kept

(* What StartQueued does to the queue *)
Started(serving, queue, u) ==
  \E n \in 0 .. Len(queue) :
    /\ u.serving = serving \cup {queue[i] : i \in 1 .. n}
    /\ Len(u.queue) = Len(queue) - n
    /\ \A i \in 1 .. Len(queue) - n : u.queue[i] = queue[n + i]

LEMMA StartsFirst ==
  ASSUME NEW s, NEW b, NEW cap \in Int, ServerOK(s, b)
  PROVE  /\ StartQueued(s, cap).c = s.c
         /\ Started(s.serving, s.queue, StartQueued(s, cap))
<1> DEFINE free == IF s.busy < cap THEN cap - s.busy ELSE 0
           n == IF Len(s.queue) < free THEN Len(s.queue) ELSE free
           S == s.serving \cup {s.queue[i] : i \in 1 .. n}
           q == SubSeq(s.queue, n + 1, Len(s.queue))
           u == StartQueued(s, cap)
<1>1. s \in ServerSet /\ s.busy \in Nat /\ s.queue \in Seq(Request)
  BY Zenon DEF ServerOK, PlacesOK
<1>2. PICK x \in Nat, y \in Nat : s.busy = x /\ Len(s.queue) = y
  BY <1>1
<1>3. n \in 0 .. y
  BY <1>2
<1>4. u = [s EXCEPT !.busy = s.busy + n, !.serving = S, !.queue = q]
  BY Zenon DEF StartQueued
<1> HIDE DEF free, n
<1>5. \A i \in 1 .. y : s.queue[i] \in Request
  BY <1>1, <1>2
<1>6. Len(q) = y - n /\ \A i \in 1 .. y - n : q[i] = s.queue[n + i]
  BY <1>1, <1>2, <1>3, <1>5, SMTT(60)
<1> HIDE DEF S, q, u
<1>7. u.serving = S /\ u.queue = q /\ u.c = s.c
  BY <1>1, <1>4, Zenon DEF ServerSet
<1>8. QED
  BY <1>2, <1>3, <1>6, <1>7, Zenon DEF S, u, Started

LEMMA StartedInOrder ==
  ASSUME NEW s, NEW b, NEW cap \in Int, ServerOK(s, b)
  PROVE  InOrder(s, StartQueued(s, cap))
<1> DEFINE u == StartQueued(s, cap)
<1>1. PICK n \in 0 .. Len(s.queue) :
        /\ u.serving = s.serving \cup {s.queue[i] : i \in 1 .. n}
        /\ Len(u.queue) = Len(s.queue) - n
        /\ \A i \in 1 .. Len(s.queue) - n : u.queue[i] = s.queue[n + i]
  <2>1. Started(s.serving, s.queue, u)
    BY StartsFirst, Zenon
  <2> HIDE DEF u
  <2>2. QED
    BY <2>1, Zenon DEF Started
<1>2. s.queue \in Seq(Request)
  BY Zenon DEF ServerOK, PlacesOK
<1>3. Len(s.queue) - n <= Len(s.queue) - n
  BY <1>2
<1> HIDE DEF u
<1>4. QED
  BY <1>1, <1>3, Zenon DEF InOrder, u

(* The work of r is counted; the places it and the first of the queue      *)
(* change are theirs alone.                                                *)
LEMMA ServedInOrder ==
  ASSUME NEW s, NEW b \in Int, NEW cap \in Int, ServerOK(s, b), NEW r \in s.serving,
         NEW failed, NEW heard
  PROVE  InOrder(s, StartQueued(Served(s, r, failed, heard), cap))
<1> DEFINE done == Served(s, r, failed, heard)
           d == [s.c EXCEPT ![IF failed THEN "err" ELSE "ok"] = @ + 1,
                            !.abandoned = IF heard THEN @ ELSE @ + 1]
           u == StartQueued(done, cap)
<1>1. /\ s \in ServerSet /\ s.queue \in Seq(Request) /\ s.c \in CountSet
      /\ \A i \in 1 .. Len(s.queue) : s.queue[i] \notin s.serving
  BY Zenon DEF ServerOK, PlacesOK, ServerSet
<1>2. ServerOK(done, b)
  BY ServeOK, Zenon
<1>3. done.serving = s.serving \ {r} /\ done.queue = s.queue /\ done.c = d
  <2>1. done = [s EXCEPT !.serving = s.serving \ {r}, !.busy = s.busy - 1, !.c = d]
    BY <1>1, Zenon DEF ServerSet, Served
  <2> HIDE DEF d, done
  <2>2. QED
    BY <1>1, <2>1, Zenon DEF ServerSet
<1>4. d.ok + d.err = s.c.ok + s.c.err + 1
  <2>1. PICK a \in Int, o \in Int, e \in Int, h \in Int, g \in Int :
          s.c = [arrivals |-> a, ok |-> o, err |-> e, shed |-> h, abandoned |-> g]
    BY <1>1, Zenon DEF CountSet
  <2>2. CASE failed
    BY <2>1, <2>2
  <2>3. CASE ~failed
    BY <2>1, <2>3
  <2>4. QED
    BY <2>2, <2>3, Zenon
<1> HIDE DEF d, done
<1>5. PICK n \in 0 .. Len(s.queue) :
        /\ u.serving = (s.serving \ {r}) \cup {s.queue[i] : i \in 1 .. n}
        /\ Len(u.queue) = Len(s.queue) - n
        /\ \A i \in 1 .. Len(s.queue) - n : u.queue[i] = s.queue[n + i]
  <2>1. Started(s.serving \ {r}, s.queue, u)
    BY <1>2, <1>3, StartsFirst, ZenonT(60)
  <2> HIDE DEF u
  <2>2. QED
    BY <2>1, Zenon DEF Started
<1>6. u.c = d
  BY <1>2, <1>3, StartsFirst, Zenon
<1>7. u.queue \in Seq(Request)
  <2>1. ServerOK(u, b)
    BY <1>2, StartOK, Zenon
  <2>2. QED
    BY <2>1, Zenon DEF ServerOK, PlacesOK
<1>8. PICK y \in Nat : Len(s.queue) = y
  BY <1>1
<1>9. /\ \A i \in 1 .. n : i \in 1 .. y
      /\ \A i \in 1 .. y - n : n + i \in 1 .. y
      /\ y - n <= y - n
  BY <1>8
<1> HIDE DEF u
<1>10. r \notin Pending(u)
  <2>1. DOMAIN u.queue = 1 .. y - n
    BY <1>5, <1>7, <1>8
  <2>2. \A i \in 1 .. y : s.queue[i] # r
    BY <1>1, <1>8, Zenon
  <2>3. r \notin u.serving
    BY <1>5, <1>9, <2>2, Zenon
  <2>4. \A i \in 1 .. y - n : u.queue[i] # r
    BY <1>5, <1>8, <1>9, <2>2, Zenon
  <2>5. QED
    BY <2>1, <2>3, <2>4, Zenon DEF Pending, Range
<1>11. /\ \E q \in s.serving :
            /\ s.serving \ {q} \subseteq u.serving /\ q \notin Pending(u)
            /\ u.c.ok + u.c.err = s.c.ok + s.c.err + 1
       /\ {s.queue[i] : i \in 1 .. n} \subseteq u.serving
       /\ n < Len(s.queue) => u.serving \subseteq s.serving \cup {s.queue[i] : i \in 1 .. n}
       /\ Len(s.queue) - n <= Len(u.queue)
  BY <1>4, <1>5, <1>6, <1>8, <1>9, <1>10, Zenon
<1>12. QED
  BY <1>5, <1>11, Zenon DEF InOrder, u, done

LEMMA NextInOrder ==
  ASSUME svInv, svNext
  PROVE  InOrder(server, server')
<1>1. /\ capacity \in Int /\ queue_limit \in Int /\ brought \in Int
      /\ ServerOK(server, brought) /\ WorkOK(server, capacity)
  BY Zenon DEF svInv
<1>2. server \in ServerSet /\ server.queue \in Seq(Request)
  BY <1>1, Zenon DEF ServerOK, PlacesOK
<1>3. ASSUME server'.queue = server.queue, server'.serving = server.serving
      PROVE  InOrder(server, server')
  <2>1. Len(server.queue) <= Len(server.queue)
    BY <1>2
  <2>2. Kept(server, server')
    BY <1>3, <2>1, Zenon DEF Kept
  <2>3. QED
    BY <1>2, <2>2, KeptInOrder, Zenon
<1>4. ASSUME NEW k \in ConnId, NEW closes \in Batch, NEW bad \in BOOLEAN,
             server_data_received(k, closes, bad)
      PROVE  InOrder(server, server')
  <2>1. closes \in Seq(BOOLEAN)
    BY CapacityAssumption DEF Batch
  <2>2. server' = Submitted(server, k, closes, Len(closes))
    BY <1>4, Zenon DEF server_data_received
  <2>3. Kept(server, server')
    BY <1>1, <2>1, <2>2, SubmittedOK, Zenon
  <2>4. QED
    BY <1>2, <2>3, KeptInOrder, Zenon
<1>5. ASSUME NEW k \in ConnId, connection_made(k) \/ _on_idle(k) \/ server_connection_lost(k)
      PROVE  InOrder(server, server')
  <2>1. server'.queue = server.queue /\ server'.serving = server.serving
    BY <1>2, <1>5, Zenon DEF connection_made, _on_idle, server_connection_lost, ServerSet
  <2>2. QED
    BY <1>3, <2>1, Zenon
<1>6. ASSUME NEW r \in server.serving, NEW failed \in BOOLEAN, _serve(r, failed)
      PROVE  InOrder(server, server')
  <2> DEFINE heard == Connected(conns[r.conn])
  <2>1. server' = StartQueued(Served(server, r, failed, heard), capacity)
    BY <1>6, Zenon DEF _serve, Served
  <2> HIDE DEF heard
  <2>2. \A l, h : InOrder(server, StartQueued(Served(server, r, l, h), capacity))
    BY <1>1, ServedInOrder, Zenon
  <2>3. QED
    BY <2>1, <2>2, Zenon
<1>7. ASSUME NEW cap \in 1 .. MaxCapacity, NEW limit \in 0 .. MaxLimit, config(cap, limit)
      PROVE  InOrder(server, server')
  <2>1. cap \in Int
    BY CapacityAssumption
  <2>2. server' = StartQueued(server, cap)
    BY <1>7, Zenon DEF config
  <2>3. QED
    BY <1>1, <2>1, <2>2, StartedInOrder, Zenon
<1>8. ASSUME server_reset_stats
      PROVE  InOrder(server, server')
  <2>1. server'.queue = server.queue /\ server'.serving = server.serving
    BY <1>2, <1>8, Zenon DEF server_reset_stats, ServerSet
  <2>2. QED
    BY <1>3, <2>1, Zenon
<1>9. QED
  BY <1>4, <1>5, <1>6, <1>7, <1>8, Zenon DEF svNext

(* A request that submit admitted is never lost, counted twice or passed   *)
(* by a later one, whatever closes and whatever is reconfigured meanwhile: *)
(* the safety half of AdmittedIsServed.                                    *)
THEOREM ServedFirstComeFirst == svSpec => FirstComeFirstServed
<1>1. svInv /\ [svNext]_svvars => [InOrder(server, server')]_svvars
  BY NextInOrder
<1>2. QED
  BY <1>1, ServerInvariance, PTL DEF svSpec, FirstComeFirstServed

-----------------------------------------------------------------------------
(* The reconciler *)

SlotRec ==
  [owner : CanvasId \cup {Null},
   phase : {"free", "starting", "serving", "unhealthy", "draining", "crashed", "stopping"},
   proc : Proc, fault : {Null, "crash", "slow", "partition"},
   manual_drain : BOOLEAN, removing : BOOLEAN, partitioned : BOOLEAN, gre : BOOLEAN,
   fifo : Seq({"DRAIN", "UNDRAIN"})]

(* The drain state that the lines f bring a slot to, given what the load   *)
(* balancer has of it (d) and whether that runs (p)                        *)
Will(f, d, p) == IF f # <<>> THEN f[Len(f)] = "DRAIN" ELSE p = "runs" /\ d.draining

(* What holds of one slot at all times; r is the number of restarts.       *)
Good(s, d, p, r) ==
  /\ s \in SlotRec
  /\ s.phase = "free" <=> s.owner = Null
  /\ s.phase = "free" => ~Alive(s) /\ ~Will(s.fifo, d, p)
  /\ s.removing => s.phase \in {"draining", "stopping"} /\ ~s.manual_drain
  /\ s.owner # Null /\ ~s.removing /\ Will(s.fifo, d, p) => s.manual_drain
  /\ s.manual_drain /\ r = 0 => Will(s.fifo, d, p)
  /\ ~s.gre => s.owner # Null /\ s.partitioned
  /\ p # "runs" => s.fifo = <<>>

(* While the bridge acts, the load balancer is as it is. *)
GoodNow(s, d) == Good(s, d, lb_proc, restarts)

Gone == lb_proc # "runs" => restarts # 0

(* admin leaves the last word to the line it writes. *)
LEMMA AdminLine ==
  ASSUME NEW s, NEW d, NEW verb \in {"DRAIN", "UNDRAIN"}, s \in SlotRec, Gone,
         lb_proc # "runs" => s.fifo = <<>>
  PROVE  LET u == admin(s, verb)
         IN /\ u = [s EXCEPT !.fifo = u.fifo]
            /\ u.fifo \in Seq({"DRAIN", "UNDRAIN"})
            /\ verb = "UNDRAIN" => ~Will(u.fifo, d, lb_proc)
            /\ verb = "DRAIN" /\ restarts = 0 => Will(u.fifo, d, lb_proc)
            /\ lb_proc # "runs" => u.fifo = <<>>
<1> DEFINE u == admin(s, verb)
<1>1. s.fifo \in Seq({"DRAIN", "UNDRAIN"})
  BY Zenon DEF SlotRec
<1>2. CASE lb_proc = "runs"
  <2>1. u = [s EXCEPT !.fifo = Append(s.fifo, verb)]
    BY <1>2, Zenon DEF admin
  <2>2. u.fifo = Append(s.fifo, verb)
    BY <2>1, Zenon DEF SlotRec
  <2>3. /\ u.fifo \in Seq({"DRAIN", "UNDRAIN"}) /\ u.fifo # <<>>
        /\ u.fifo[Len(u.fifo)] = verb
    <3> HIDE DEF u
    <3>1. QED
      BY <1>1, <2>2
  <2>4. u = [s EXCEPT !.fifo = u.fifo]
    <3> HIDE DEF u
    <3>1. QED
      BY <2>1, <2>2, Zenon
  <2> HIDE DEF u
  <2>5. QED
    BY <1>2, <2>3, <2>4, Zenon DEF Will, u
<1>3. CASE lb_proc # "runs"
  <2>1. u = s /\ s.fifo = <<>> /\ restarts # 0
    BY <1>3, Zenon DEF admin, Gone
  <2>2. s = [s EXCEPT !.fifo = s.fifo]
    BY Zenon DEF SlotRec
  <2> HIDE DEF u
  <2>3. QED
    BY <1>1, <1>3, <2>1, <2>2, Zenon DEF Will, u
<1>4. QED
  BY <1>2, <1>3, Zenon

LEMMA ClearedFault ==
  ASSUME NEW s, NEW d, GoodNow(s, d), s.owner # Null, ~s.removing
  PROVE  LET t == _clear_fault(s)
         IN /\ GoodNow(t, d) /\ t.owner = s.owner /\ t.removing = s.removing
            /\ t.manual_drain = s.manual_drain
<1> DEFINE t == _clear_fault(s)
<1>1. s \in SlotRec /\ Null \in {Null, "crash", "slow", "partition"}
  BY Zenon DEF GoodNow, Good
<1>2. CASE s.fault = "crash"
  <2>1. t = [[s EXCEPT !.fault = Null] EXCEPT !.proc = "alive", !.phase = "starting"]
    BY <1>2, Zenon DEF _clear_fault, _spawn
  <2>2. /\ t \in SlotRec /\ t.owner = s.owner /\ t.phase = "starting"
        /\ t.manual_drain = s.manual_drain /\ t.removing = s.removing
        /\ t.partitioned = s.partitioned /\ t.gre = s.gre /\ t.fifo = s.fifo
    BY <1>1, <2>1, Zenon DEF SlotRec, Proc
  <2> HIDE DEF t
  <2>3. QED
    BY <2>2, Zenon DEF GoodNow, Good, t
<1>3. CASE s.fault # "crash" /\ s.fault = "partition" /\ s.partitioned
  <2>1. t = [[s EXCEPT !.fault = Null] EXCEPT !.partitioned = FALSE, !.gre = TRUE]
    BY <1>3, Zenon DEF _clear_fault
  <2>2. /\ t \in SlotRec /\ t.owner = s.owner /\ t.phase = s.phase /\ t.proc = s.proc
        /\ t.manual_drain = s.manual_drain /\ t.removing = s.removing
        /\ t.gre = TRUE /\ t.fifo = s.fifo
    BY <1>1, <2>1, Zenon DEF SlotRec
  <2> HIDE DEF t
  <2>3. QED
    BY <2>2, Zenon DEF GoodNow, Good, t
<1>4. CASE s.fault # "crash" /\ ~(s.fault = "partition" /\ s.partitioned)
  <2>1. t = [s EXCEPT !.fault = Null]
    BY <1>4, Zenon DEF _clear_fault
  <2>2. /\ t \in SlotRec /\ t.owner = s.owner /\ t.phase = s.phase /\ t.proc = s.proc
        /\ t.manual_drain = s.manual_drain /\ t.removing = s.removing
        /\ t.partitioned = s.partitioned /\ t.gre = s.gre /\ t.fifo = s.fifo
    BY <1>1, <2>1, Zenon DEF SlotRec
  <2> HIDE DEF t
  <2>3. QED
    BY <2>2, Zenon DEF GoodNow, Good, t
<1>5. QED
  BY <1>2, <1>3, <1>4, Zenon

LEMMA UndrainOK ==
  ASSUME NEW s, NEW d, GoodNow(s, d), Gone, s.owner # Null, ~s.removing
  PROVE  LET u == Acted(s, "undrain") IN GoodNow(u, d) /\ u.owner = s.owner
<1> DEFINE u == Acted(s, "undrain")
           a == admin(s, "UNDRAIN")
           ph == IF s.phase = "draining" THEN "serving" ELSE s.phase
<1>1. s \in SlotRec /\ (lb_proc # "runs" => s.fifo = <<>>) /\ s.phase # "free"
  BY Zenon DEF GoodNow, Good
<1>2. /\ a = [s EXCEPT !.fifo = a.fifo] /\ a.fifo \in Seq({"DRAIN", "UNDRAIN"})
      /\ ~Will(a.fifo, d, lb_proc)
      /\ lb_proc # "runs" => a.fifo = <<>>
  BY <1>1, AdminLine, Zenon
<1>3. u = [a EXCEPT !.manual_drain = FALSE, !.phase = IF @ = "draining" THEN "serving" ELSE @]
  BY Zenon DEF Acted
<1> HIDE DEF a, u
<1>4. a.phase = s.phase
  BY <1>1, <1>2, Zenon DEF SlotRec
<1>5. u = [a EXCEPT !.manual_drain = FALSE, !.phase = ph]
  BY <1>1, <1>2, <1>3, <1>4, Zenon DEF SlotRec
<1>6. ph \in {"free", "starting", "serving", "unhealthy", "draining", "crashed", "stopping"}
      /\ ph # "free"
  BY <1>1, Zenon DEF SlotRec
<1> HIDE DEF ph
<1>7. /\ u \in SlotRec /\ u.owner = s.owner /\ u.phase = ph
      /\ u.manual_drain = FALSE /\ u.removing = s.removing
      /\ u.partitioned = s.partitioned /\ u.gre = s.gre /\ u.fifo = a.fifo
  BY <1>1, <1>2, <1>5, <1>6, Zenon DEF SlotRec
<1>8. GoodNow(u, d)
  BY <1>2, <1>6, <1>7, Zenon DEF GoodNow, Good
<1>9. QED
  BY <1>7, <1>8, Zenon DEF u

(* What the user does to a backend *)
LEMMA ActedOK ==
  ASSUME NEW s, NEW d, GoodNow(s, d), Gone, s.owner # Null, ~s.removing, NEW kind \in Kind
  PROVE  LET u == Acted(s, kind) IN GoodNow(u, d) /\ u.owner = s.owner
<1> DEFINE t == _clear_fault(s)
           u == Acted(s, kind)
<1>1. /\ GoodNow(t, d) /\ t.owner = s.owner /\ t.removing = s.removing
      /\ t.manual_drain = s.manual_drain
  BY ClearedFault, Zenon
<1>2. s \in SlotRec /\ t \in SlotRec /\ (lb_proc # "runs" => s.fifo = <<>>) /\ s.phase # "free"
  BY <1>1, Zenon DEF GoodNow, Good
<1>3. CASE kind = "crash"
  <2> DEFINE p == IF Alive(t) THEN "killed" ELSE t.proc
  <2>1. u = [t EXCEPT !.proc = p, !.phase = "crashed", !.fault = "crash"]
    BY <1>3, Zenon DEF Acted
  <2>2. p \in Proc
    BY <1>2, Zenon DEF SlotRec, Proc
  <2> HIDE DEF t, u, p
  <2>3. /\ u \in SlotRec /\ u.owner = t.owner /\ u.phase = "crashed"
        /\ u.manual_drain = t.manual_drain /\ u.removing = t.removing
        /\ u.partitioned = t.partitioned /\ u.gre = t.gre /\ u.fifo = t.fifo
    BY <1>2, <2>1, <2>2, Zenon DEF SlotRec
  <2>4. GoodNow(u, d) /\ u.owner = s.owner
    BY <1>1, <2>3, Zenon DEF GoodNow, Good
  <2>5. QED
    BY <2>4, Zenon DEF u
<1>4. CASE kind = "slow"
  <2>1. u = [t EXCEPT !.fault = "slow"]
    BY <1>4, Zenon DEF Acted
  <2> HIDE DEF t, u
  <2>2. /\ u \in SlotRec /\ u.owner = t.owner /\ u.phase = t.phase /\ u.proc = t.proc
        /\ u.manual_drain = t.manual_drain /\ u.removing = t.removing
        /\ u.partitioned = t.partitioned /\ u.gre = t.gre /\ u.fifo = t.fifo
    BY <1>2, <2>1, Zenon DEF SlotRec
  <2>3. GoodNow(u, d) /\ u.owner = s.owner
    BY <1>1, <2>2, Zenon DEF GoodNow, Good, Alive
  <2>4. QED
    BY <2>3, Zenon DEF u
<1>5. CASE kind = "partition"
  <2>1. u = [t EXCEPT !.fault = "partition", !.partitioned = TRUE, !.gre = FALSE]
    BY <1>5, Zenon DEF Acted
  <2> HIDE DEF t, u
  <2>2. /\ u \in SlotRec /\ u.owner = t.owner /\ u.phase = t.phase /\ u.proc = t.proc
        /\ u.manual_drain = t.manual_drain /\ u.removing = t.removing
        /\ u.partitioned = TRUE /\ u.fifo = t.fifo
    BY <1>2, <2>1, Zenon DEF SlotRec
  <2>3. GoodNow(u, d) /\ u.owner = s.owner
    BY <1>1, <2>2, Zenon DEF GoodNow, Good, Alive
  <2>4. QED
    BY <2>3, Zenon DEF u
<1>6. CASE kind = "restart"
  BY <1>1, <1>6, Zenon DEF Acted
<1>7. CASE kind = "drain"
  <2> DEFINE a == admin(s, "DRAIN")
             ph == IF s.phase \in {"serving", "unhealthy", "starting"} THEN "draining" ELSE s.phase
  <2>1. /\ a = [s EXCEPT !.fifo = a.fifo] /\ a.fifo \in Seq({"DRAIN", "UNDRAIN"})
        /\ restarts = 0 => Will(a.fifo, d, lb_proc)
        /\ lb_proc # "runs" => a.fifo = <<>>
    BY <1>2, AdminLine, Zenon
  <2>2. u = [a EXCEPT !.manual_drain = TRUE,
                      !.phase = IF @ \in {"serving", "unhealthy", "starting"}
                                THEN "draining" ELSE @]
    BY <1>7, Zenon DEF Acted
  <2> HIDE DEF a, u
  <2>3. a.phase = s.phase
    BY <1>2, <2>1, Zenon DEF SlotRec
  <2>4. u = [a EXCEPT !.manual_drain = TRUE, !.phase = ph]
    BY <1>2, <2>1, <2>2, <2>3, Zenon DEF SlotRec
  <2>5. ph \in {"free", "starting", "serving", "unhealthy", "draining", "crashed", "stopping"}
        /\ ph # "free"
    BY <1>2, Zenon DEF SlotRec
  <2> HIDE DEF ph
  <2>6. /\ u \in SlotRec /\ u.owner = s.owner /\ u.phase = ph
        /\ u.manual_drain = TRUE /\ u.removing = s.removing
        /\ u.partitioned = s.partitioned /\ u.gre = s.gre /\ u.fifo = a.fifo
    BY <1>2, <2>1, <2>4, <2>5, Zenon DEF SlotRec
  <2>7. GoodNow(u, d)
    BY <2>1, <2>5, <2>6, Zenon DEF GoodNow, Good
  <2>8. QED
    BY <2>6, <2>7, Zenon DEF u
<1>8. CASE kind = "undrain"
  BY <1>8, UndrainOK, Zenon
<1>9. QED
  BY <1>3, <1>4, <1>5, <1>6, <1>7, <1>8, KindAssumption, Zenon

LEMMA ResetOK ==
  ASSUME NEW s, NEW d, GoodNow(s, d), Gone
  PROVE  LET u == ResetSlot(s) IN GoodNow(u, d) /\ u.owner = s.owner
<1> DEFINE t == _clear_fault(s)
           u == ResetSlot(s)
<1>1. CASE s.owner = Null \/ s.removing
  BY <1>1, Zenon DEF ResetSlot
<1>2. CASE ~(s.owner = Null \/ s.removing)
  <2>1. u = IF t.manual_drain THEN Acted(t, "undrain") ELSE t
    BY <1>2, Zenon DEF ResetSlot
  <2>2. GoodNow(t, d) /\ t.owner = s.owner /\ t.removing = s.removing
    BY <1>2, ClearedFault, Zenon
  <2> HIDE DEF t, u
  <2>3. GoodNow(Acted(t, "undrain"), d) /\ Acted(t, "undrain").owner = t.owner
    BY <1>2, <2>2, UndrainOK, Zenon
  <2>4. QED
    BY <2>1, <2>2, <2>3, Zenon DEF u
<1>3. QED
  BY <1>1, <1>2, Zenon

(* Told to stop *)
LEMMA StoppedOK ==
  ASSUME NEW s, s \in SlotRec
  PROVE  LET u == _begin_stop(s)
         IN /\ u \in SlotRec /\ u.owner = s.owner /\ u.phase = "stopping"
            /\ u.manual_drain = s.manual_drain /\ u.removing = s.removing
            /\ u.partitioned = s.partitioned /\ u.gre = s.gre /\ u.fifo = s.fifo
<1> DEFINE u == _begin_stop(s)
           p == IF s.proc = "alive" THEN "termed" ELSE s.proc
<1>1. u = [s EXCEPT !.phase = "stopping", !.proc = p]
  BY Zenon DEF _begin_stop
<1>2. p \in Proc
  BY Zenon DEF SlotRec, Proc
<1> HIDE DEF u, p
<1>3. /\ u \in SlotRec /\ u.owner = s.owner /\ u.phase = "stopping"
      /\ u.manual_drain = s.manual_drain /\ u.removing = s.removing
      /\ u.partitioned = s.partitioned /\ u.gre = s.gre /\ u.fifo = s.fifo
  BY <1>1, <1>2, Zenon DEF SlotRec
<1>4. QED
  BY <1>3, Zenon DEF u

LEMMA RemovalOK ==
  ASSUME NEW s, NEW d, GoodNow(s, d), Gone, NEW want
  PROVE  LET u == Removal(s, want) IN GoodNow(u, d) /\ u.owner = s.owner
<1> DEFINE t == [s EXCEPT !.removing = TRUE, !.manual_drain = FALSE]
           u == Removal(s, want)
<1>1. s \in SlotRec /\ (lb_proc # "runs" => s.fifo = <<>>)
  BY Zenon DEF GoodNow, Good
<1>2. /\ t \in SlotRec /\ t.owner = s.owner /\ t.phase = s.phase
      /\ t.manual_drain = FALSE /\ t.removing = TRUE
      /\ t.partitioned = s.partitioned /\ t.gre = s.gre /\ t.fifo = s.fifo
  BY <1>1, Zenon DEF SlotRec
<1>3. CASE s.owner # Null /\ s.owner \notin want /\ ~s.removing /\ Alive(s) /\ s.phase # "crashed"
  <2> DEFINE a == admin(t, "DRAIN")
  <2>1. u = [a EXCEPT !.phase = "draining"]
    BY <1>3, Zenon DEF Removal
  <2> HIDE DEF t, u
  <2>2. /\ a = [t EXCEPT !.fifo = a.fifo] /\ a.fifo \in Seq({"DRAIN", "UNDRAIN"})
        /\ lb_proc # "runs" => a.fifo = <<>>
    BY <1>1, <1>2, AdminLine, Zenon
  <2> HIDE DEF a
  <2>3. /\ u \in SlotRec /\ u.owner = t.owner /\ u.phase = "draining"
        /\ u.manual_drain = t.manual_drain /\ u.removing = t.removing
        /\ u.partitioned = t.partitioned /\ u.gre = t.gre /\ u.fifo = a.fifo
    BY <1>2, <2>1, <2>2, Zenon DEF SlotRec
  <2>4. GoodNow(u, d) /\ u.owner = s.owner
    BY <1>2, <1>3, <2>2, <2>3, Zenon DEF GoodNow, Good
  <2>5. QED
    BY <2>4, Zenon DEF u
<1>4. CASE s.owner # Null /\ s.owner \notin want /\ ~s.removing /\ ~(Alive(s) /\ s.phase # "crashed")
  <2>1. u = _begin_stop(t)
    BY <1>4, Zenon DEF Removal
  <2> HIDE DEF t, u
  <2>2. /\ u \in SlotRec /\ u.owner = t.owner /\ u.phase = "stopping"
        /\ u.manual_drain = t.manual_drain /\ u.removing = t.removing
        /\ u.partitioned = t.partitioned /\ u.gre = t.gre /\ u.fifo = t.fifo
    BY <1>2, <2>1, StoppedOK, Zenon
  <2>3. GoodNow(u, d) /\ u.owner = s.owner
    BY <1>2, <1>4, <2>2, Zenon DEF GoodNow, Good
  <2>4. QED
    BY <2>3, Zenon DEF u
<1>5. CASE s.owner # Null /\ s.owner \in want /\ s.removing /\ s.phase = "draining"
  <2> DEFINE a == admin(s, "UNDRAIN")
  <2>1. u = [a EXCEPT !.removing = FALSE, !.phase = "serving"]
    BY <1>5, Zenon DEF Removal
  <2>2. /\ a = [s EXCEPT !.fifo = a.fifo] /\ a.fifo \in Seq({"DRAIN", "UNDRAIN"})
        /\ ~Will(a.fifo, d, lb_proc)
        /\ lb_proc # "runs" => a.fifo = <<>>
    BY <1>1, AdminLine, Zenon
  <2> HIDE DEF a, u
  <2>3. /\ u \in SlotRec /\ u.owner = s.owner /\ u.phase = "serving"
        /\ u.manual_drain = s.manual_drain /\ u.removing = FALSE
        /\ u.partitioned = s.partitioned /\ u.gre = s.gre /\ u.fifo = a.fifo
    BY <1>1, <2>1, <2>2, Zenon DEF SlotRec
  <2>4. GoodNow(u, d)
    BY <1>5, <2>2, <2>3, Zenon DEF GoodNow, Good
  <2>5. QED
    BY <2>3, <2>4, Zenon DEF u
<1>6. CASE /\ s.owner # Null => s.owner \in want \/ s.removing
           /\ ~(s.owner # Null /\ s.owner \in want /\ s.removing /\ s.phase = "draining")
  BY <1>6, Zenon DEF Removal
<1>7. QED
  BY <1>3, <1>4, <1>5, <1>6, Zenon

LEMMA ProgressOK ==
  ASSUME NEW s, NEW d, GoodNow(s, d), Gone, NEW o, NEW timeUp
  PROVE  LET u == Progress(s, o, timeUp)
         IN GoodNow(u, d) /\ u.owner \in {s.owner, Null}
<1> DEFINE u == Progress(s, o, timeUp)
           phases == {"free", "starting", "serving", "unhealthy", "draining", "crashed", "stopping"}
           crashes == /\ s.phase \in {"starting", "serving", "unhealthy", "draining"}
                      /\ ~Alive(s) /\ ~s.removing
<1>1. s \in SlotRec /\ (lb_proc # "runs" => s.fifo = <<>>) /\ (s.owner # Null => s.phase # "free")
      /\ (~s.gre => s.partitioned)
  BY Zenon DEF GoodNow, Good
<1>2. ASSUME NEW ph \in phases \ {"free"}, u = [s EXCEPT !.phase = ph], s.owner # Null,
             s.removing => ph = "draining"
      PROVE  GoodNow(u, d) /\ u.owner \in {s.owner, Null}
  <2> HIDE DEF u
  <2>1. /\ u \in SlotRec /\ u.owner = s.owner /\ u.phase = ph
        /\ u.manual_drain = s.manual_drain /\ u.removing = s.removing
        /\ u.partitioned = s.partitioned /\ u.gre = s.gre /\ u.fifo = s.fifo
    BY <1>1, <1>2, Zenon DEF SlotRec
  <2>2. ph # "free"
    BY <1>2, Zenon
  <2>3. QED
    BY <1>2, <2>1, <2>2, Zenon DEF GoodNow, Good
<1>3. CASE s.owner # Null /\ crashes
  <2> DEFINE f == IF s.fault = Null THEN "crash" ELSE s.fault
  <2>1. u = [s EXCEPT !.phase = "crashed", !.fault = f]
    BY <1>3, Zenon DEF Progress
  <2>2. f \in {Null, "crash", "slow", "partition"}
    BY <1>1, Zenon DEF SlotRec
  <2> HIDE DEF u, f
  <2>3. /\ u \in SlotRec /\ u.owner = s.owner /\ u.phase = "crashed"
        /\ u.manual_drain = s.manual_drain /\ u.removing = s.removing
        /\ u.partitioned = s.partitioned /\ u.gre = s.gre /\ u.fifo = s.fifo
    BY <1>1, <2>1, <2>2, Zenon DEF SlotRec
  <2>4. GoodNow(u, d) /\ u.owner \in {s.owner, Null}
    BY <1>3, <2>3, Zenon DEF GoodNow, Good
  <2>5. QED
    BY <2>4, Zenon DEF u
<1>4. CASE s.owner # Null /\ ~crashes /\ s.phase = "starting" /\ o.up /\ ~o.draining
  <2> DEFINE ph == IF s.manual_drain THEN "draining" ELSE "serving"
  <2>1. u = [s EXCEPT !.phase = ph]
    BY <1>4, Zenon DEF Progress
  <2>2. ph \in phases \ {"free"} /\ ~s.removing
    BY <1>4, Zenon DEF GoodNow, Good
  <2> HIDE DEF ph, phases
  <2>3. QED
    BY <1>2, <1>4, <2>1, <2>2, Zenon
<1>5. CASE s.owner # Null /\ ~crashes /\ s.phase = "serving" /\ ~o.up
  <2>1. u = [s EXCEPT !.phase = "unhealthy"]
    BY <1>5, Zenon DEF Progress
  <2>2. "unhealthy" \in phases \ {"free"} /\ ~s.removing
    BY <1>5, Zenon DEF GoodNow, Good
  <2> HIDE DEF phases
  <2>3. QED
    BY <1>2, <1>5, <2>1, <2>2, Zenon
<1>6. CASE s.owner # Null /\ ~crashes /\ s.phase = "unhealthy" /\ o.up
  <2>1. u = [s EXCEPT !.phase = "serving"]
    BY <1>6, Zenon DEF Progress
  <2>2. "serving" \in phases \ {"free"} /\ ~s.removing
    BY <1>6, Zenon DEF GoodNow, Good
  <2> HIDE DEF phases
  <2>3. QED
    BY <1>2, <1>6, <2>1, <2>2, Zenon
<1>7. CASE s.owner # Null /\ ~crashes /\ s.phase = "draining" /\ s.removing /\ timeUp
  <2>1. u = _begin_stop(s)
    BY <1>7, Zenon DEF Progress
  <2>2. /\ u \in SlotRec /\ u.owner = s.owner /\ u.phase = "stopping"
        /\ u.manual_drain = s.manual_drain /\ u.removing = s.removing
        /\ u.partitioned = s.partitioned /\ u.gre = s.gre /\ u.fifo = s.fifo
    BY <1>1, <2>1, StoppedOK, Zenon
  <2> HIDE DEF u
  <2>3. GoodNow(u, d) /\ u.owner \in {s.owner, Null}
    BY <1>7, <2>2, Zenon DEF GoodNow, Good
  <2>4. QED
    BY <2>3, Zenon DEF u
<1>8. CASE s.owner # Null /\ ~crashes /\ s.phase = "stopping" /\ Alive(s) /\ timeUp
  <2>1. u = [s EXCEPT !.proc = "killed"]
    BY <1>8, Zenon DEF Progress
  <2> HIDE DEF u
  <2>2. /\ u \in SlotRec /\ u.owner = s.owner /\ u.phase = s.phase
        /\ u.manual_drain = s.manual_drain /\ u.removing = s.removing
        /\ u.partitioned = s.partitioned /\ u.gre = s.gre /\ u.fifo = s.fifo
    BY <1>1, <2>1, Zenon DEF SlotRec, Proc
  <2>3. GoodNow(u, d) /\ u.owner \in {s.owner, Null}
    BY <1>8, <2>2, Zenon DEF GoodNow, Good
  <2>4. QED
    BY <2>3, Zenon DEF u
<1>9. CASE s.owner # Null /\ ~crashes /\ s.phase = "stopping" /\ ~Alive(s) /\ ~o.up
  <2> DEFINE f == admin(s, "UNDRAIN").fifo
  <2>1. u = [Cleared EXCEPT !.fifo = f, !.gre = s.gre \/ s.partitioned]
    BY <1>9, Zenon DEF Progress
  <2>2. /\ f \in Seq({"DRAIN", "UNDRAIN"}) /\ ~Will(f, d, lb_proc)
        /\ lb_proc # "runs" => f = <<>>
    BY <1>1, AdminLine, Zenon
  <2>3. (s.gre \/ s.partitioned) = TRUE
    BY <1>1, Zenon
  <2> HIDE DEF u, f
  <2>4. u = [owner |-> Null, phase |-> "free", proc |-> "none", fault |-> Null,
             manual_drain |-> FALSE, removing |-> FALSE, partitioned |-> FALSE,
             fifo |-> f, gre |-> TRUE]
    BY <2>1, <2>3, Zenon DEF Cleared
  <2>5. /\ u \in SlotRec /\ u.owner = Null /\ u.phase = "free" /\ u.proc = "none"
        /\ u.manual_drain = FALSE /\ u.removing = FALSE /\ u.gre = TRUE /\ u.fifo = f
    BY <2>2, <2>4, Zenon DEF SlotRec, Proc
  <2>6. GoodNow(u, d) /\ u.owner \in {s.owner, Null}
    BY <2>2, <2>5, Zenon DEF GoodNow, Good, Alive
  <2>7. QED
    BY <2>6, Zenon DEF u
<1>10. CASE s.owner = Null \/ u = s
  BY <1>10, Zenon DEF Progress
<1>11. ASSUME s.owner # Null, ~crashes,
              ~(s.phase = "starting" /\ o.up /\ ~o.draining), ~(s.phase = "serving" /\ ~o.up),
              ~(s.phase = "unhealthy" /\ o.up), ~(s.phase = "draining" /\ s.removing /\ timeUp),
              ~(s.phase = "stopping" /\ Alive(s) /\ timeUp),
              ~(s.phase = "stopping" /\ ~Alive(s) /\ ~o.up)
       PROVE  u = s
  BY <1>11, Zenon DEF Progress
<1> HIDE DEF u, crashes
<1>12. QED
  BY <1>3, <1>4, <1>5, <1>6, <1>7, <1>8, <1>9, <1>10, <1>11, ZenonT(60) DEF u

(* All slots together: no two have one owner. *)
AllGood(sl) ==
  /\ sl \in [Slot -> SlotRec]
  /\ \A a, b \in Slot : sl[a].owner = sl[b].owner /\ sl[a].owner # Null => a = b
  /\ \A n \in Slot : GoodNow(sl[n], lb[n])

Memory == [CanvasId -> Slot \cup {0}]

(* What the loop over the wanted ids may have made of the slots *)
Views == {w \in [slots : [Slot -> SlotRec], memory : Memory] : AllGood(w.slots)}

(* What is done to each slot on its own gives no owner to it. *)
LEMMA EachSlot ==
  ASSUME NEW sl, AllGood(sl), NEW to,
         to = [n \in Slot |-> to[n]],
         \A n \in Slot : GoodNow(to[n], lb[n]) /\ to[n].owner \in {sl[n].owner, Null}
  PROVE  AllGood(to)
<1>1. \A n \in Slot : to[n] \in SlotRec
  BY Zenon DEF GoodNow, Good
<1>2. to \in [Slot -> SlotRec]
  BY <1>1, Zenon
<1>3. ASSUME NEW a \in Slot, NEW b \in Slot, to[a].owner = to[b].owner, to[a].owner # Null
      PROVE  a = b
  <2>1. to[a].owner = sl[a].owner /\ to[b].owner = sl[b].owner
    BY <1>3, Zenon
  <2>2. QED
    BY <1>3, <2>1, Zenon DEF AllGood
<1>4. QED
  BY <1>2, <1>3, Zenon DEF AllGood

LEMMA PlacedOK ==
  ASSUME NEW w \in Views, NEW i \in CanvasId
  PROVE  Placed(w, i) \in Views
<1> DEFINE free == {n \in Slot : w.slots[n].phase = "free"}
           n == IF w.memory[i] \in free THEN w.memory[i]
                ELSE CHOOSE k \in free : \A l \in free : k <= l
           u == _spawn([w.slots[n] EXCEPT !.owner = i])
           sl == [w.slots EXCEPT ![n] = u]
<1>1. AllGood(w.slots) /\ w.memory \in Memory
  BY Zenon DEF Views
<1>2. CASE free = {} \/ \E k \in Slot : w.slots[k].owner = i
  BY <1>2, Zenon DEF Placed
<1>3. CASE ~(free = {} \/ \E k \in Slot : w.slots[k].owner = i)
  <2>1. Placed(w, i) = [slots |-> sl, memory |-> [w.memory EXCEPT ![i] = n]]
    BY <1>3, Zenon DEF Placed
  <2>2. n \in free
    <3>1. free \subseteq Nat /\ free # {}
      BY <1>3, SlotAssumption, Zenon
    <3> HIDE DEF free
    <3>2. \E k \in free : \A l \in free : k <= l
      BY <3>1, LeastNatural, Zenon
    <3>3. QED
      BY <3>2, Zenon
  <2> HIDE DEF n
  <2>3. n \in Slot /\ w.slots[n].phase = "free" /\ GoodNow(w.slots[n], lb[n])
        /\ w.slots[n] \in SlotRec /\ i # Null /\ i \in CanvasId \cup {Null}
    BY <1>1, <2>2, NullAssumption, Zenon DEF AllGood, CanvasId
  <2> HIDE DEF free
  <2>4. u = [[w.slots[n] EXCEPT !.owner = i] EXCEPT !.proc = "alive", !.phase = "starting"]
    BY Zenon DEF _spawn
  <2> DEFINE s == w.slots[n]
  <2>5. /\ u \in SlotRec /\ u.owner = i /\ u.phase = "starting"
        /\ u.manual_drain = s.manual_drain /\ u.removing = s.removing
        /\ u.partitioned = s.partitioned /\ u.gre = s.gre /\ u.fifo = s.fifo
    <3> HIDE DEF u
    <3>1. QED
      BY <2>3, <2>4, Zenon DEF SlotRec, Proc
  <2> HIDE DEF u
  <2>6. GoodNow(u, lb[n])
    BY <2>3, <2>5, Zenon DEF GoodNow, Good
  <2>7. sl \in [Slot -> SlotRec] /\ sl[n] = u /\ \A k \in Slot \ {n} : sl[k] = w.slots[k]
    BY <1>1, <2>3, <2>5, Zenon DEF AllGood
  <2> HIDE DEF sl
  <2>8. ASSUME NEW a \in Slot, NEW b \in Slot, sl[a].owner = sl[b].owner, sl[a].owner # Null
        PROVE  a = b
    <3>1. CASE a = n /\ b # n
      BY <1>3, <2>5, <2>7, <2>8, <3>1, Zenon
    <3>2. CASE b = n /\ a # n
      BY <1>3, <2>5, <2>7, <2>8, <3>2, Zenon
    <3>3. CASE a # n /\ b # n
      BY <1>1, <2>7, <2>8, <3>3, Zenon DEF AllGood
    <3>4. QED
      BY <3>1, <3>2, <3>3, Zenon
  <2>9. AllGood(sl)
    BY <1>1, <2>6, <2>7, <2>8, Zenon DEF AllGood
  <2>10. [w.memory EXCEPT ![i] = n] \in Memory
    BY <1>1, <2>3, Zenon DEF Memory
  <2> DEFINE m == [w.memory EXCEPT ![i] = n]
             v == [slots |-> sl, memory |-> m]
  <2> HIDE DEF m
  <2>11. v.slots = sl /\ v \in [slots : [Slot -> SlotRec], memory : Memory]
    BY <2>7, <2>10, Zenon DEF m
  <2> HIDE DEF v
  <2>12. Placed(w, i) = v
    BY <2>1, Zenon DEF v, m
  <2>13. QED
    BY <2>9, <2>11, <2>12, Zenon DEF Views
<1>4. QED
  BY <1>2, <1>3, Zenon

LEMMA PlacedUpToOK ==
  ASSUME NEW start \in Views, NEW want \in SUBSET CanvasId
  PROVE  PlacedUpTo(start, want, MaxId) \in Views
<1> DEFINE step == [w \in (1 .. MaxId) \X Views |->
                      IF w[1] \in want THEN Placed(w[2], w[1]) ELSE w[2]]
           after == CHOOSE g : g = [i \in 0 .. MaxId |->
                                      IF i = 0 THEN start
                                      ELSE IF i \in want THEN Placed(g[i - 1], i)
                                      ELSE g[i - 1]]
<1>1. MaxId \in Nat /\ CanvasId = 1 .. MaxId
  BY ReconcilerAssumption, Zenon DEF CanvasId
<1>2. ASSUME NEW i \in 1 .. MaxId, NEW v \in Views
      PROVE  /\ step[<<i, v>>] = IF i \in want THEN Placed(v, i) ELSE v
             /\ step[<<i, v>>] \in Views
  <2>1. step[<<i, v>>] = IF i \in want THEN Placed(v, i) ELSE v
    BY Zenon
  <2> HIDE DEF step
  <2>2. Placed(v, i) \in Views
    BY <1>1, PlacedOK, Zenon
  <2>3. QED
    BY <2>1, <2>2, Zenon
<1>3. step \in [(1 .. MaxId) \X Views -> Views]
  <2>1. ASSUME NEW w \in (1 .. MaxId) \X Views PROVE step[w] \in Views
    <3> HIDE DEF step
    <3>1. PICK i \in 1 .. MaxId, v \in Views : w = <<i, v>>
      BY <2>1
    <3>2. QED
      BY <1>2, <3>1, Zenon
  <2>2. QED
    BY <2>1, Zenon
<1> HIDE DEF step
<1>4. StepsTo(MaxId, Views, start, step)
  BY <1>1, <1>3, Zenon DEF StepsTo
<1>5. PICK g : IteratesTo(g, MaxId, Views, start, step)
  BY <1>4, IntervalIteration, Zenon
<1>6. /\ g \in [0 .. MaxId -> Views] /\ g[0] = start
      /\ \A i \in 1 .. MaxId : g[i] = step[<<i, g[i - 1]>>]
  BY <1>5, Zenon DEF IteratesTo
<1>7. \A i \in 1 .. MaxId : i - 1 \in 0 .. MaxId /\ i # 0 /\ i \in 0 .. MaxId
  BY <1>1
<1>8. \A i \in 1 .. MaxId : g[i] = IF i \in want THEN Placed(g[i - 1], i) ELSE g[i - 1]
  BY <1>2, <1>6, <1>7, Zenon
<1>9. g = [i \in 0 .. MaxId |-> IF i = 0 THEN start
                                ELSE IF i \in want THEN Placed(g[i - 1], i)
                                ELSE g[i - 1]]
  <2>1. \A i \in 0 .. MaxId : i = 0 \/ i \in 1 .. MaxId
    BY <1>1
  <2>2. QED
    BY <1>6, <1>7, <1>8, <2>1, Zenon
<1>10. after = [i \in 0 .. MaxId |-> IF i = 0 THEN start
                                     ELSE IF i \in want THEN Placed(after[i - 1], i)
                                     ELSE after[i - 1]]
  BY <1>9, Zenon
<1>11. PlacedUpTo(start, want, MaxId) = after[MaxId]
  BY Zenon DEF PlacedUpTo
<1> HIDE DEF after
<1> DEFINE A == {i \in 0 .. MaxId : after[i] \in Views}
<1>12. 0 \in A
  <2>1. 0 \in 0 .. MaxId
    BY <1>1
  <2>2. after[0] = start
    BY <1>10, <2>1, Zenon
  <2>3. QED
    BY <2>1, <2>2, Zenon
<1>13. ASSUME NEW i \in 1 .. MaxId, i - 1 \in A PROVE i \in A
  <2>1. after[i - 1] \in Views /\ i \in 0 .. MaxId /\ i # 0
    BY <1>7, <1>13, Zenon
  <2>2. after[i] = IF i \in want THEN Placed(after[i - 1], i) ELSE after[i - 1]
    BY <1>10, <2>1, Zenon
  <2>3. Placed(after[i - 1], i) \in Views
    BY <1>1, <2>1, PlacedOK, Zenon
  <2>4. QED
    BY <2>1, <2>2, <2>3, Zenon
<1> HIDE DEF A
<1>14. 0 .. MaxId \subseteq A
  BY <1>1, <1>12, <1>13, IntervalSet, Zenon
<1>15. MaxId \in 0 .. MaxId
  BY <1>1
<1>16. QED
  BY <1>11, <1>14, <1>15, Zenon DEF A

LEMMA SteppedOK ==
  ASSUME NEW from, AllGood(from), Gone, slot_memory \in Memory,
         NEW want \in SUBSET CanvasId, NEW timeUp
  PROVE  LET w == Stepped(from, want, timeUp) IN AllGood(w.slots) /\ w.memory \in Memory
<1> DEFINE removed == [n \in Slot |-> Removal(from[n], want)]
           start == [slots |-> removed, memory |-> slot_memory]
           placed == PlacedUpTo(start, want, MaxId)
           up(n) == n \in timeUp /\ from[n].removing /\ from[n].phase = placed.slots[n].phase
           to == [n \in Slot |-> Progress(placed.slots[n], obs[n], up(n))]
<1>1. AllGood(removed)
  <2>1. \A n \in Slot : GoodNow(removed[n], lb[n]) /\ removed[n].owner \in {from[n].owner, Null}
    BY RemovalOK, ZenonT(60) DEF AllGood
  <2>2. removed = [n \in Slot |-> removed[n]]
    BY Zenon
  <2> HIDE DEF removed
  <2>3. QED
    BY <2>1, <2>2, EachSlot, Zenon
<1> HIDE DEF removed
<1>2. start \in Views
  <2>1. removed \in [Slot -> SlotRec]
    BY <1>1, Zenon DEF AllGood
  <2>2. start.slots = removed /\ start \in [slots : [Slot -> SlotRec], memory : Memory]
    BY <2>1, Zenon
  <2> HIDE DEF start
  <2>3. QED
    BY <1>1, <2>2, Zenon DEF Views
<1> HIDE DEF start
<1>3. placed \in Views
  BY <1>2, PlacedUpToOK, Zenon
<1>4. AllGood(placed.slots) /\ placed.memory \in Memory
  BY <1>3, Zenon DEF Views
<1>5. Stepped(from, want, timeUp) = [slots |-> to, memory |-> placed.memory]
  BY Zenon DEF Stepped, removed, start
<1> HIDE DEF placed, up
<1>6. AllGood(to)
  <2>1. \A n \in Slot : GoodNow(placed.slots[n], lb[n])
    BY <1>4, Zenon DEF AllGood
  <2>2. \A n \in Slot : to[n] = Progress(placed.slots[n], obs[n], up(n))
    BY Zenon
  <2>3. to = [n \in Slot |-> to[n]]
    BY Zenon
  <2> HIDE DEF to
  <2>4. \A n \in Slot : GoodNow(to[n], lb[n]) /\ to[n].owner \in {placed.slots[n].owner, Null}
    <3>1. \A n \in Slot : \A o, t : LET u == Progress(placed.slots[n], o, t)
                                   IN /\ GoodNow(u, lb[n])
                                      /\ u.owner \in {placed.slots[n].owner, Null}
      BY <2>1, ProgressOK, Zenon
    <3>2. QED
      BY <2>2, <3>1, Zenon
  <2>5. QED
    BY <1>4, <2>3, <2>4, EachSlot, Zenon
<1> HIDE DEF to
<1> DEFINE w == Stepped(from, want, timeUp)
<1>7. w.slots = to /\ w.memory = placed.memory
  <2> DEFINE v == [slots |-> to, memory |-> placed.memory]
  <2>1. v.slots = to /\ v.memory = placed.memory
    OBVIOUS
  <2>2. w = v
    BY <1>5, Zenon
  <2> HIDE DEF v, w
  <2>3. QED
    BY <2>1, <2>2, Zenon
<1> HIDE DEF w
<1>8. QED
  BY <1>4, <1>6, <1>7, Zenon DEF w

LbView == [Slot -> [up : BOOLEAN, draining : BOOLEAN]]

Fleet(sl, l, p, r) ==
  /\ sl \in [Slot -> SlotRec]
  /\ \A a, b \in Slot : sl[a].owner = sl[b].owner /\ sl[a].owner # Null => a = b
  /\ \A n \in Slot : Good(sl[n], l[n], p, r)

Env(want, memory, l, p, r) ==
  /\ want \in SUBSET CanvasId /\ memory \in Memory /\ l \in LbView
  /\ r \in Nat /\ (p # "runs" => r # 0)

rcInv ==
  /\ Env(active, slot_memory, lb, lb_proc, restarts)
  /\ Fleet(slots, lb, lb_proc, restarts)

LEMMA InitFleet ==
  ASSUME rcInit
  PROVE  rcInv
<1>1. /\ active = {} /\ slots = [n \in Slot |-> Cleared] /\ slot_memory = [i \in CanvasId |-> 0]
      /\ lb = [n \in Slot |-> [up |-> FALSE, draining |-> FALSE]]
      /\ lb_proc = "runs" /\ restarts = 0
  BY Zenon DEF rcInit
<1>2. Env(active, slot_memory, lb, lb_proc, restarts)
  BY <1>1 DEF Env, LbView, Memory
<1>3. <<>> \in Seq({"DRAIN", "UNDRAIN"})
  OBVIOUS
<1>4. /\ Cleared \in SlotRec /\ Cleared.owner = Null /\ Cleared.phase = "free"
      /\ Cleared.proc = "none" /\ Cleared.manual_drain = FALSE /\ Cleared.removing = FALSE
      /\ Cleared.gre = TRUE /\ Cleared.fifo = <<>>
  BY <1>3, Zenon DEF Cleared, SlotRec, Proc
<1>5. ASSUME NEW d, d.draining = FALSE PROVE Good(Cleared, d, lb_proc, restarts)
  BY <1>1, <1>4, <1>5, Zenon DEF Good, Will, Alive
<1>6. ASSUME NEW n \in Slot PROVE slots[n] = Cleared /\ lb[n].draining = FALSE
  BY <1>1
<1>7. slots \in [Slot -> SlotRec]
  BY <1>1, <1>4, Zenon
<1>8. QED
  BY <1>2, <1>4, <1>5, <1>6, <1>7, Zenon DEF rcInv, Fleet

(* A step of the reconciler from slots that are as they should be *)
LEMMA StepKeeps ==
  ASSUME rcInv, NEW from, AllGood(from), NEW want \in SUBSET CanvasId, StepFrom(from, want)
  PROVE  rcInv'
<1>1. PICK timeUp : StepAt(from, want, timeUp)
  BY Zenon DEF StepFrom
<1> DEFINE w == Stepped(from, want, timeUp)
<1>2. /\ slots' = w.slots /\ slot_memory' = w.memory /\ active' = want
      /\ lb' = lb /\ lb_proc' = lb_proc /\ restarts' = restarts
  BY <1>1, Zenon DEF StepAt, balancer
<1>3. Gone /\ slot_memory \in Memory
  BY Zenon DEF rcInv, Env, Gone
<1>4. AllGood(w.slots) /\ w.memory \in Memory
  BY <1>3, SteppedOK, Zenon
<1> HIDE DEF w
<1>5. Env(active', slot_memory', lb', lb_proc', restarts')
  BY <1>2, <1>4, Zenon DEF rcInv, Env
<1>6. Fleet(slots', lb', lb_proc', restarts')
  BY <1>2, <1>4, Zenon DEF AllGood, GoodNow, Fleet
<1>7. QED
  BY <1>5, <1>6, Zenon DEF rcInv

LEMMA NextFleet ==
  ASSUME rcInv, [rcNext]_rcvars
  PROVE  rcInv'
<1>1. /\ Env(active, slot_memory, lb, lb_proc, restarts)
      /\ Fleet(slots, lb, lb_proc, restarts)
  BY Zenon DEF rcInv
<1>2. AllGood(slots) /\ Gone /\ active \in SUBSET CanvasId
  BY <1>1, Zenon DEF AllGood, GoodNow, Fleet, Env, Gone
<1>3. /\ slots \in [Slot -> SlotRec] /\ lb \in LbView
      /\ \A a, b \in Slot : slots[a].owner = slots[b].owner /\ slots[a].owner # Null => a = b
      /\ \A n \in Slot : Good(slots[n], lb[n], lb_proc, restarts) /\ slots[n] \in SlotRec
  BY <1>1, Zenon DEF Fleet, Env, Good
<1>4. ASSUME Step PROVE rcInv'
  BY <1>2, <1>4, StepKeeps, Zenon DEF Step
<1>5. ASSUME NEW want \in SUBSET CanvasId, SetDesired(want) PROVE rcInv'
  BY <1>2, <1>5, StepKeeps, Zenon DEF SetDesired
<1>6. ASSUME NEW n \in Slot, NEW kind \in Kind, Action(n, kind) PROVE rcInv'
  <2> DEFINE u == Acted(slots[n], kind)
             from == [slots EXCEPT ![n] = u]
  <2>1. slots[n].owner \in active /\ ~slots[n].removing /\ StepFrom(from, active)
    BY <1>6, Zenon DEF Action
  <2>2. slots[n].owner # Null
    BY <1>2, <2>1, NullAssumption, Zenon DEF CanvasId
  <2>3. GoodNow(u, lb[n]) /\ u.owner = slots[n].owner
    BY <1>2, <2>1, <2>2, ActedOK, Zenon DEF AllGood
  <2> HIDE DEF u
  <2>4. from = [k \in Slot |-> from[k]] /\ from[n] = u /\ \A k \in Slot \ {n} : from[k] = slots[k]
    BY <1>3, Zenon
  <2> HIDE DEF from
  <2>5. ASSUME NEW k \in Slot
        PROVE  GoodNow(from[k], lb[k]) /\ from[k].owner \in {slots[k].owner, Null}
    <3>1. CASE k = n
      BY <2>3, <2>4, <3>1, Zenon
    <3>2. CASE k # n
      BY <1>2, <2>4, <3>2, Zenon DEF AllGood
    <3>3. QED
      BY <3>1, <3>2, Zenon
  <2>6. AllGood(from)
    BY <1>2, <2>4, <2>5, EachSlot, Zenon
  <2>7. QED
    BY <1>2, <2>1, <2>6, StepKeeps, Zenon
<1>7. ASSUME Reset PROVE rcInv'
  <2> DEFINE after == [n \in Slot |-> ResetSlot(slots[n])]
  <2>1. /\ slots' = after /\ active' = active /\ slot_memory' = slot_memory
        /\ lb' = lb /\ lb_proc' = lb_proc /\ restarts' = restarts
    BY <1>7, Zenon DEF Reset, balancer
  <2>2. \A n \in Slot : GoodNow(after[n], lb[n]) /\ after[n].owner \in {slots[n].owner, Null}
    BY <1>2, ResetOK, Zenon DEF AllGood
  <2>3. after = [n \in Slot |-> after[n]]
    BY Zenon
  <2> HIDE DEF after
  <2>4. AllGood(after)
    BY <1>2, <2>2, <2>3, EachSlot, Zenon
  <2>5. Env(active', slot_memory', lb', lb_proc', restarts')
        /\ Fleet(slots', lb', lb_proc', restarts')
    BY <1>1, <2>1, <2>4, Zenon DEF AllGood, GoodNow, Fleet
  <2>6. QED
    BY <2>5, Zenon DEF rcInv
<1>8. ASSUME Poll \/ UNCHANGED rcvars PROVE rcInv'
  <2>1. /\ slots' = slots /\ active' = active /\ slot_memory' = slot_memory
        /\ lb' = lb /\ lb_proc' = lb_proc /\ restarts' = restarts
    BY <1>8, Zenon DEF Poll, rcvars, balancer
  <2>2. QED
    BY <1>1, <2>1, Zenon DEF rcInv
<1>9. ASSUME StopLb PROVE rcInv'
  <2>1. /\ slots' = [n \in Slot |-> [slots[n] EXCEPT !.fifo = <<>>]] /\ lb_proc' = "gone"
        /\ restarts' = restarts + 1
        /\ active' = active /\ slot_memory' = slot_memory /\ lb' = lb
    BY <1>9, Zenon DEF StopLb
  <2>2. restarts' \in Nat /\ restarts' # 0
    BY <1>1, <2>1 DEF Env
  <2>3. Env(active', slot_memory', lb', lb_proc', restarts')
    BY <1>1, <2>1, <2>2, Zenon DEF Env
  <2>4. <<>> \in Seq({"DRAIN", "UNDRAIN"})
    OBVIOUS
  <2>5. ASSUME NEW n \in Slot
        PROVE  /\ slots'[n] \in SlotRec /\ slots'[n].owner = slots[n].owner
               /\ Good(slots'[n], lb'[n], lb_proc', restarts')
    <3> DEFINE s == slots[n]
               u == slots'[n]
    <3>1. u = [s EXCEPT !.fifo = <<>>]
      BY <2>1, Zenon
    <3> HIDE DEF u
    <3>2. /\ u \in SlotRec /\ u.owner = s.owner /\ u.phase = s.phase /\ u.proc = s.proc
          /\ u.manual_drain = s.manual_drain /\ u.removing = s.removing
          /\ u.partitioned = s.partitioned /\ u.gre = s.gre /\ u.fifo = <<>>
      BY <1>3, <2>4, <3>1, ZenonT(60) DEF SlotRec
    <3>3. Good(s, lb[n], lb_proc, restarts) /\ lb_proc' # "runs"
      BY <1>3, <2>1, Zenon
    <3> HIDE DEF s
    <3>4. Good(u, lb'[n], lb_proc', restarts')
      BY <2>2, <3>2, <3>3, Zenon DEF Good, Will, Alive
    <3>5. QED
      BY <3>2, <3>4, Zenon DEF u, s
  <2>6. slots' \in [Slot -> SlotRec]
    BY <2>1, <2>5, Zenon
  <2>7. Fleet(slots', lb', lb_proc', restarts')
    BY <1>3, <2>5, <2>6, Zenon DEF Fleet
  <2>8. QED
    BY <2>3, <2>7, Zenon DEF rcInv
<1>10. ASSUME StartLb PROVE rcInv'
  <2>1. /\ lb_proc = "gone" /\ lb_proc' = "runs"
        /\ lb' = [n \in Slot |-> [up |-> TRUE, draining |-> FALSE]]
        /\ slots' = slots /\ active' = active /\ slot_memory' = slot_memory
        /\ restarts' = restarts
    BY <1>10, Zenon DEF StartLb
  <2>2. lb' \in LbView /\ \A n \in Slot : lb'[n].draining = FALSE
    BY <2>1 DEF LbView
  <2>3. Env(active', slot_memory', lb', lb_proc', restarts') /\ restarts # 0
    BY <1>1, <2>1, <2>2, Zenon DEF Env
  <2>4. ASSUME NEW n \in Slot PROVE Good(slots'[n], lb'[n], lb_proc', restarts')
    <3>1. Good(slots[n], lb[n], lb_proc, restarts) /\ lb_proc # "runs" /\ lb'[n].draining = FALSE
      BY <1>3, <2>1, <2>2, Zenon
    <3>2. QED
      BY <2>1, <2>3, <3>1, Zenon DEF Good, Will
  <2>5. Fleet(slots', lb', lb_proc', restarts')
    BY <1>3, <2>1, <2>4, Zenon DEF Fleet
  <2>6. QED
    BY <2>3, <2>5, Zenon DEF rcInv
<1>11. ASSUME NEW n \in Slot, Exits(n) PROVE rcInv'
  <2>1. /\ Alive(slots[n]) /\ slots' = [slots EXCEPT ![n] = [slots[n] EXCEPT !.proc = "dead"]]
        /\ active' = active /\ slot_memory' = slot_memory
        /\ lb' = lb /\ lb_proc' = lb_proc /\ restarts' = restarts
    BY <1>11, Zenon DEF Exits, balancer
  <2> DEFINE s == slots[n]
             u == [s EXCEPT !.proc = "dead"]
  <2>2. /\ u \in SlotRec /\ u.owner = s.owner /\ u.phase = s.phase /\ u.proc = "dead"
        /\ u.manual_drain = s.manual_drain /\ u.removing = s.removing
        /\ u.partitioned = s.partitioned /\ u.gre = s.gre /\ u.fifo = s.fifo
    BY <1>3, ZenonT(60) DEF SlotRec, Proc
  <2> HIDE DEF u
  <2>3. Good(u, lb[n], lb_proc, restarts)
    BY <1>3, <2>2, Zenon DEF Good, Alive
  <2>4. slots' \in [Slot -> SlotRec] /\ slots'[n] = u /\ \A k \in Slot \ {n} : slots'[k] = slots[k]
    BY <1>3, <2>1, <2>2, Zenon DEF u
  <2>5. ASSUME NEW k \in Slot
        PROVE  slots'[k].owner = slots[k].owner /\ Good(slots'[k], lb[k], lb_proc, restarts)
    <3>1. CASE k = n
      BY <2>2, <2>3, <2>4, <3>1, Zenon
    <3>2. CASE k # n
      BY <1>3, <2>4, <3>2, Zenon
    <3>3. QED
      BY <3>1, <3>2, Zenon
  <2>6. Fleet(slots', lb', lb_proc', restarts')
    <3>1. \A a, b \in Slot : slots'[a].owner = slots'[b].owner /\ slots'[a].owner # Null => a = b
      BY <1>3, <2>5, Zenon
    <3>2. \A k \in Slot : Good(slots'[k], lb'[k], lb_proc', restarts')
      BY <2>1, <2>5, Zenon
    <3>3. QED
      BY <2>4, <3>1, <3>2, Zenon DEF Fleet
  <2>7. Env(active', slot_memory', lb', lb_proc', restarts')
    BY <1>1, <2>1, Zenon
  <2>8. QED
    BY <2>6, <2>7, Zenon DEF rcInv
<1>12. ASSUME NEW n \in Slot, Probe(n) PROVE rcInv'
  <2>1. /\ lb' = [lb EXCEPT ![n] = [lb[n] EXCEPT !.up = Alive(slots[n])]]
        /\ active' = active /\ slot_memory' = slot_memory
        /\ slots' = slots /\ lb_proc' = lb_proc /\ restarts' = restarts
    BY <1>12, Zenon DEF Probe
  <2>2. Alive(slots[n]) \in BOOLEAN
    BY SMTT(30) DEF Alive
  <2>3. lb' \in LbView /\ \A k \in Slot : lb'[k].draining = lb[k].draining
    BY <1>3, <2>1, <2>2 DEF LbView
  <2>4. ASSUME NEW k \in Slot PROVE Good(slots[k], lb'[k], lb_proc, restarts)
    <3>1. Good(slots[k], lb[k], lb_proc, restarts) /\ lb'[k].draining = lb[k].draining
      BY <1>3, <2>3, Zenon
    <3>2. QED
      BY <3>1, Zenon DEF Good, Will
  <2>5. Fleet(slots', lb', lb_proc', restarts')
    BY <1>3, <2>1, <2>4, Zenon DEF Fleet
  <2>6. Env(active', slot_memory', lb', lb_proc', restarts')
    BY <1>1, <2>1, <2>3, ZenonT(60) DEF Env
  <2>7. QED
    BY <2>5, <2>6, Zenon DEF rcInv
<1>13. ASSUME NEW n \in Slot, ReadLine(n) PROVE rcInv'
  <2> DEFINE s == slots[n]
             f == slots[n].fifo
             u == [s EXCEPT !.fifo = Tail(f)]
             d == [lb[n] EXCEPT !.draining = (Head(f) = "DRAIN")]
  <2>1. /\ lb_proc = "runs" /\ f # <<>> /\ slots' = [slots EXCEPT ![n] = u]
        /\ lb' = [lb EXCEPT ![n] = d]
        /\ active' = active /\ slot_memory' = slot_memory
        /\ lb_proc' = lb_proc /\ restarts' = restarts
    BY <1>13, Zenon DEF ReadLine
  <2>2. f \in Seq({"DRAIN", "UNDRAIN"}) /\ lb[n] \in [up : BOOLEAN, draining : BOOLEAN]
    BY <1>3, Zenon DEF SlotRec, LbView
  <2>3. /\ Tail(f) \in Seq({"DRAIN", "UNDRAIN"})
        /\ Tail(f) = <<>> => f[Len(f)] = Head(f)
        /\ Tail(f) # <<>> => Tail(f)[Len(Tail(f))] = f[Len(f)]
    <3> HIDE DEF f
    <3>1. PICK m \in Nat \ {0} : Len(f) = m
      BY <2>1, <2>2
    <3>2. Tail(f) \in Seq({"DRAIN", "UNDRAIN"}) /\ Len(Tail(f)) = m - 1 /\ Head(f) = f[1]
      BY <2>1, <2>2, <3>1
    <3>3. ASSUME NEW t \in Seq({"DRAIN", "UNDRAIN"}) PROVE t = <<>> <=> Len(t) = 0
      OBVIOUS
    <3>4. m # 1 => Tail(f)[m - 1] = f[m]
      BY <2>1, <2>2, <3>1
    <3>5. m - 1 = 0 <=> m = 1
      OBVIOUS
    <3>6. QED
      BY <3>1, <3>2, <3>3, <3>4, <3>5, Zenon
  <2>4. /\ d \in [up : BOOLEAN, draining : BOOLEAN]
        /\ d.draining = (Head(f) = "DRAIN")
    <3> HIDE DEF f
    <3>1. (Head(f) = "DRAIN") \in BOOLEAN
      OBVIOUS
    <3>2. QED
      BY <2>2, <3>1, Zenon
  <2> HIDE DEF d
  <2>5. Will(Tail(f), d, lb_proc) <=> Will(f, lb[n], lb_proc)
    <3> HIDE DEF f
    <3>1. QED
      BY <2>1, <2>3, <2>4, Zenon DEF Will
  <2>6. /\ u \in SlotRec /\ u.owner = s.owner /\ u.phase = s.phase /\ u.proc = s.proc
        /\ u.manual_drain = s.manual_drain /\ u.removing = s.removing
        /\ u.partitioned = s.partitioned /\ u.gre = s.gre /\ u.fifo = Tail(f)
    BY <1>3, <2>3, Zenon DEF SlotRec
  <2> HIDE DEF u
  <2>7. Good(u, d, lb_proc, restarts)
    BY <1>3, <2>1, <2>5, <2>6, ZenonT(60) DEF Good, Alive
  <2>8. slots' \in [Slot -> SlotRec] /\ slots'[n] = u /\ \A k \in Slot \ {n} : slots'[k] = slots[k]
    BY <1>3, <2>1, <2>6, Zenon
  <2>9. lb' \in LbView /\ lb'[n] = d /\ \A k \in Slot \ {n} : lb'[k] = lb[k]
    BY <1>3, <2>1, <2>4, Zenon DEF LbView
  <2>10. ASSUME NEW k \in Slot
         PROVE  slots'[k].owner = slots[k].owner /\ Good(slots'[k], lb'[k], lb_proc, restarts)
    <3>1. CASE k = n
      BY <2>6, <2>7, <2>8, <2>9, <3>1, ZenonT(60)
    <3>2. CASE k # n
      BY <1>3, <2>8, <2>9, <3>2, ZenonT(60)
    <3>3. QED
      BY <3>1, <3>2, Zenon
  <2>11. Fleet(slots', lb', lb_proc', restarts')
    <3>1. \A a, b \in Slot : slots'[a].owner = slots'[b].owner /\ slots'[a].owner # Null => a = b
      BY <1>3, <2>10, Zenon
    <3>2. \A k \in Slot : Good(slots'[k], lb'[k], lb_proc', restarts')
      BY <2>1, <2>10, Zenon
    <3>3. QED
      BY <2>8, <3>1, <3>2, Zenon DEF Fleet
  <2>12. Env(active', slot_memory', lb', lb_proc', restarts')
    BY <1>1, <2>1, <2>9, ZenonT(60) DEF Env
  <2>13. QED
    BY <2>11, <2>12, Zenon DEF rcInv
<1>14. QED
  BY <1>4, <1>5, <1>6, <1>7, <1>8, <1>9, <1>10, <1>11, <1>12, <1>13, ZenonT(60) DEF rcNext

(* The invariant: every slot is good, whatever the load balancer has read  *)
(* of the lines sent to it; no two slots have one owner; and the load      *)
(* balancer is gone only once a restart has been asked for                 *)
(* (reconciler.py).                                                        *)
THEOREM FleetInvariance == rcSpec => []rcInv
<1>1. rcInit => rcInv
  BY InitFleet
<1>2. rcInv /\ [rcNext]_rcvars => rcInv'
  BY NextFleet
<1>3. QED
  BY <1>1, <1>2, PTL DEF rcSpec

(* For any slots and any canvas: no order of commands, ticks and exits     *)
(* gives a backend two slots or leaves a process in a free one.            *)
THEOREM SlotsAreOwnedOnce == rcSpec => []OneSlotEach
<1>1. ASSUME rcInv PROVE OneSlotEach
  BY <1>1, Zenon DEF rcInv, Fleet, Good, OneSlotEach
<1>2. QED
  BY <1>1, FleetInvariance, PTL

(* For any slots and any canvas: the drain state and the tunnel of a slot  *)
(* are what its owner's fate calls for, at every length of the pipe.       *)
THEOREM SlotsAreAsMeant == rcSpec => []SlotIsAsMeant
<1>1. ASSUME rcInv PROVE SlotIsAsMeant
  <2>1. ASSUME NEW n \in Slot
        PROVE  /\ slots[n].phase = "free" => ~Draining(n)
               /\ slots[n].owner # Null /\ ~slots[n].removing /\ Draining(n)
                    => slots[n].manual_drain
               /\ slots[n].manual_drain /\ restarts = 0 => Draining(n)
               /\ ~slots[n].gre => slots[n].owner # Null /\ slots[n].partitioned
    <3>1. Good(slots[n], lb[n], lb_proc, restarts)
      BY <1>1, Zenon DEF rcInv, Fleet
    <3>2. Draining(n) <=> Will(slots[n].fifo, lb[n], lb_proc)
      BY Zenon DEF Draining, Will
    <3>3. QED
      BY <3>1, <3>2, Zenon DEF Good
  <2>2. QED
    BY <2>1, Zenon DEF SlotIsAsMeant
<1>2. QED
  BY <1>1, FleetInvariance, PTL
=============================================================================
