-------------------------- MODULE RilEventProofs ---------------------------
(***************************************************************************)
(* Proofs about module RilEvent for any number of threads and timers, any  *)
(* delays, any pipe capacity and any of the modelled faults: the lists     *)
(* stay sorted and disjoint, no wake-up is lost, no callback runs early,   *)
(* and the event loop implements the timer service.                        *)
(***************************************************************************)
EXTENDS RilEvent, SequenceTheorems, FiniteSetTheorems, TLAPS

-----------------------------------------------------------------------------
(* The list operations: addToList in the middle and at the end, the two    *)
(* parts the walk of processTimeouts makes, and firePending's removal of   *)
(* the first event.                                                        *)

LEMMA InsertAtItems ==
  ASSUME NEW S, NEW s \in Seq(S), NEW e \in S, NEW k \in 1 .. Len(s) + 1
  PROVE  /\ InsertAt(s, k, e) \in Seq(S)
         /\ Len(InsertAt(s, k, e)) = Len(s) + 1
         /\ \A i \in 1 .. k - 1 : InsertAt(s, k, e)[i] = s[i]
         /\ InsertAt(s, k, e)[k] = e
         /\ \A i \in k + 1 .. Len(s) + 1 : InsertAt(s, k, e)[i] = s[i - 1]
  <1>. DEFINE pre == SubSeq(s, 1, k - 1)
              post == SubSeq(s, k, Len(s))
  <1>. Len(s) \in Nat
    OBVIOUS
  <1>1. /\ pre \in Seq(S)
        /\ Len(pre) = k - 1
        /\ \A i \in 1 .. k - 1 : pre[i] = s[i]
    <2>1. \A i \in 1 .. k - 1 : s[i] \in S
      OBVIOUS
    <2>. QED BY <2>1, SubSeqProperties
  <1>2. /\ post \in Seq(S)
        /\ Len(post) = Len(s) - k + 1
        /\ \A i \in 1 .. Len(s) - k + 1 : post[i] = s[k + i - 1]
    <2>1. \A i \in k .. Len(s) : s[i] \in S
      OBVIOUS
    <2>. QED BY <2>1, SubSeqProperties
  <1>3. /\ <<e>> \in Seq(S)
        /\ Len(<<e>>) = 1
        /\ <<e>>[1] = e
    OBVIOUS
  <1>. HIDE DEF pre, post
  <1>4. /\ pre \o <<e>> \in Seq(S)
        /\ Len(pre \o <<e>>) = k
        /\ \A i \in 1 .. k : (pre \o <<e>>)[i] = IF i < k THEN s[i] ELSE e
    BY <1>1, <1>3, ConcatProperties
  <1>. DEFINE two == pre \o <<e>>
              all == two \o post
  <1>7. InsertAt(s, k, e) = all
    BY DEF InsertAt, pre, post
  <1>. HIDE DEF two
  <1>5. /\ all \in Seq(S)
        /\ Len(all) = Len(s) + 1
        /\ \A i \in 1 .. Len(s) + 1 : all[i] = IF i <= k THEN two[i] ELSE post[i - k]
    <2>1. Len(two) = k /\ two \in Seq(S)
      BY <1>4 DEF two
    <2>2. /\ all \in Seq(S)
          /\ Len(all) = k + Len(post)
          /\ \A i \in 1 .. k + Len(post) : all[i] = IF i <= k THEN two[i] ELSE post[i - k]
      BY <1>2, <2>1, ConcatProperties
    <2>3. k + Len(post) = Len(s) + 1
      BY <1>2
    <2>. QED BY <2>2, <2>3
  <1>6. \A i \in k + 1 .. Len(s) + 1 : post[i - k] = s[i - 1]
    <2>. SUFFICES ASSUME NEW i \in k + 1 .. Len(s) + 1
                  PROVE  post[i - k] = s[i - 1]
      OBVIOUS
    <2>1. i - k \in 1 .. Len(s) - k + 1 /\ k + (i - k) - 1 = i - 1
      OBVIOUS
    <2>. QED BY <2>1, <1>2
  <1>. HIDE DEF all
  <1>8. \A i \in 1 .. Len(s) + 1 : all[i] = IF i < k THEN s[i] ELSE IF i = k THEN e ELSE s[i - 1]
    <2>. SUFFICES ASSUME NEW i \in 1 .. Len(s) + 1
                  PROVE  all[i] = IF i < k THEN s[i] ELSE IF i = k THEN e ELSE s[i - 1]
      OBVIOUS
    <2>1. CASE i <= k
      <3>1. all[i] = two[i] /\ i \in 1 .. k
        BY <2>1, <1>5
      <3>. QED BY <3>1, <1>4 DEF two
    <2>2. CASE i > k
      <3>1. all[i] = post[i - k] /\ i \in k + 1 .. Len(s) + 1
        BY <2>2, <1>5
      <3>. QED BY <3>1, <1>6
    <2>. QED BY <2>1, <2>2
  <1>9. \A i \in 1 .. k - 1 : i \in 1 .. Len(s) + 1 /\ i < k
    OBVIOUS
  <1>10. \A i \in k + 1 .. Len(s) + 1 : i \in 1 .. Len(s) + 1 /\ ~(i < k) /\ i # k
    OBVIOUS
  <1>11. k \in 1 .. Len(s) + 1 /\ ~(k < k)
    OBVIOUS
  <1>. QED BY <1>5, <1>7, <1>8, <1>9, <1>10, <1>11

(* The items of a sequence, by their indices. *)
LEMMA ToSetItems ==
  ASSUME NEW S, NEW s \in Seq(S)
  PROVE  /\ ToSet(s) = {s[i] : i \in 1 .. Len(s)}
         /\ ToSet(s) \subseteq S
         /\ IsInjective(s) <=> \A i, j \in 1 .. Len(s) : s[i] = s[j] => i = j
  BY DEF ToSet, IsInjective

(* The empty list has none. *)
LEMMA NoItems == \A s : s = <<>> => ToSet(s) = {}
  <1>1. DOMAIN <<>> = {}
    BY EmptySeq
  <1>2. \A s : DOMAIN s = {} => ToSet(s) = {}
    BY DEF ToSet
  <1>. QED BY <1>1, <1>2

LEMMA InsertAtSet ==
  ASSUME NEW S, NEW s \in Seq(S), NEW e \in S, NEW k \in 1 .. Len(s) + 1
  PROVE  /\ ToSet(InsertAt(s, k, e)) = ToSet(s) \cup {e}
         /\ IsInjective(s) /\ e \notin ToSet(s) => IsInjective(InsertAt(s, k, e))
  <1>. DEFINE t == InsertAt(s, k, e)
              back(i) == IF i < k THEN i ELSE i - 1
              ahead(i) == IF i < k THEN i ELSE i + 1
  <1>. Len(s) \in Nat
    OBVIOUS
  <1>1. /\ t \in Seq(S)
        /\ Len(t) = Len(s) + 1
        /\ \A i \in 1 .. k - 1 : t[i] = s[i]
        /\ t[k] = e
        /\ \A i \in k + 1 .. Len(s) + 1 : t[i] = s[i - 1]
    BY InsertAtItems
  <1>. HIDE DEF t
  <1>2. t[k] = e
    BY <1>1
  <1>3. \A i \in (1 .. Len(t)) \ {k} : back(i) \in 1 .. Len(s) /\ t[i] = s[back(i)]
    BY <1>1
  <1>4. \A i \in 1 .. Len(s) : ahead(i) \in (1 .. Len(t)) \ {k} /\ t[ahead(i)] = s[i]
    BY <1>1
  <1>5. ToSet(t) = {t[i] : i \in 1 .. Len(t)} /\ ToSet(s) = {s[i] : i \in 1 .. Len(s)}
    BY <1>1, ToSetItems
  <1>6. \A i, j \in (1 .. Len(t)) \ {k} : back(i) = back(j) => i = j
    BY <1>1
  <1>7. k \in 1 .. Len(t)
    BY <1>1
  <1>. HIDE DEF back, ahead
  <1>8. ToSet(t) = ToSet(s) \cup {e}
    <2>1. ToSet(t) \subseteq ToSet(s) \cup {e}
      BY <1>2, <1>3, <1>5
    <2>2. ToSet(s) \subseteq ToSet(t)
      BY <1>4, <1>5
    <2>3. e \in ToSet(t)
      BY <1>2, <1>5, <1>7
    <2>. QED BY <2>1, <2>2, <2>3
  <1>9. ASSUME IsInjective(s), e \notin ToSet(s)
        PROVE  IsInjective(t)
    <2>1. \A i, j \in 1 .. Len(s) : s[i] = s[j] => i = j
      BY <1>9, ToSetItems
    <2>2. \A i \in (1 .. Len(t)) \ {k} : t[i] # e
      BY <1>3, <1>5, <1>9
    <2>3. \A i, j \in 1 .. Len(t) : t[i] = t[j] => i = j
      BY <2>1, <2>2, <1>2, <1>3, <1>6
    <2>. QED BY <2>3, <1>1, ToSetItems
  <1>. QED BY <1>8, <1>9 DEF t

LEMMA ConcatSet ==
  ASSUME NEW S, NEW s \in Seq(S), NEW t \in Seq(S)
  PROVE  /\ s \o t \in Seq(S)
         /\ ToSet(s \o t) = ToSet(s) \cup ToSet(t)
         /\ IsInjective(s) /\ IsInjective(t) /\ ToSet(s) \cap ToSet(t) = {}
            => IsInjective(s \o t)
  <1>. DEFINE u == s \o t
  <1>. Len(s) \in Nat /\ Len(t) \in Nat
    OBVIOUS
  <1>1. /\ u \in Seq(S)
        /\ Len(u) = Len(s) + Len(t)
        /\ \A i \in 1 .. Len(s) + Len(t) :
              u[i] = IF i <= Len(s) THEN s[i] ELSE t[i - Len(s)]
    BY ConcatProperties
  <1>. HIDE DEF u
  <1>2. \A i \in 1 .. Len(s) : i \in 1 .. Len(u) /\ u[i] = s[i]
    BY <1>1
  <1>3. \A i \in 1 .. Len(t) : Len(s) + i \in 1 .. Len(u) /\ u[Len(s) + i] = t[i]
    <2>. SUFFICES ASSUME NEW i \in 1 .. Len(t)
                  PROVE  Len(s) + i \in 1 .. Len(u) /\ u[Len(s) + i] = t[i]
      OBVIOUS
    <2>1. /\ Len(s) + i \in 1 .. Len(s) + Len(t)
          /\ ~(Len(s) + i <= Len(s))
          /\ (Len(s) + i) - Len(s) = i
      OBVIOUS
    <2>. QED BY <2>1, <1>1
  <1>4. \A i \in 1 .. Len(u) : \/ i \in 1 .. Len(s) /\ u[i] = s[i]
                               \/ i - Len(s) \in 1 .. Len(t) /\ u[i] = t[i - Len(s)]
    BY <1>1
  <1>5. /\ ToSet(u) = {u[i] : i \in 1 .. Len(u)}
        /\ ToSet(s) = {s[i] : i \in 1 .. Len(s)}
        /\ ToSet(t) = {t[i] : i \in 1 .. Len(t)}
    <2>1. ToSet(u) = {u[i] : i \in 1 .. Len(u)}
      BY <1>1, ToSetItems
    <2>. QED BY <2>1, ToSetItems
  <1>6. ToSet(u) = ToSet(s) \cup ToSet(t)
    <2>1. ToSet(u) \subseteq ToSet(s) \cup ToSet(t)
      BY <1>4, <1>5
    <2>2. ToSet(s) \subseteq ToSet(u)
      BY <1>2, <1>5
    <2>3. ToSet(t) \subseteq ToSet(u)
      BY <1>3, <1>5
    <2>. QED BY <2>1, <2>2, <2>3
  <1>7. ASSUME IsInjective(s), IsInjective(t), ToSet(s) \cap ToSet(t) = {}
        PROVE  IsInjective(u)
    <2>1. \A i, j \in 1 .. Len(s) : s[i] = s[j] => i = j
      BY <1>7, ToSetItems
    <2>2. \A i, j \in 1 .. Len(t) : t[i] = t[j] => i = j
      BY <1>7, ToSetItems
    <2>3. \A i \in 1 .. Len(s), j \in 1 .. Len(t) : s[i] # t[j]
      BY <1>5, <1>7
    <2>4. ASSUME NEW i \in 1 .. Len(u), NEW j \in 1 .. Len(u), u[i] = u[j]
          PROVE  i = j
      <3>1. CASE i \in 1 .. Len(s) /\ u[i] = s[i] /\ j \in 1 .. Len(s) /\ u[j] = s[j]
        BY <3>1, <2>1, <2>4
      <3>2. CASE /\ i - Len(s) \in 1 .. Len(t) /\ u[i] = t[i - Len(s)]
                 /\ j - Len(s) \in 1 .. Len(t) /\ u[j] = t[j - Len(s)]
        <4>1. i - Len(s) = j - Len(s)
          BY <3>2, <2>2, <2>4
        <4>. QED BY <4>1
      <3>. QED BY <3>1, <3>2, <1>4, <2>3, <2>4
    <2>. QED BY <2>4, <1>1, ToSetItems
  <1>. QED BY <1>1, <1>6, <1>7 DEF u

(* Cutting a sequence in two. *)
LEMMA Parts ==
  ASSUME NEW S, NEW s \in Seq(S), NEW n \in 0 .. Len(s)
  PROVE  /\ SubSeq(s, 1, n) \in Seq(S)
         /\ Len(SubSeq(s, 1, n)) = n
         /\ \A i \in 1 .. n : SubSeq(s, 1, n)[i] = s[i]
         /\ SubSeq(s, n + 1, Len(s)) \in Seq(S)
         /\ Len(SubSeq(s, n + 1, Len(s))) = Len(s) - n
         /\ \A i \in 1 .. Len(s) - n : SubSeq(s, n + 1, Len(s))[i] = s[n + i]
  <1>. Len(s) \in Nat
    OBVIOUS
  <1>1. \A i \in 1 .. n : s[i] \in S
    OBVIOUS
  <1>2. \A i \in n + 1 .. Len(s) : s[i] \in S
    OBVIOUS
  <1>. QED BY <1>1, <1>2, SubSeqProperties

(* The two parts of an injective sequence. *)
LEMMA Split ==
  ASSUME NEW S, NEW s \in Seq(S), NEW n \in 0 .. Len(s), IsInjective(s)
  PROVE  /\ IsInjective(SubSeq(s, 1, n)) /\ IsInjective(SubSeq(s, n + 1, Len(s)))
         /\ ToSet(SubSeq(s, 1, n)) \cap ToSet(SubSeq(s, n + 1, Len(s))) = {}
         /\ ToSet(SubSeq(s, 1, n)) \cup ToSet(SubSeq(s, n + 1, Len(s))) = ToSet(s)
  <1>. DEFINE front == SubSeq(s, 1, n)
              rest == SubSeq(s, n + 1, Len(s))
  <1>. Len(s) \in Nat
    OBVIOUS
  <1>0. /\ front \in Seq(S) /\ Len(front) = n
        /\ \A i \in 1 .. n : front[i] = s[i]
        /\ rest \in Seq(S) /\ Len(rest) = Len(s) - n
        /\ \A i \in 1 .. Len(s) - n : rest[i] = s[n + i]
    BY Parts
  <1>. HIDE DEF front, rest
  <1>1. \A i \in 1 .. n : front[i] = s[i]
    BY <1>0
  <1>2. \A i \in 1 .. Len(s) - n : n + i \in 1 .. Len(s) /\ rest[i] = s[n + i]
    BY <1>0
  <1>3. /\ ToSet(front) = {front[i] : i \in 1 .. n}
        /\ ToSet(rest) = {rest[i] : i \in 1 .. Len(s) - n}
        /\ ToSet(s) = {s[i] : i \in 1 .. Len(s)}
    <2>1. /\ DOMAIN front = 1 .. n
          /\ DOMAIN rest = 1 .. Len(s) - n
          /\ DOMAIN s = 1 .. Len(s)
      BY <1>0
    <2>. QED BY <2>1 DEF ToSet
  <1>4. \A i, j \in 1 .. Len(s) : s[i] = s[j] => i = j
    BY ToSetItems
  <1>5. IsInjective(front)
    <2>1. \A i, j \in 1 .. n : front[i] = front[j] => i = j
      BY <1>1, <1>4
    <2>. QED BY <2>1, <1>0, ToSetItems
  <1>6. IsInjective(rest)
    <2>1. ASSUME NEW i \in 1 .. Len(s) - n, NEW j \in 1 .. Len(s) - n, rest[i] = rest[j]
          PROVE  i = j
      <3>1. s[n + i] = s[n + j] /\ n + i \in 1 .. Len(s) /\ n + j \in 1 .. Len(s)
        BY <2>1, <1>2
      <3>2. n + i = n + j
        BY <3>1, <1>4
      <3>. QED BY <3>2
    <2>. QED BY <2>1, <1>0, ToSetItems
  <1>7. ToSet(front) \cap ToSet(rest) = {}
    <2>1. ASSUME NEW i \in 1 .. n, NEW j \in 1 .. Len(s) - n
          PROVE  front[i] # rest[j]
      <3>1. front[i] = s[i] /\ rest[j] = s[n + j] /\ i \in 1 .. Len(s)
            /\ n + j \in 1 .. Len(s) /\ i # n + j
        BY <1>1, <1>2
      <3>. QED BY <3>1, <1>4
    <2>. QED BY <2>1, <1>3
  <1>8. ToSet(front) \cup ToSet(rest) = ToSet(s)
    <2>1. \A i \in 1 .. n : i \in 1 .. Len(s) /\ front[i] = s[i]
      BY <1>1
    <2>2. \A i \in 1 .. Len(s) - n : n + i \in 1 .. Len(s) /\ rest[i] = s[n + i]
      BY <1>2
    <2>3. \A i \in 1 .. Len(s) : \/ i \in 1 .. n /\ s[i] = front[i]
                                 \/ i - n \in 1 .. Len(s) - n /\ s[i] = rest[i - n]
      <3>. SUFFICES ASSUME NEW i \in 1 .. Len(s)
                    PROVE  \/ i \in 1 .. n /\ s[i] = front[i]
                           \/ i - n \in 1 .. Len(s) - n /\ s[i] = rest[i - n]
        OBVIOUS
      <3>1. CASE i <= n
        BY <3>1, <1>1
      <3>2. CASE i > n
        <4>1. i - n \in 1 .. Len(s) - n /\ n + (i - n) = i
          BY <3>2
        <4>. QED BY <4>1, <1>2
      <3>. QED BY <3>1, <3>2
    <2>4. ToSet(front) \subseteq ToSet(s)
      BY <2>1, <1>3
    <2>5. ToSet(rest) \subseteq ToSet(s)
      BY <2>2, <1>3
    <2>6. ToSet(s) \subseteq ToSet(front) \cup ToSet(rest)
      BY <2>3, <1>3
    <2>. QED BY <2>4, <2>5, <2>6
  <1>. QED BY <1>5, <1>6, <1>7, <1>8 DEF front, rest

(* Taking the first item of an injective sequence. *)
LEMMA TakeHead ==
  ASSUME NEW S, NEW s \in Seq(S), s # <<>>, IsInjective(s)
  PROVE  /\ Head(s) \in S /\ Head(s) = s[1] /\ Tail(s) \in Seq(S)
         /\ IsInjective(Tail(s))
         /\ Head(s) \notin ToSet(Tail(s))
         /\ ToSet(s) = ToSet(Tail(s)) \cup {Head(s)}
  <1>1. Len(s) \in Nat /\ Len(s) >= 1
    BY EmptySeq
  <1>2. Head(s) = s[1] /\ Head(s) \in S
    BY <1>1
  <1>3. /\ Tail(s) \in Seq(S) /\ Len(Tail(s)) = Len(s) - 1
        /\ \A i \in 1 .. Len(s) - 1 : Tail(s)[i] = s[i + 1]
    BY HeadTailProperties
  <1>. DEFINE rest == Tail(s)
  <1>. HIDE DEF rest
  <1>4. \A i \in 1 .. Len(s) - 1 : i + 1 \in 1 .. Len(s) /\ i + 1 # 1 /\ rest[i] = s[i + 1]
    BY <1>1, <1>3 DEF rest
  <1>5. \A i \in 1 .. Len(s) : i = 1 \/ (i - 1 \in 1 .. Len(s) - 1 /\ s[i] = rest[i - 1])
    <2>. SUFFICES ASSUME NEW i \in 1 .. Len(s), i # 1
                  PROVE  i - 1 \in 1 .. Len(s) - 1 /\ s[i] = rest[i - 1]
      OBVIOUS
    <2>1. i - 1 \in 1 .. Len(s) - 1 /\ (i - 1) + 1 = i
      BY <1>1
    <2>. QED BY <2>1, <1>4
  <1>6. /\ rest \in Seq(S) /\ DOMAIN rest = 1 .. Len(s) - 1
        /\ DOMAIN s = 1 .. Len(s) /\ 1 \in 1 .. Len(s)
    BY <1>1, <1>3 DEF rest
  <1>7. \A i, j \in 1 .. Len(s) : s[i] = s[j] => i = j
    BY ToSetItems
  <1>8. \A i, j \in 1 .. Len(s) - 1 : i + 1 = j + 1 => i = j
    BY <1>1
  <1>9. IsInjective(rest)
    <2>. SUFFICES ASSUME NEW i \in 1 .. Len(s) - 1, NEW j \in 1 .. Len(s) - 1,
                         rest[i] = rest[j]
                  PROVE  i = j
      BY <1>6 DEF IsInjective
    <2>1. i + 1 = j + 1
      BY <1>4, <1>7
    <2>. QED BY <2>1, <1>8
  <1>10. s[1] \notin ToSet(rest)
    BY <1>4, <1>6, <1>7 DEF ToSet
  <1>11. ToSet(s) = ToSet(rest) \cup {s[1]}
    <2>1. ToSet(rest) \subseteq ToSet(s)
      BY <1>4, <1>6 DEF ToSet
    <2>2. ToSet(s) \subseteq ToSet(rest) \cup {s[1]}
      BY <1>5, <1>6 DEF ToSet
    <2>3. s[1] \in ToSet(s)
      BY <1>6 DEF ToSet
    <2>. QED BY <2>1, <2>2, <2>3
  <1>. QED BY <1>2, <1>6, <1>9, <1>10, <1>11 DEF rest

-----------------------------------------------------------------------------
(* The inductive invariant.                                                *)

(* Nothing is requested before RIL_startEventLoop has returned, and it does
   not return before ril_event_init has run. *)
StartInv ==
    /\ lpc \in {"none", "init"} => ~s_started /\ ~ready /\ timer_list = <<>>
    /\ ~ready => \A r \in Requesters : rpc[r] = "idle"
    /\ ~s_started => lpc \in {"none", "init", "gone", "killed"}

(* A requester holds a p_info exactly between calloc and ril_timer_add. *)
RequesterInv == \A r \in Requesters : rinfo[r] # None <=> rpc[r] = "add"

Looping == {"calcHead", "calcTimeout", "select", "timeouts", "reads", "fire"}

(* pending_list is filled and emptied within one round of the loop; while it
   runs, the pipe exists and is watched. *)
RoundInv ==
    /\ lpc # "fire" => current = None
    /\ lpc \notin {"reads", "fire"} => pending_list = <<>>
    /\ lpc = "reads" => pending_list \in Seq(Timers)
    /\ lpc \in Looping \cup {"addWakeup"} => s_fdWakeupWrite = "pipe"
    /\ lpc \in Looping => watch_table = {Wake}
    /\ lpc \in {"calcTimeout", "select"} => rfds = {Wake}

ControlInv == TypeOK /\ StartInv /\ RequesterInv /\ RoundInv

ListInv == TimersSorted /\ OnePlace /\ NeverEarly

(* The first timer calcNextTimeout read is still armed and is the earliest,
   but for timers whose wake-up is on the way. *)
HeadInv ==
    lpc = "calcTimeout" =>
        \A t \in Armed : WakeComing \/ (head \in Armed /\ left[head] <= left[t])

IInv == ControlInv /\ ListInv /\ HeadInv /\ NoLostWakeup

-----------------------------------------------------------------------------
(* What each operation does to the lists.                                  *)

LEMMA ArmedItems ==
  ASSUME TypeOK
  PROVE  /\ Armed \subseteq Timers
         /\ Pending \subseteq Events
         /\ Armed = {timer_list[i] : i \in 1 .. Len(timer_list)}
         /\ Len(timer_list) \in Nat
  <1>1. timer_list \in Seq(Timers) /\ pending_list \in Seq(Events)
    BY DEF TypeOK
  <1>. QED BY <1>1, ToSetItems DEF Armed, Pending

(* ril_timer_add keeps the list sorted and without repetition. *)
LEMMA TimerAddEffect ==
  ASSUME TypeOK, TimersSorted, IsInjective(timer_list),
         NEW t \in Timers, t \notin Armed, NEW d \in 0 .. MaxDelay, TimerAdd(t, d)
  PROVE  /\ timer_list' \in Seq(Timers)
         /\ left' \in [Timers -> -1 .. MaxDelay]
         /\ left' = [left EXCEPT ![t] = d]
         /\ Armed' = Armed \cup {t}
         /\ IsInjective(timer_list')
         /\ TimersSorted'
  <1>1. /\ timer_list \in Seq(Timers) /\ left \in [Timers -> -1 .. MaxDelay]
        /\ Len(timer_list) \in Nat
        /\ \A i \in 1 .. Len(timer_list) : timer_list[i] \in Timers
    BY DEF TypeOK
  <1>2. PICK k \in 1 .. Len(timer_list) + 1 :
           ScanStopsAt(k, d) /\ timer_list' = InsertAt(timer_list, k, t)
    BY DEF TimerAdd
  <1>3. left' = [left EXCEPT ![t] = d] /\ left' \in [Timers -> -1 .. MaxDelay]
    BY <1>1, BoundsOK DEF TimerAdd
  <1>4. /\ timer_list' \in Seq(Timers)
        /\ Len(timer_list') = Len(timer_list) + 1
        /\ \A i \in 1 .. Len(timer_list) + 1 :
              timer_list'[i] = IF i < k THEN timer_list[i]
                               ELSE IF i = k THEN t ELSE timer_list[i - 1]
    <2>. DEFINE longer == InsertAt(timer_list, k, t)
    <2>1. /\ longer \in Seq(Timers)
          /\ Len(longer) = Len(timer_list) + 1
          /\ \A i \in 1 .. k - 1 : longer[i] = timer_list[i]
          /\ longer[k] = t
          /\ \A i \in k + 1 .. Len(timer_list) + 1 : longer[i] = timer_list[i - 1]
      BY <1>1, InsertAtItems
    <2>2. timer_list' = longer
      BY <1>2
    <2>. HIDE DEF longer
    <2>3. ASSUME NEW i \in 1 .. Len(timer_list) + 1
          PROVE  longer[i] = IF i < k THEN timer_list[i]
                             ELSE IF i = k THEN t ELSE timer_list[i - 1]
      <3>1. CASE i \in 1 .. k - 1
        BY <3>1, <2>1
      <3>2. CASE i \in k + 1 .. Len(timer_list) + 1
        BY <3>2, <2>1
      <3>. QED BY <3>1, <3>2, <2>1, <1>1
    <2>. QED BY <2>1, <2>2, <2>3
  <1>5. Armed' = Armed \cup {t} /\ IsInjective(timer_list')
    BY <1>1, <1>2, InsertAtSet DEF Armed
  <1>6. \A i \in 1 .. Len(timer_list) :
           timer_list[i] # t /\ left'[timer_list[i]] = left[timer_list[i]]
    <2>1. Armed = {timer_list[i] : i \in 1 .. Len(timer_list)}
      BY ArmedItems
    <2>. QED BY <2>1, <1>1, <1>3
  <1>7. /\ left'[t] = d
        /\ \A i \in 1 .. k - 1 : left'[timer_list[i]] < d
        /\ \A i \in k .. Len(timer_list) : left'[timer_list[i]] >= d
    <2>1. \A i \in 1 .. Len(timer_list) : left[timer_list[i]] \in Int
      BY <1>1
    <2>2. \A i \in 1 .. k - 1 : i \in 1 .. Len(timer_list) /\ left[timer_list[i]] < d
      BY <1>1, <1>2 DEF ScanStopsAt
    <2>3. \A i \in k .. Len(timer_list) : i \in 1 .. Len(timer_list) /\ left[timer_list[i]] >= d
      <3>. SUFFICES ASSUME NEW i \in k .. Len(timer_list)
                    PROVE  left[timer_list[i]] >= d
        BY <1>1
      <3>1. k \in 1 .. Len(timer_list) /\ left[timer_list[k]] >= d
        BY <1>1, <1>2 DEF ScanStopsAt
      <3>2. left[timer_list[k]] <= left[timer_list[i]]
        <4>1. CASE k = i
          BY <4>1, <2>1, <3>1
        <4>2. CASE k < i
          BY <4>2, <3>1 DEF TimersSorted
        <4>. QED BY <4>1, <4>2
      <3>. QED BY <3>1, <3>2, <2>1
    <2>. QED BY <1>1, <1>3, <1>6, <2>2, <2>3
  <1>8. TimersSorted'
    <2>. SUFFICES ASSUME NEW i \in 1 .. Len(timer_list'), NEW j \in 1 .. Len(timer_list'), i < j
                  PROVE  left'[timer_list'[i]] <= left'[timer_list'[j]]
      BY DEF TimersSorted
    <2>. DEFINE at(n) == left'[timer_list[n]]
    <2>0. /\ i \in 1 .. Len(timer_list) + 1 /\ j \in 1 .. Len(timer_list) + 1
          /\ timer_list'[i] = IF i < k THEN timer_list[i]
                              ELSE IF i = k THEN t ELSE timer_list[i - 1]
          /\ timer_list'[j] = IF j < k THEN timer_list[j]
                              ELSE IF j = k THEN t ELSE timer_list[j - 1]
      BY <1>4
    <2>1. \A m, n \in 1 .. Len(timer_list) : m < n => at(m) <= at(n)
      BY <1>6 DEF TimersSorted
    <2>2. \A m \in 1 .. Len(timer_list) : at(m) \in Int
      BY <1>1, <1>3
    <2>3. /\ \A m \in 1 .. k - 1 : m \in 1 .. Len(timer_list) /\ at(m) < d
          /\ \A m \in k .. Len(timer_list) : m \in 1 .. Len(timer_list) /\ at(m) >= d
      BY <1>1, <1>7
    <2>. HIDE DEF at
    <2>4. CASE j < k
      <3>1. i \in 1 .. Len(timer_list) /\ j \in 1 .. Len(timer_list)
            /\ timer_list'[i] = timer_list[i] /\ timer_list'[j] = timer_list[j]
        BY <2>0, <2>4, <1>1
      <3>. QED BY <3>1, <2>1 DEF at
    <2>5. CASE j = k
      <3>1. timer_list'[i] = timer_list[i] /\ timer_list'[j] = t /\ i \in 1 .. k - 1
        BY <2>0, <2>5, <1>1
      <3>2. at(i) < d /\ at(i) \in Int
        BY <3>1, <2>2, <2>3
      <3>. QED BY <3>1, <3>2, <1>7 DEF at
    <2>6. CASE j > k /\ i < k
      <3>1. /\ timer_list'[i] = timer_list[i] /\ timer_list'[j] = timer_list[j - 1]
            /\ i \in 1 .. k - 1 /\ j - 1 \in k .. Len(timer_list)
        BY <2>0, <2>6, <1>1
      <3>2. at(i) < d /\ at(j - 1) >= d /\ at(i) \in Int /\ at(j - 1) \in Int
        BY <3>1, <2>2, <2>3
      <3>3. at(i) <= at(j - 1)
        BY <3>2
      <3>. QED BY <3>1, <3>3 DEF at
    <2>7. CASE j > k /\ i = k
      <3>1. timer_list'[i] = t /\ timer_list'[j] = timer_list[j - 1] /\ j - 1 \in k .. Len(timer_list)
        BY <2>0, <2>7, <1>1
      <3>2. at(j - 1) >= d /\ at(j - 1) \in Int
        BY <3>1, <2>2, <2>3
      <3>3. d <= at(j - 1)
        BY <3>2
      <3>. QED BY <3>1, <3>3, <1>7 DEF at
    <2>8. CASE i > k
      <3>1. /\ timer_list'[i] = timer_list[i - 1] /\ timer_list'[j] = timer_list[j - 1]
            /\ i - 1 \in 1 .. Len(timer_list) /\ j - 1 \in 1 .. Len(timer_list) /\ i - 1 < j - 1
        BY <2>0, <2>8, <1>1
      <3>. QED BY <3>1, <2>1 DEF at
    <2>. QED BY <2>4, <2>5, <2>6, <2>7, <2>8
  <1>. QED BY <1>3, <1>4, <1>5, <1>8

(* The walk of processTimeouts moves the expired timers, and only those. *)
LEMMA ExpireEffect ==
  ASSUME ControlInv, ListInv, ProcessTimeouts
  PROVE  /\ timer_list' \in Seq(Timers) /\ pending_list' \in Seq(Timers)
         /\ Armed' \cup Pending' = Armed /\ Armed' \cap Pending' = {}
         /\ IsInjective(timer_list') /\ IsInjective(pending_list')
         /\ TimersSorted'
         /\ \A t \in Pending' : left[t] = -1
  <1>1. /\ timer_list \in Seq(Timers) /\ Len(timer_list) \in Nat /\ pending_list = <<>>
        /\ IsInjective(timer_list) /\ left' = left
    BY DEF ControlInv, TypeOK, RoundInv, ListInv, OnePlace, ProcessTimeouts
  <1>2. PICK n \in 0 .. Len(timer_list) :
           /\ WalkExpires(n)
           /\ pending_list' = pending_list \o SubSeq(timer_list, 1, n)
           /\ timer_list' = SubSeq(timer_list, n + 1, Len(timer_list))
    BY DEF ProcessTimeouts
  <1>3. /\ SubSeq(timer_list, 1, n) \in Seq(Timers)
        /\ Len(SubSeq(timer_list, 1, n)) = n
        /\ \A i \in 1 .. n : SubSeq(timer_list, 1, n)[i] = timer_list[i]
        /\ timer_list' \in Seq(Timers)
        /\ Len(timer_list') = Len(timer_list) - n
        /\ \A i \in 1 .. Len(timer_list) - n : timer_list'[i] = timer_list[n + i]
    BY <1>1, <1>2, Parts
  <1>4. pending_list' = SubSeq(timer_list, 1, n)
    BY <1>1, <1>2, <1>3, ConcatEmptySeq
  <1>5. /\ pending_list' \in Seq(Timers) /\ Len(pending_list') = n
        /\ \A i \in 1 .. n : pending_list'[i] = timer_list[i]
    BY <1>3, <1>4
  <1>6. /\ IsInjective(pending_list') /\ IsInjective(timer_list')
        /\ ToSet(pending_list') \cap ToSet(timer_list') = {}
        /\ ToSet(pending_list') \cup ToSet(timer_list') = ToSet(timer_list)
    BY <1>1, <1>2, <1>4, Split
  <1>7. TimersSorted'
    <2>. SUFFICES ASSUME NEW i \in 1 .. Len(timer_list'), NEW j \in 1 .. Len(timer_list'), i < j
                  PROVE  left[timer_list'[i]] <= left[timer_list'[j]]
      BY <1>1 DEF TimersSorted
    <2>1. /\ timer_list'[i] = timer_list[n + i] /\ timer_list'[j] = timer_list[n + j]
          /\ n + i \in 1 .. Len(timer_list) /\ n + j \in 1 .. Len(timer_list) /\ n + i < n + j
      BY <1>1, <1>3
    <2>. QED BY <2>1 DEF ListInv, TimersSorted
  <1>8. \A t \in Pending' : left[t] = -1
    <2>1. Pending' = {pending_list'[i] : i \in 1 .. n}
      BY <1>5 DEF Pending, ToSet
    <2>2. \A i \in 1 .. n : left[timer_list[i]] = -1
      BY <1>2 DEF WalkExpires
    <2>. QED BY <2>1, <2>2, <1>5
  <1>. QED BY <1>3, <1>5, <1>6, <1>7, <1>8 DEF Armed, Pending

(* processReadReadies appends the wake-up event, which was not pending. *)
LEMMA ReadyEffect ==
  ASSUME ControlInv, ListInv, ProcessReadReadies
  PROVE  /\ pending_list' \in Seq(Events)
         /\ Pending' \ {Wake} = Pending /\ Wake \notin Pending
         /\ IsInjective(pending_list')
         /\ watch_table' = watch_table
  <1>1. /\ pending_list \in Seq(Timers) /\ IsInjective(pending_list)
        /\ watch_table = {Wake} /\ rfds \subseteq {Wake} /\ lpc = "reads"
    BY DEF ControlInv, TypeOK, RoundInv, ListInv, OnePlace, ProcessReadReadies, Looping
  <1>2. pending_list \in Seq(Events) /\ Wake \in Events
    <2>1. Timers \subseteq Events
      BY DEF Events
    <2>. QED BY <1>1, <2>1, SeqMonotonic DEF Events
  <1>3. Pending \subseteq Timers /\ Wake \notin Pending
    BY <1>1, ToSetItems, EventsDistinct DEF Pending
  <1>4. watch_table' = watch_table
    BY <1>1 DEF ProcessReadReadies, Persistent
  <1>5. CASE pending_list' = pending_list \o <<Wake>>
    <2>. DEFINE one == <<Wake>>
    <2>1. /\ one \in Seq(Events) /\ ToSet(one) = {Wake} /\ IsInjective(one)
      <3>1. one \in Seq(Events) /\ DOMAIN one = {1} /\ one[1] = Wake
        BY <1>2
      <3>. QED BY <3>1 DEF ToSet, IsInjective
    <2>2. pending_list' = pending_list \o one
      BY <1>5
    <2>. HIDE DEF one
    <2>3. ToSet(pending_list) \cap ToSet(one) = {}
      BY <1>3, <2>1 DEF Pending
    <2>4. /\ pending_list' \in Seq(Events)
          /\ ToSet(pending_list') = ToSet(pending_list) \cup {Wake}
          /\ IsInjective(pending_list')
      BY <1>1, <1>2, <2>1, <2>2, <2>3, ConcatSet
    <2>. QED BY <2>4, <1>3, <1>4 DEF Pending
  <1>6. CASE pending_list' = pending_list \o <<>>
    <2>1. pending_list' = pending_list
      BY <1>2, <1>6, ConcatEmptySeq
    <2>. QED BY <2>1, <1>1, <1>2, <1>3, <1>4 DEF Pending
  <1>. QED BY <1>5, <1>6 DEF ProcessReadReadies

(* firePending takes the first event out of the list. *)
LEMMA FireEffect ==
  ASSUME ControlInv, ListInv, FireNext, pending_list # <<>>
  PROVE  /\ pending_list' \in Seq(Events) /\ current' \in Events
         /\ IsInjective(pending_list')
         /\ current' \notin Pending' /\ Pending = Pending' \cup {current'}
  <1>1. pending_list \in Seq(Events) /\ IsInjective(pending_list)
    BY DEF ControlInv, TypeOK, ListInv, OnePlace
  <1>2. current' = Head(pending_list) /\ pending_list' = Tail(pending_list)
    BY DEF FireNext
  <1>. QED BY <1>1, <1>2, TakeHead DEF Pending

-----------------------------------------------------------------------------
(* Control: every operation keeps the ranges and the phases of the loop.   *)

USE DEF startVars, listVars, pipeVars, loopVars, reqVars

LEMMA ControlStep == ControlInv /\ ListInv /\ [Next]_vars => ControlInv'
  <1>. SUFFICES ASSUME ControlInv, ListInv, [Next]_vars PROVE ControlInv'
    OBVIOUS
  <1>. USE EventsDistinct, BoundsOK
  <1>. USE DEF ControlInv, StartInv, RequesterInv, RoundInv, Looping, Events, Forever
  <1>1. CASE StartUp
    <2>1. CASE CreateThread
      <3>1. TypeOK'
        BY <2>1 DEF TypeOK, CreateThread
      <3>2. StartInv' /\ RequesterInv'
        BY <2>1 DEF CreateThread
      <3>3. RoundInv'
        BY <2>1 DEF CreateThread
      <3>. QED BY <3>1, <3>2, <3>3
    <2>2. CASE EventInit
      <3>1. <<>> \in Seq(Timers) /\ <<>> \in Seq(Timers \cup {Wake})
        BY EmptySeq
      <3>. QED BY <2>2, <3>1 DEF TypeOK, EventInit
    <2>3. CASE StartReturns
      BY <2>3 DEF TypeOK, StartReturns
    <2>4. CASE CreatePipe
      BY <2>4 DEF TypeOK, CreatePipe
    <2>5. CASE AddWakeup
      BY <2>5 DEF TypeOK, AddWakeup
    <2>. QED BY <1>1, <2>1, <2>2, <2>3, <2>4, <2>5 DEF StartUp
  <1>2. ASSUME NEW r \in Requesters, Requester(r) PROVE ControlInv'
    <2>1. CASE Calloc(r)
      BY <2>1 DEF TypeOK, Calloc
    <2>2. CASE RilTimerAdd(r)
      <3>1. /\ timer_list' \in Seq(Timers) /\ left' \in [Timers -> -1 .. MaxDelay]
            /\ ready
        <4>1. PICK d \in 0 .. MaxDelay : TimerAdd(rinfo[r], d)
          BY <2>2 DEF RilTimerAdd
        <4>2. rinfo[r] \in Timers /\ rinfo[r] \notin Armed /\ ready
          BY <2>2 DEF RilTimerAdd, TypeOK, ListInv, OnePlace
        <4>. QED BY <4>1, <4>2, TimerAddEffect DEF ListInv, OnePlace
      <3>. QED BY <2>2, <3>1 DEF TypeOK, RilTimerAdd
    <2>3. CASE TriggerLoad(r)
      BY <2>3 DEF TypeOK, TriggerLoad
    <2>4. CASE TriggerWrite(r)
      BY <2>4 DEF TypeOK, TriggerWrite
    <2>. QED BY <1>2, <2>1, <2>2, <2>3, <2>4 DEF Requester
  <1>3. CASE LoopStep
    <2>1. CASE CalcHead
      <3>1. timer_list # <<>> => Head(timer_list) \in Timers
        BY HeadTailProperties DEF TypeOK
      <3>. QED BY <2>1, <3>1 DEF TypeOK, CalcHead
    <2>2. CASE CalcTimeout
      BY <2>2 DEF TypeOK, CalcTimeout
    <2>3. CASE SelectReturns
      BY <2>3 DEF TypeOK, SelectReturns, Readable
    <2>4. CASE ProcessTimeouts
      <3>1. /\ timer_list' \in Seq(Timers) /\ pending_list' \in Seq(Timers)
            /\ pending_list' \in Seq(Timers \cup {Wake})
        <4>1. timer_list' \in Seq(Timers) /\ pending_list' \in Seq(Timers)
          BY <2>4, ExpireEffect
        <4>. QED BY <4>1, SeqMonotonic
      <3>. QED BY <2>4, <3>1 DEF TypeOK, ProcessTimeouts
    <2>5. CASE ProcessReadReadies
      <3>1. pending_list' \in Seq(Timers \cup {Wake}) /\ watch_table' = watch_table
        BY <2>5, ReadyEffect
      <3>. QED BY <2>5, <3>1 DEF TypeOK, ProcessReadReadies
    <2>6. CASE FireNext
      <3>1. CASE pending_list = <<>>
        BY <2>6, <3>1 DEF TypeOK, FireNext
      <3>2. CASE pending_list # <<>>
        <4>1. pending_list' \in Seq(Timers \cup {Wake}) /\ current' \in Timers \cup {Wake}
          BY <2>6, <3>2, FireEffect
        <4>. QED BY <2>6, <3>2, <4>1 DEF TypeOK, FireNext
      <3>. QED BY <3>1, <3>2
    <2>7. CASE ProcessWakeup
      BY <2>7 DEF TypeOK, ProcessWakeup
    <2>8. CASE UserTimerReturns
      BY <2>8 DEF TypeOK, UserTimerReturns
    <2>. QED BY <1>3, <2>1, <2>2, <2>3, <2>4, <2>5, <2>6, <2>7, <2>8 DEF LoopStep
  <1>4. CASE SelectFails
    BY <1>4 DEF TypeOK, SelectFails
  <1>5. CASE CallbackRequests
    <2>1. PICK t \in Timers \ heap, d \in 0 .. MaxDelay :
             TimerAdd(t, d) /\ heap' = heap \cup {t}
      BY <1>5 DEF CallbackRequests
    <2>2. t \notin Armed
      BY <2>1 DEF ListInv, OnePlace
    <2>3. timer_list' \in Seq(Timers) /\ left' \in [Timers -> -1 .. MaxDelay]
      BY <2>1, <2>2, TimerAddEffect DEF ListInv, OnePlace
    <2>4. lpc = "fire"
      BY <1>5 DEF CallbackRequests
    <2>. QED BY <1>5, <2>1, <2>3, <2>4 DEF TypeOK, CallbackRequests
  <1>6. CASE Tick
    <2>1. left' \in [Timers -> -1 .. MaxDelay]
      BY <1>6 DEF TypeOK, Tick
    <2>. QED BY <1>6, <2>1 DEF TypeOK, Tick
  <1>7. CASE UNCHANGED vars
    BY <1>7 DEF TypeOK, vars
  <1>8. ASSUME NEW r \in Requesters, RilTimerAddCrashes(r) PROVE ControlInv'
    <2>1. lpc \in {"none", "init", "gone", "killed"} /\ lpc' = "killed"
      BY <1>8 DEF RilTimerAddCrashes
    <2>2. UNCHANGED <<s_started, ready, timer_list, pending_list, left, heap, wakePipe,
                      s_fdWakeupWrite, watch_table, head, sel, rfds, current, reqVars>>
      BY <1>8 DEF RilTimerAddCrashes
    <2>3. TypeOK'
      BY <2>1, <2>2 DEF TypeOK
    <2>4. StartInv' /\ RequesterInv' /\ RoundInv'
      BY <2>1, <2>2
    <2>. QED BY <2>3, <2>4
  <1>. QED BY <1>1, <1>2, <1>3, <1>4, <1>5, <1>6, <1>7, <1>8 DEF Next

-----------------------------------------------------------------------------
(* The lists stay sorted and disjoint, and hold what the heap handed out.  *)

(* NeverEarly, of the set of pending events. *)
LEMMA NeverEarlySet ==
  NeverEarly <=> /\ \A t \in Pending : t \in Timers => left[t] = -1
                 /\ current \in Timers => left[current] = -1
  BY DEF NeverEarly, Pending, ToSet

LEMMA NeverEarlySetNext ==
  NeverEarly' <=> /\ \A t \in Pending' : t \in Timers => left'[t] = -1
                  /\ current' \in Timers => left'[current'] = -1
  BY DEF NeverEarly, Pending, ToSet

(* The steps that touch neither the lists nor the objects. *)
LEMMA ListsUntouched ==
  ASSUME ListInv, UNCHANGED <<timer_list, pending_list, left, heap, current, rinfo>>
  PROVE  ListInv'
  <1>1. TimersSorted'
    BY DEF ListInv, TimersSorted
  <1>2. OnePlace'
    BY DEF ListInv, OnePlace, Armed, Pending
  <1>3. NeverEarly'
    BY DEF ListInv, NeverEarly
  <1>. QED BY <1>1, <1>2, <1>3 DEF ListInv

LEMMA ListStep == ControlInv /\ ListInv /\ [Next]_vars => ListInv'
  <1>. SUFFICES ASSUME ControlInv, ListInv, [Next]_vars PROVE ListInv'
    OBVIOUS
  <1>. USE EventsDistinct, BoundsOK
  <1>0. /\ TypeOK /\ RequesterInv /\ RoundInv /\ TimersSorted /\ OnePlace /\ NeverEarly
        /\ Armed \subseteq Timers /\ Pending \subseteq Events
    BY ArmedItems DEF ControlInv, ListInv
  <1>1. CASE StartUp
    <2>1. CASE EventInit
      <3>1. timer_list = <<>> /\ pending_list = <<>>
        BY <2>1 DEF EventInit, ControlInv, StartInv, RoundInv
      <3>. QED BY <2>1, <3>1, ListsUntouched DEF EventInit
    <2>. QED BY <1>1, <2>1, ListsUntouched DEF StartUp, CreateThread, StartReturns,
                CreatePipe, AddWakeup
  <1>2. ASSUME NEW r \in Requesters, Requester(r) PROVE ListInv'
    <2>1. CASE Calloc(r)
      <3>1. Armed' = Armed /\ Pending' = Pending
        BY <2>1 DEF Calloc, Armed, Pending
      <3>2. TimersSorted' /\ NeverEarly'
        BY <2>1, <1>0 DEF Calloc, TimersSorted, NeverEarly
      <3>3. PICK t \in Timers \ heap : heap' = heap \cup {t} /\ rinfo' = [rinfo EXCEPT ![r] = t]
        BY <2>1 DEF Calloc
      <3>4. rinfo[r] = None /\ rinfo \in [Requesters -> Timers \cup {None}]
        BY <2>1, <1>0 DEF Calloc, RequesterInv, TypeOK
      <3>5. \A q \in Requesters : rinfo[q] # t
        BY <1>0, <3>3, <3>4 DEF OnePlace
      <3>6. t \notin Armed \cup Pending \cup {current}
        BY <1>0, <3>3 DEF OnePlace
      <3>7. /\ IsInjective(timer_list') /\ IsInjective(pending_list')
            /\ Armed' \cap Pending' = {} /\ current' \notin Armed' \cup Pending'
        BY <2>1, <3>1, <1>0 DEF Calloc, OnePlace
      <3>8. \A p \in Requesters : rinfo'[p] # None =>
               /\ rinfo'[p] \notin Armed' \cup Pending' \cup {current'}
               /\ \A q \in Requesters : rinfo'[q] = rinfo'[p] => q = p
        BY <2>1, <3>1, <3>3, <3>4, <3>5, <3>6, <1>0 DEF Calloc, OnePlace
      <3>9. {rinfo'[p] : p \in Requesters} \cap Timers
               = ({rinfo[p] : p \in Requesters} \cap Timers) \cup {t}
        BY <3>3, <3>4
      <3>10. heap' = (Armed' \cup Pending' \cup {current'}
                      \cup {rinfo'[p] : p \in Requesters}) \cap Timers
        <4>1. heap = (Armed \cup Pending \cup {current}
                      \cup {rinfo[p] : p \in Requesters}) \cap Timers
          BY <1>0 DEF OnePlace
        <4>2. current' = current
          BY <2>1 DEF Calloc
        <4>. QED BY <4>1, <4>2, <3>1, <3>3, <3>9
      <3>. QED BY <3>2, <3>7, <3>8, <3>10 DEF ListInv, OnePlace
    <2>2. CASE RilTimerAdd(r)
      <3>. DEFINE t == rinfo[r]
      <3>1. PICK d \in 0 .. MaxDelay : TimerAdd(t, d)
        BY <2>2 DEF RilTimerAdd
      <3>2. /\ t \in Timers /\ t \notin Armed \cup Pending \cup {current} /\ t \in heap
            /\ \A q \in Requesters : rinfo[q] = t => q = r
            /\ rinfo \in [Requesters -> Timers \cup {None}]
        BY <2>2, <1>0 DEF RilTimerAdd, RequesterInv, TypeOK, OnePlace
      <3>3. /\ left' = [left EXCEPT ![t] = d] /\ left \in [Timers -> -1 .. MaxDelay]
            /\ Armed' = Armed \cup {t} /\ IsInjective(timer_list') /\ TimersSorted'
        BY <3>1, <3>2, <1>0, TimerAddEffect DEF OnePlace, TypeOK
      <3>4. Pending' = Pending /\ current' = current /\ heap' = heap /\ pending_list' = pending_list
        BY <2>2 DEF RilTimerAdd, Pending
      <3>5. rinfo' = [rinfo EXCEPT ![r] = None]
        BY <2>2 DEF RilTimerAdd
      <3>. HIDE DEF t
      <3>6. NeverEarly'
        <4>1. /\ \A u \in Pending : u \in Timers => left[u] = -1
              /\ current \in Timers => left[current] = -1
          BY <1>0, NeverEarlySet
        <4>2. /\ \A u \in Pending' : u \in Timers => left'[u] = -1
              /\ current' \in Timers => left'[current'] = -1
          BY <4>1, <3>2, <3>3, <3>4
        <4>. QED BY <4>2, NeverEarlySetNext
      <3>7. \A p \in Requesters : rinfo'[p] # None => rinfo'[p] = rinfo[p] /\ p # r
        BY <3>2, <3>5 DEF t
      <3>8. /\ IsInjective(pending_list')
            /\ Armed' \cap Pending' = {} /\ current' \notin Armed' \cup Pending'
        BY <3>2, <3>3, <3>4, <1>0 DEF OnePlace
      <3>9. \A p \in Requesters : rinfo'[p] # None =>
               /\ rinfo'[p] \notin Armed' \cup Pending' \cup {current'}
               /\ \A q \in Requesters : rinfo'[q] = rinfo'[p] => q = p
        BY <3>2, <3>3, <3>4, <3>7, <1>0 DEF OnePlace, t
      <3>10. ({rinfo'[p] : p \in Requesters} \cap Timers) \cup {t}
               = {rinfo[p] : p \in Requesters} \cap Timers
        BY <3>2, <3>5 DEF t
      <3>11. heap' = (Armed' \cup Pending' \cup {current'}
                      \cup {rinfo'[p] : p \in Requesters}) \cap Timers
        <4>1. heap = (Armed \cup Pending \cup {current}
                      \cup {rinfo[p] : p \in Requesters}) \cap Timers
          BY <1>0 DEF OnePlace
        <4>. QED BY <4>1, <3>2, <3>3, <3>4, <3>10
      <3>. QED BY <3>3, <3>6, <3>8, <3>9, <3>11 DEF ListInv, OnePlace
    <2>. QED BY <1>2, <2>1, <2>2, ListsUntouched DEF Requester, TriggerLoad, TriggerWrite
  <1>3. CASE CalcHead \/ CalcTimeout \/ SelectReturns \/ SelectFails
             \/ (\E r \in Requesters : RilTimerAddCrashes(r))
    BY <1>3, ListsUntouched DEF CalcHead, CalcTimeout, SelectReturns, SelectFails,
                                RilTimerAddCrashes
  <1>4. CASE ProcessTimeouts
    <2>1. UNCHANGED <<left, heap, current, rinfo>> /\ current = None /\ Pending = {}
      BY <1>4, <1>0 DEF ProcessTimeouts, RoundInv, Pending, ToSet
    <2>2. /\ Armed' \cup Pending' = Armed /\ Armed' \cap Pending' = {}
          /\ IsInjective(timer_list') /\ IsInjective(pending_list')
          /\ TimersSorted' /\ \A t \in Pending' : left[t] = -1
      BY <1>4, ExpireEffect
    <2>3. NeverEarly'
      BY <2>1, <2>2, NeverEarlySetNext
    <2>4. OnePlace'
      BY <2>1, <2>2, <1>0 DEF OnePlace
    <2>. QED BY <2>2, <2>3, <2>4 DEF ListInv
  <1>5. CASE ProcessReadReadies
    <2>1. UNCHANGED <<timer_list, left, heap, current, rinfo>> /\ current = None
      BY <1>5, <1>0 DEF ProcessReadReadies, RoundInv
    <2>2. /\ Pending' \subseteq Pending \cup {Wake} /\ Pending \subseteq Pending'
          /\ IsInjective(pending_list')
      BY <1>5, ReadyEffect
    <2>3. Armed' = Armed
      BY <2>1 DEF Armed
    <2>4. NeverEarly'
      BY <2>1, <2>2, <1>0, NeverEarlySet, NeverEarlySetNext
    <2>5. TimersSorted'
      BY <2>1, <1>0 DEF TimersSorted
    <2>6. OnePlace'
      <3>1. \A r \in Requesters : rinfo[r] \in Timers \cup {None}
        BY <1>0 DEF TypeOK
      <3>2. Pending' \cap Timers = Pending \cap Timers /\ None \notin Pending'
        BY <2>2, <1>0 DEF Events
      <3>3. /\ IsInjective(timer_list') /\ IsInjective(pending_list')
            /\ Armed' \cap Pending' = {} /\ current' \notin Armed' \cup Pending'
        BY <2>1, <2>2, <2>3, <3>2, <1>0 DEF OnePlace
      <3>4. \A p \in Requesters : rinfo'[p] # None =>
               /\ rinfo'[p] \notin Armed' \cup Pending' \cup {current'}
               /\ \A q \in Requesters : rinfo'[q] = rinfo'[p] => q = p
        BY <2>1, <2>3, <3>1, <3>2, <1>0 DEF OnePlace
      <3>5. heap' = (Armed' \cup Pending' \cup {current'}
                     \cup {rinfo'[p] : p \in Requesters}) \cap Timers
        <4>1. heap = (Armed \cup Pending \cup {current}
                      \cup {rinfo[p] : p \in Requesters}) \cap Timers
          BY <1>0 DEF OnePlace
        <4>. QED BY <4>1, <2>1, <2>3, <3>2
      <3>. QED BY <3>3, <3>4, <3>5 DEF OnePlace
    <2>. QED BY <2>4, <2>5, <2>6 DEF ListInv
  <1>6. CASE FireNext
    <2>1. CASE pending_list = <<>>
      BY <1>6, <2>1, ListsUntouched DEF FireNext
    <2>2. CASE pending_list # <<>>
      <3>1. /\ IsInjective(pending_list') /\ current' \in Events
            /\ current' \notin Pending' /\ Pending = Pending' \cup {current'}
        BY <1>6, <2>2, FireEffect
      <3>2. UNCHANGED <<timer_list, left, heap, rinfo>> /\ Armed' = Armed /\ current = None
        BY <1>6 DEF FireNext, Armed
      <3>3. TimersSorted'
        BY <3>2, <1>0 DEF TimersSorted
      <3>4. NeverEarly'
        BY <3>1, <3>2, <1>0, NeverEarlySet, NeverEarlySetNext
      <3>5. OnePlace'
        BY <3>1, <3>2, <1>0 DEF OnePlace
      <3>. QED BY <3>3, <3>4, <3>5 DEF ListInv
    <2>. QED BY <2>1, <2>2
  <1>7. CASE ProcessWakeup \/ UserTimerReturns
    <2>1. /\ UNCHANGED <<timer_list, pending_list, left, rinfo>> /\ current' = None
          /\ heap' = heap \ {current}
      <3>1. CASE ProcessWakeup
        BY <3>1, <1>0 DEF ProcessWakeup, TypeOK
      <3>. QED BY <1>7, <3>1 DEF UserTimerReturns
    <2>2. Armed' = Armed /\ Pending' = Pending
      BY <2>1 DEF Armed, Pending
    <2>3. TimersSorted' /\ NeverEarly'
      BY <2>1, <1>0 DEF TimersSorted, NeverEarly
    <2>4. OnePlace'
      <3>1. None \notin Armed \cup Pending
        BY <1>0 DEF Events
      <3>2. \A r \in Requesters : rinfo[r] # None => rinfo[r] # current
        BY <1>0 DEF OnePlace
      <3>3. current # None
        BY <1>7 DEF ProcessWakeup, UserTimerReturns
      <3>4. /\ IsInjective(timer_list') /\ IsInjective(pending_list')
            /\ Armed' \cap Pending' = {} /\ current' \notin Armed' \cup Pending'
        BY <2>1, <2>2, <3>1, <1>0 DEF OnePlace
      <3>5. \A p \in Requesters : rinfo'[p] # None =>
               /\ rinfo'[p] \notin Armed' \cup Pending' \cup {current'}
               /\ \A q \in Requesters : rinfo'[q] = rinfo'[p] => q = p
        BY <2>1, <2>2, <1>0 DEF OnePlace
      <3>6. heap' = (Armed' \cup Pending' \cup {current'}
                     \cup {rinfo'[p] : p \in Requesters}) \cap Timers
        <4>1. heap = (Armed \cup Pending \cup {current}
                      \cup {rinfo[p] : p \in Requesters}) \cap Timers
          BY <1>0 DEF OnePlace
        <4>2. current \notin Armed \cup Pending \cup {rinfo[p] : p \in Requesters}
          BY <3>2, <3>3, <1>0 DEF OnePlace
        <4>. QED BY <4>1, <4>2, <2>1, <2>2
      <3>. QED BY <3>4, <3>5, <3>6 DEF OnePlace
    <2>. QED BY <2>3, <2>4 DEF ListInv
  <1>8. CASE CallbackRequests
    <2>1. PICK t \in Timers \ heap, d \in 0 .. MaxDelay :
             TimerAdd(t, d) /\ heap' = heap \cup {t}
      BY <1>8 DEF CallbackRequests
    <2>2. /\ t \notin Armed \cup Pending \cup {current}
          /\ \A p \in Requesters : rinfo[p] # t
      BY <2>1, <1>0 DEF OnePlace
    <2>3. /\ left' = [left EXCEPT ![t] = d] /\ left \in [Timers -> -1 .. MaxDelay]
          /\ Armed' = Armed \cup {t} /\ IsInjective(timer_list') /\ TimersSorted'
      BY <2>1, <2>2, <1>0, TimerAddEffect DEF OnePlace, TypeOK
    <2>4. UNCHANGED <<pending_list, current, rinfo>> /\ Pending' = Pending
      BY <1>8 DEF CallbackRequests, Pending
    <2>5. NeverEarly'
      <3>1. /\ \A u \in Pending : u \in Timers => left[u] = -1
            /\ current \in Timers => left[current] = -1
        BY <1>0, NeverEarlySet
      <3>2. /\ \A u \in Pending' : u \in Timers => left'[u] = -1
            /\ current' \in Timers => left'[current'] = -1
        BY <3>1, <2>2, <2>3, <2>4
      <3>. QED BY <3>2, NeverEarlySetNext
    <2>6. OnePlace'
      BY <2>1, <2>2, <2>3, <2>4, <1>0 DEF OnePlace
    <2>. QED BY <2>3, <2>5, <2>6 DEF ListInv
  <1>9. CASE Tick
    <2>1. UNCHANGED <<timer_list, pending_list, heap, current, rinfo>>
      BY <1>9 DEF Tick
    <2>2. Armed' = Armed /\ Pending' = Pending
      BY <2>1 DEF Armed, Pending
    <2>3. /\ left' = [t \in Timers |-> IF t \in Armed /\ left[t] >= 0 THEN left[t] - 1 ELSE left[t]]
          /\ left \in [Timers -> -1 .. MaxDelay]
      BY <1>9, <1>0 DEF Tick, TypeOK
    <2>4. TimersSorted'
      <3>1. \A i \in 1 .. Len(timer_list) : timer_list[i] \in Timers /\ timer_list[i] \in Armed
        BY <1>0, ArmedItems DEF TypeOK
      <3>2. ASSUME NEW t \in Armed, NEW u \in Armed, left[t] <= left[u]
            PROVE  left'[t] <= left'[u]
        <4>1. t \in Timers /\ u \in Timers /\ left[t] \in -1 .. MaxDelay /\ left[u] \in -1 .. MaxDelay
          BY <2>3, <1>0
        <4>. QED BY <3>2, <4>1, <2>3
      <3>. QED BY <3>1, <3>2, <2>1, <1>0 DEF TimersSorted
    <2>5. NeverEarly'
      <3>1. /\ \A u \in Pending : u \in Timers => left[u] = -1
            /\ current \in Timers => left[current] = -1
        BY <1>0, NeverEarlySet
      <3>2. \A u \in Timers : left[u] = -1 => left'[u] = -1
        BY <2>3
      <3>. QED BY <3>1, <3>2, <2>1, <2>2, NeverEarlySetNext
    <2>6. OnePlace'
      BY <2>1, <2>2, <1>0 DEF OnePlace
    <2>. QED BY <2>4, <2>5, <2>6 DEF ListInv
  <1>10. CASE UNCHANGED vars
    BY <1>10, ListsUntouched DEF vars
  <1>. QED BY <1>1, <1>2, <1>3, <1>4, <1>5, <1>6, <1>7, <1>8, <1>9, <1>10 DEF Next, LoopStep

-----------------------------------------------------------------------------
(* Wake-ups: between the unlocked read of the head and the end of select,  *)
(* whoever makes an earlier timer sees to it that select returns.          *)

Reading == {"calcTimeout", "select"}

(* A requester's step adds a wake-up or leaves those there were. *)
LEMMA RequesterWakes ==
  ASSUME ControlInv, lpc \in Reading, NEW r \in Requesters, Requester(r)
  PROVE  /\ lpc' = lpc /\ sel' = sel /\ head' = head
         /\ \/ WakeComing'
            \/ Armed' = Armed /\ left' = left /\ ~WakeComing
  <1>1. /\ rfds = {Wake} /\ s_fdWakeupWrite = "pipe" /\ wakePipe \in Nat
        /\ rpc \in [Requesters -> {"idle", "add", "trigger", "write"}]
        /\ rfd \in [Requesters -> {"stdin", "pipe"}]
    BY DEF ControlInv, TypeOK, RoundInv, Reading, Looping
  <1>2. CASE Calloc(r)
    <2>1. /\ UNCHANGED <<lpc, sel, head, timer_list, left, wakePipe, rfds, rfd>>
          /\ rpc' = [rpc EXCEPT ![r] = "add"] /\ rpc[r] = "idle"
      BY <1>2 DEF Calloc
    <2>2. WakeComing => WakeComing'
      BY <2>1, <1>1 DEF WakeComing
    <2>. QED BY <2>1, <2>2 DEF Armed
  <1>3. CASE RilTimerAdd(r)
    <2>1. rpc'[r] = "trigger" /\ UNCHANGED <<lpc, sel, head>>
      BY <1>3, <1>1 DEF RilTimerAdd
    <2>. QED BY <2>1 DEF WakeComing
  <1>4. CASE TriggerLoad(r)
    <2>1. rpc'[r] = "write" /\ rfd'[r] = "pipe" /\ UNCHANGED <<lpc, sel, head>>
      BY <1>4, <1>1 DEF TriggerLoad
    <2>. QED BY <2>1 DEF WakeComing
  <1>5. CASE TriggerWrite(r)
    <2>1. /\ UNCHANGED <<lpc, sel, head, timer_list, left, rfds>>
          /\ rpc' = [rpc EXCEPT ![r] = "idle"] /\ rpc[r] = "write"
          /\ rfd' = [rfd EXCEPT ![r] = "stdin"]
      BY <1>5 DEF TriggerWrite
    <2>2. CASE rfd[r] = "pipe"
      <3>1. wakePipe' > 0 /\ Wake \in rfds'
        BY <1>5, <2>1, <2>2, <1>1 DEF TriggerWrite
      <3>. QED BY <2>1, <3>1 DEF WakeComing
    <2>3. CASE rfd[r] = "stdin"
      <3>1. wakePipe' = wakePipe
        BY <1>5, <2>3 DEF TriggerWrite
      <3>2. WakeComing => WakeComing'
        BY <2>1, <2>3, <3>1, <1>1 DEF WakeComing
      <3>. QED BY <2>1, <3>2 DEF Armed
    <2>. QED BY <2>2, <2>3, <1>1
  <1>. QED BY <1>2, <1>3, <1>4, <1>5 DEF Requester

LEMMA WakeStep == IInv /\ [Next]_vars => HeadInv' /\ NoLostWakeup'
  <1>. SUFFICES ASSUME IInv, [Next]_vars, lpc' \in Reading
                PROVE  HeadInv' /\ NoLostWakeup'
    BY DEF HeadInv, NoLostWakeup, Reading
  <1>. USE EventsDistinct, BoundsOK
  <1>0. /\ TypeOK /\ RoundInv /\ ControlInv /\ ListInv /\ TimersSorted /\ HeadInv /\ NoLostWakeup
        /\ left \in [Timers -> -1 .. MaxDelay] /\ Armed \subseteq Timers
        /\ sel \in 0 .. MaxDelay + 1
    BY ArmedItems DEF IInv, ControlInv, ListInv, TypeOK, Forever
  <1>1. CASE CalcHead
    <2>1. /\ lpc' = "calcTimeout" /\ UNCHANGED <<timer_list, left>> /\ Armed' = Armed
          /\ head' = IF timer_list = <<>> THEN None ELSE Head(timer_list)
      BY <1>1 DEF CalcHead, Armed
    <2>2. ASSUME NEW t \in Armed
          PROVE  head' \in Armed /\ left[head'] <= left[t]
      <3>1. PICK i \in 1 .. Len(timer_list) : t = timer_list[i]
        BY <1>0, ArmedItems
      <3>2. Len(timer_list) \in Nat /\ timer_list \in Seq(Timers)
        BY <1>0, ArmedItems DEF TypeOK
      <3>3. 1 \in 1 .. Len(timer_list) /\ timer_list # <<>>
        BY <3>2
      <3>4. head' = timer_list[1] /\ head' \in Armed
        BY <2>1, <3>2, <3>3, <1>0, ArmedItems
      <3>5. left[timer_list[1]] <= left[timer_list[i]]
        <4>1. CASE i = 1
          <5>1. left[timer_list[1]] \in Int
            BY <3>2, <3>3, <1>0
          <5>. QED BY <4>1, <5>1
        <4>2. CASE 1 < i
          BY <4>2, <3>3, <1>0 DEF TimersSorted
        <4>. QED BY <4>1, <4>2, <3>2
      <3>. QED BY <3>1, <3>4, <3>5
    <2>. QED BY <2>1, <2>2 DEF HeadInv, NoLostWakeup
  <1>2. CASE CalcTimeout
    <2>1. /\ lpc = "calcTimeout" /\ lpc' = "select" /\ UNCHANGED <<left, wakePipe, rfds, rpc, rfd>>
          /\ Armed' = Armed
          /\ sel' = IF head = None THEN Forever ELSE IF left[head] > 0 THEN left[head] ELSE 0
      BY <1>2 DEF CalcTimeout, Armed
    <2>2. WakeComing => WakeComing'
      BY <2>1 DEF WakeComing
    <2>3. ASSUME NEW t \in Armed, ~WakeComing
          PROVE  sel' = 0 \/ sel' <= left[t]
      <3>1. head \in Armed /\ left[head] <= left[t]
        BY <2>1, <2>3, <1>0 DEF HeadInv
      <3>2. head # None /\ left[head] \in Int /\ left[t] \in Int
        BY <3>1, <1>0
      <3>. QED BY <2>1, <3>1, <3>2
    <2>. QED BY <2>1, <2>2, <2>3 DEF HeadInv, NoLostWakeup
  <1>3. ASSUME NEW r \in Requesters, Requester(r)
        PROVE  HeadInv' /\ NoLostWakeup'
    <2>1. lpc \in Reading
      <3>1. lpc' = lpc
        BY <1>3 DEF Requester, Calloc, RilTimerAdd, TriggerLoad, TriggerWrite
      <3>. QED BY <3>1
    <2>2. /\ lpc' = lpc /\ sel' = sel /\ head' = head
          /\ \/ WakeComing'
             \/ Armed' = Armed /\ left' = left /\ ~WakeComing
      BY <1>3, <2>1, <1>0, RequesterWakes
    <2>. QED BY <2>2, <1>0 DEF HeadInv, NoLostWakeup
  <1>4. CASE Tick
    <2>1. UNCHANGED <<lpc, head, wakePipe, rfds, rpc, rfd>> /\ Armed' = Armed
      BY <1>4 DEF Tick, Armed
    <2>2. left' = [t \in Timers |-> IF t \in Armed /\ left[t] >= 0 THEN left[t] - 1 ELSE left[t]]
      BY <1>4 DEF Tick
    <2>3. sel' = IF lpc = "select" /\ sel \in 1 .. MaxDelay THEN sel - 1 ELSE sel
      BY <1>4 DEF Tick
    <2>4. WakeComing' <=> WakeComing
      BY <2>1 DEF WakeComing
    <2>5. ASSUME NEW t \in Armed, NEW u \in Armed, left[t] <= left[u]
          PROVE  left'[t] <= left'[u]
      <3>1. t \in Timers /\ u \in Timers /\ left[t] \in -1 .. MaxDelay /\ left[u] \in -1 .. MaxDelay
        BY <1>0
      <3>. QED BY <2>2, <2>5, <3>1
    <2>6. ASSUME NEW t \in Armed, lpc = "select", sel = 0 \/ sel <= left[t]
          PROVE  sel' = 0 \/ sel' <= left'[t]
      <3>1. t \in Timers /\ left[t] \in -1 .. MaxDelay /\ sel \in 0 .. MaxDelay + 1
        BY <1>0
      <3>2. CASE sel = 0
        BY <2>3, <3>2
      <3>3. CASE sel # 0
        <4>1. sel \in 1 .. MaxDelay /\ left[t] >= 0
          BY <2>6, <3>1, <3>3
        <4>2. sel' = sel - 1 /\ left'[t] = left[t] - 1
          BY <2>2, <2>3, <2>6, <3>1, <4>1
        <4>. QED BY <2>6, <3>1, <3>3, <4>2
      <3>. QED BY <3>2, <3>3
    <2>7. HeadInv'
      BY <2>1, <2>4, <2>5, <1>0 DEF HeadInv
    <2>8. NoLostWakeup'
      BY <2>1, <2>4, <2>6, <1>0 DEF NoLostWakeup
    <2>. QED BY <2>7, <2>8
  <1>5. CASE StartReturns \/ UNCHANGED vars
    <2>1. /\ UNCHANGED <<lpc, head, sel, left, wakePipe, rfds, rpc, rfd>> /\ Armed' = Armed
          /\ (WakeComing' <=> WakeComing)
      BY <1>5 DEF StartReturns, vars, Armed, WakeComing
    <2>. QED BY <2>1, <1>0 DEF HeadInv, NoLostWakeup
  <1>6. CASE CreateThread \/ EventInit \/ CreatePipe \/ AddWakeup
    BY <1>6 DEF CreateThread, EventInit, CreatePipe, AddWakeup, Reading
  <1>7. CASE SelectReturns \/ SelectFails \/ ProcessTimeouts \/ ProcessReadReadies \/ FireNext
             \/ (\E r \in Requesters : RilTimerAddCrashes(r))
    BY <1>7 DEF SelectReturns, SelectFails, ProcessTimeouts, ProcessReadReadies, FireNext, Reading,
                RilTimerAddCrashes
  <1>8. CASE ProcessWakeup \/ UserTimerReturns \/ CallbackRequests
    <2>1. current # None /\ lpc' = lpc
      BY <1>8, <1>0 DEF ProcessWakeup, UserTimerReturns, CallbackRequests
    <2>. QED BY <2>1, <1>0 DEF RoundInv, Reading
  <1>. QED BY <1>1, <1>2, <1>3, <1>4, <1>5, <1>6, <1>7, <1>8 DEF Next, StartUp, LoopStep

-----------------------------------------------------------------------------
(* The inductive invariant holds.                                          *)

LEMMA EventInitInv == Init => IInv
  <1>. SUFFICES ASSUME Init PROVE IInv
    OBVIOUS
  <1>1. /\ <<>> \in Seq(Timers) /\ <<>> \in Seq(Events) /\ Len(<<>>) = 0
        /\ DOMAIN <<>> = {}
    BY EmptySeq
  <1>2. Armed = {} /\ Pending = {}
    <2>1. timer_list = <<>> /\ pending_list = <<>>
      BY DEF Init
    <2>2. ToSet(timer_list) = {} /\ ToSet(pending_list) = {}
      BY <2>1, NoItems
    <2>. QED BY <2>2 DEF Armed, Pending
  <1>3. TypeOK
    <2>1. timer_list \in Seq(Timers) /\ pending_list \in Seq(Events)
      BY <1>1 DEF Init
    <2>2. /\ left \in [Timers -> -1 .. MaxDelay] /\ sel \in 0 .. Forever
          /\ wakePipe \in 0 .. PipeCap
      BY BoundsOK DEF Init, Forever
    <2>. QED BY <2>1, <2>2 DEF Init, TypeOK
  <1>4. StartInv /\ RequesterInv /\ RoundInv
    BY DEF Init, StartInv, RequesterInv, RoundInv, Looping
  <1>5. TimersSorted /\ NeverEarly
    BY <1>1, EventsDistinct DEF Init, TimersSorted, NeverEarly
  <1>6. OnePlace
    BY <1>1, <1>2, EventsDistinct DEF Init, OnePlace, IsInjective
  <1>7. HeadInv /\ NoLostWakeup
    BY DEF Init, HeadInv, NoLostWakeup
  <1>. QED BY <1>3, <1>4, <1>5, <1>6, <1>7 DEF IInv, ControlInv, ListInv

LEMMA EventInv == Spec => []IInv
  <1>1. IInv /\ [Next]_vars => IInv'
    BY ControlStep, ListStep, WakeStep DEF IInv
  <1>. QED BY <1>1, EventInitInv, PTL DEF Spec

(* Every variable of the event loop keeps its range, whatever the faults. *)
THEOREM EventTypes == Spec => []TypeOK
  <1>1. IInv => TypeOK
    BY DEF IInv, ControlInv
  <1>. QED BY <1>1, EventInv, PTL

(* ril_timer_add keeps timer_list sorted, for any number of threads and    *)
(* timers, so that looking at its first element is enough.                 *)
THEOREM ListIsSorted == Spec => []TimersSorted
  <1>1. IInv => TimersSorted
    BY DEF IInv, ListInv
  <1>. QED BY <1>1, EventInv, PTL

(* Every allocated UserCallbackInfo is in exactly one place and no freed   *)
(* one is in a list, although both lists share its next and prev.          *)
THEOREM OneListEach == Spec => []OnePlace
  <1>1. IInv => OnePlace
    BY DEF IInv, ListInv
  <1>. QED BY <1>1, EventInv, PTL

(* Though calcNextTimeout and the write to s_wakeupfd take no lock, select *)
(* never sleeps past an armed timer unless its wake-up is on the way.      *)
THEOREM NoWakeupLost == Spec => []NoLostWakeup
  <1>1. IInv => NoLostWakeup
    BY DEF IInv
  <1>. QED BY <1>1, EventInv, PTL

(* No callback runs, or is queued to run, before its time has passed. *)
THEOREM CallbacksAreDue == Spec => []NeverEarly
  <1>1. IInv => NeverEarly
    BY DEF IInv, ListInv
  <1>. QED BY <1>1, EventInv, PTL

-----------------------------------------------------------------------------
(* The event loop implements the timer service.                            *)

(* A step that changes neither where a timer is nor which one runs. *)
LEMMA Stutter ==
  ASSUME \A t \in Timers : /\ current' = t <=> current = t
                           /\ t \in Armed' \cup Pending' <=> t \in Armed \cup Pending
  PROVE  UNCHANGED timerState
  BY DEF timerState

(* ril_timer_add of a timer that was in no list. *)
LEMMA RequestStep ==
  ASSUME NEW t \in Timers, t \notin Armed \cup Pending \cup {current},
         Armed' = Armed \cup {t}, Pending' = Pending, current' = current
  PROVE  Abstract!Next
  <1>1. timerState[t] = "idle"
    BY DEF timerState
  <1>2. timerState' = [timerState EXCEPT ![t] = "armed"]
    BY DEF timerState
  <1>. QED BY <1>1, <1>2 DEF Abstract!Next, Abstract!Request

LEMMA ServiceStep ==
  ControlInv /\ ListInv /\ [Next]_vars => [Abstract!Next]_timerState
  <1>. SUFFICES ASSUME ControlInv, ListInv, [Next]_vars
                PROVE  [Abstract!Next]_timerState
    OBVIOUS
  <1>. USE EventsDistinct
  <1>0. /\ TypeOK /\ RequesterInv /\ RoundInv /\ TimersSorted /\ OnePlace
        /\ Armed \subseteq Timers /\ Pending \subseteq Events
    BY ArmedItems DEF ControlInv, ListInv
  <1>1. CASE \/ UNCHANGED <<timer_list, pending_list, current>>
    <2>1. Armed' = Armed /\ Pending' = Pending /\ current' = current
      BY <1>1 DEF Armed, Pending
    <2>. QED BY <2>1, Stutter
  <1>2. CASE EventInit
    <2>1. timer_list = <<>> /\ pending_list = <<>>
      BY <1>2 DEF EventInit, ControlInv, StartInv, RoundInv
    <2>. QED BY <1>1, <1>2, <2>1 DEF EventInit
  <1>3. ASSUME NEW r \in Requesters, RilTimerAdd(r)
        PROVE  [Abstract!Next]_timerState
    <2>1. PICK d \in 0 .. MaxDelay : TimerAdd(rinfo[r], d)
      BY <1>3 DEF RilTimerAdd
    <2>2. rinfo[r] \in Timers /\ rinfo[r] \notin Armed \cup Pending \cup {current}
      BY <1>3, <1>0 DEF RilTimerAdd, RequesterInv, TypeOK, OnePlace
    <2>3. Armed' = Armed \cup {rinfo[r]}
      BY <2>1, <2>2, <1>0, TimerAddEffect DEF OnePlace
    <2>4. Pending' = Pending /\ current' = current
      BY <1>3 DEF RilTimerAdd, Pending
    <2>. QED BY <2>2, <2>3, <2>4, RequestStep
  <1>4. CASE CallbackRequests
    <2>1. PICK t \in Timers \ heap, d \in 0 .. MaxDelay :
             TimerAdd(t, d) /\ heap' = heap \cup {t}
      BY <1>4 DEF CallbackRequests
    <2>2. t \notin Armed \cup Pending \cup {current}
      BY <2>1, <1>0 DEF OnePlace
    <2>3. Armed' = Armed \cup {t}
      BY <2>1, <2>2, <1>0, TimerAddEffect DEF OnePlace
    <2>4. Pending' = Pending /\ current' = current
      BY <1>4 DEF CallbackRequests, Pending
    <2>. QED BY <2>1, <2>2, <2>3, <2>4, RequestStep
  <1>5. CASE ProcessTimeouts
    <2>1. Armed' \cup Pending' = Armed
      BY <1>5, ExpireEffect
    <2>2. pending_list = <<>> /\ current' = current
      BY <1>5, <1>0 DEF ProcessTimeouts, RoundInv
    <2>3. Pending = {}
      BY <2>2, NoItems DEF Pending
    <2>. QED BY <2>1, <2>2, <2>3, Stutter
  <1>6. CASE ProcessReadReadies
    <2>1. Pending' \ {Wake} = Pending
      BY <1>6, ReadyEffect
    <2>2. Armed' = Armed /\ current' = current
      BY <1>6 DEF ProcessReadReadies, Armed
    <2>. QED BY <2>1, <2>2, Stutter
  <1>7. CASE FireNext
    <2>1. CASE pending_list = <<>>
      BY <1>1, <1>7, <2>1 DEF FireNext
    <2>2. CASE pending_list # <<>>
      <3>1. /\ current' \in Events
            /\ current' \notin Pending' /\ Pending = Pending' \cup {current'}
        BY <1>7, <2>2, FireEffect
      <3>2. current = None /\ Armed' = Armed
        BY <1>7 DEF FireNext, Armed
      <3>3. CASE current' = Wake
        BY <3>1, <3>2, <3>3, Stutter
      <3>4. CASE current' \in Timers
        <4>. DEFINE t == current'
        <4>1. timerState[t] = "armed" /\ \A u \in Timers : timerState[u] # "firing"
          BY <3>1, <3>2, <3>4 DEF timerState
        <4>2. timerState' = [timerState EXCEPT ![t] = "firing"]
          <5>1. timerState' = [u \in Timers |-> IF u = t THEN "firing" ELSE timerState[u]]
            BY <3>1, <3>2, <3>4 DEF timerState
          <5>2. DOMAIN timerState = Timers
            BY DEF timerState
          <5>. HIDE DEF t
          <5>. QED BY <5>1, <5>2, <3>4 DEF timerState
        <4>. QED BY <3>4, <4>1, <4>2 DEF Abstract!Next, Abstract!Fire
      <3>. QED BY <3>1, <3>3, <3>4 DEF Events
    <2>. QED BY <2>1, <2>2
  <1>8. CASE ProcessWakeup
    <2>1. current = Wake /\ current' = None /\ Armed' = Armed /\ Pending' = Pending
      BY <1>8 DEF ProcessWakeup, Armed, Pending
    <2>. QED BY <2>1, Stutter
  <1>9. CASE UserTimerReturns
    <2>. DEFINE t == current
    <2>1. /\ t \in Timers /\ current' = None /\ Armed' = Armed /\ Pending' = Pending
          /\ t \notin Armed \cup Pending
      BY <1>9, <1>0 DEF UserTimerReturns, Armed, Pending, OnePlace
    <2>2. timerState[t] = "firing" /\ timerState' = [timerState EXCEPT ![t] = "idle"]
      BY <2>1 DEF timerState
    <2>. QED BY <2>1, <2>2 DEF Abstract!Next, Abstract!Return
  <1>10. ASSUME \/ StartUp /\ ~EventInit
                \/ \E r \in Requesters : Requester(r) /\ ~RilTimerAdd(r)
                \/ \E r \in Requesters : RilTimerAddCrashes(r)
                \/ CalcHead \/ CalcTimeout \/ SelectReturns \/ SelectFails \/ Tick
                \/ UNCHANGED vars
         PROVE  UNCHANGED <<timer_list, pending_list, current>>
    BY <1>10 DEF StartUp, CreateThread, StartReturns, CreatePipe, AddWakeup, Requester, Calloc,
                 TriggerLoad, TriggerWrite, CalcHead, CalcTimeout, SelectReturns, SelectFails,
                 RilTimerAddCrashes, Tick, vars
  <1>. QED BY <1>1, <1>2, <1>3, <1>4, <1>5, <1>6, <1>7, <1>8, <1>9, <1>10
       DEF Next, StartUp, LoopStep, Requester

(* The event loop, with all its unlocked reads, is the timer service its   *)
(* callers see: a requested callback runs once, one callback at a time.    *)
THEOREM LoopIsTimerService == Spec => ImplementsTimerService
  <1>1. Init => Abstract!Init
    <2>. SUFFICES ASSUME Init PROVE Abstract!Init
      OBVIOUS
    <2>1. timer_list = <<>> /\ pending_list = <<>> /\ current = None
      BY DEF Init
    <2>2. Armed = {} /\ Pending = {}
      BY <2>1, NoItems DEF Armed, Pending
    <2>. QED BY <2>1, <2>2, EventsDistinct DEF Abstract!Init, timerState
  <1>2. IInv /\ [Next]_vars => [Abstract!Next]_timerState
    BY ServiceStep DEF IInv
  <1>. QED BY <1>1, <1>2, EventInv, PTL DEF Spec, ImplementsTimerService, Abstract!Spec

-----------------------------------------------------------------------------
(* The wake-up pipe never fills: every byte in it answers a timer that was  *)
(* added, the timers are limited by the objects there are, and the loop     *)
(* empties the pipe in every round in which select saw it readable.         *)

(* The threads between ril_timer_add and the end of their write. *)
Writers == {r \in Requesters : rpc[r] \in {"trigger", "write"}}

(* Bytes in the pipe or about to be written. *)
PipeLoad == wakePipe + Cardinality(Writers)

(* The timers that left timer_list since the pipe was last seen empty: none, as
   many as there are objects, or twice as many. *)
SeenEmpty ==
    \/ lpc \in {"none", "init", "pipe", "gone", "addWakeup"}
    \/ lpc = "timeouts" /\ rfds = {}

DrainPending ==
    \/ lpc = "reads" /\ rfds # {}
    \/ lpc = "fire" /\ Wake \in Pending \cup {current}

Allowance ==
    IF DrainPending THEN 2 * Cardinality(Timers)
    ELSE IF SeenEmpty THEN 0 ELSE Cardinality(Timers)

PipeInv ==
    /\ lpc \in {"none", "init", "pipe", "gone"} => s_fdWakeupWrite = "stdin"
    /\ s_fdWakeupWrite = "stdin" => wakePipe = 0 /\ \A r \in Requesters : rfd[r] = "stdin"
    /\ PipeLoad <= Cardinality(Requesters) + Cardinality(Armed) + Allowance

LEMMA Counts ==
  ASSUME IsFiniteSet(Requesters), IsFiniteSet(Timers), TypeOK
  PROVE  /\ Cardinality(Requesters) \in Nat /\ Cardinality(Timers) \in Nat
         /\ IsFiniteSet(Writers) /\ Cardinality(Writers) \in 0 .. Cardinality(Requesters)
         /\ IsFiniteSet(Armed) /\ Cardinality(Armed) \in 0 .. Cardinality(Timers)
         /\ wakePipe \in Nat
  <1>1. Writers \in SUBSET Requesters /\ Armed \in SUBSET Timers
    BY ArmedItems DEF Writers
  <1>2. /\ IsFiniteSet(Writers) /\ Cardinality(Writers) <= Cardinality(Requesters)
        /\ IsFiniteSet(Armed) /\ Cardinality(Armed) <= Cardinality(Timers)
    BY <1>1, FS_Subset
  <1>3. /\ Cardinality(Requesters) \in Nat /\ Cardinality(Timers) \in Nat
        /\ Cardinality(Writers) \in Nat /\ Cardinality(Armed) \in Nat
    BY <1>2, FS_CardinalityType
  <1>. QED BY <1>2, <1>3, BoundsOK DEF TypeOK

(* A step that writes nothing and changes neither the threads nor the list. *)
LEMMA LoadUntouched ==
  ASSUME UNCHANGED <<rpc, wakePipe, timer_list>>
  PROVE  PipeLoad' = PipeLoad /\ Armed' = Armed
  BY DEF PipeLoad, Writers, Armed

LEMMA PipeStep ==
  ASSUME IsFiniteSet(Requesters), IsFiniteSet(Timers), IInv, PipeInv, [Next]_vars
  PROVE  PipeInv'
  <1>. DEFINE R == Cardinality(Requesters)
              N == Cardinality(Timers)
              A == Cardinality(Armed)
              W == Cardinality(Writers)
  <1>. USE EventsDistinct
  <1>0. /\ ControlInv /\ ListInv /\ TypeOK /\ RoundInv /\ StartInv /\ RequesterInv
        /\ OnePlace /\ TimersSorted
    BY DEF IInv, ControlInv, ListInv
  <1>1. /\ R \in Nat /\ N \in Nat /\ A \in 0 .. N /\ W \in 0 .. R /\ wakePipe \in Nat
        /\ IsFiniteSet(Armed) /\ IsFiniteSet(Writers)
        /\ wakePipe + W <= R + A + Allowance
    BY <1>0, Counts DEF PipeInv, PipeLoad
  <1>2. Allowance \in Nat /\ Allowance' \in Nat
    BY <1>1 DEF Allowance
  <1>3. ASSUME wakePipe' = 0, rpc' = rpc, Armed' = Armed
        PROVE  PipeLoad' <= R + Cardinality(Armed') + Allowance'
    <2>1. Cardinality(Writers') = W
      BY <1>3 DEF Writers
    <2>2. PipeLoad' = W
      BY <1>1, <1>3, <2>1 DEF PipeLoad
    <2>3. W <= R + A + Allowance'
      <3>1. R \in Nat /\ A \in Nat /\ W \in Nat /\ W <= R
        BY <1>1
      <3>. HIDE DEF R, N, A, W
      <3>2. PICK b \in Nat : Allowance' = b
        BY <1>2
      <3>3. W <= R + A + b
        BY <3>1, <3>2
      <3>. QED BY <3>2, <3>3
    <2>. QED BY <1>3, <2>2, <2>3 DEF A
  <1>4. ASSUME UNCHANGED <<rpc, wakePipe, timer_list>>, Allowance <= Allowance'
        PROVE  PipeLoad' <= R + Cardinality(Armed') + Allowance'
    <2>1. PipeLoad' = wakePipe + W /\ Cardinality(Armed') = A
      BY <1>4, LoadUntouched DEF PipeLoad
    <2>2. wakePipe + W <= R + A + Allowance'
      <3>1. R \in Nat /\ A \in Nat /\ W \in Nat
        BY <1>1
      <3>. HIDE DEF R, N, A, W
      <3>2. PICK a \in Nat, b \in Nat : Allowance = a /\ Allowance' = b /\ a <= b
        BY <1>2, <1>4
      <3>3. wakePipe + W <= R + A + b
        BY <3>1, <3>2, <1>1
      <3>. QED BY <3>2, <3>3
    <2>. QED BY <2>1, <2>2
  <1>5. CASE CreateThread \/ EventInit \/ CreatePipe
    <2>1. wakePipe' = 0 /\ rpc' = rpc /\ Armed' = Armed
      BY <1>5, <1>0 DEF CreateThread, EventInit, CreatePipe, PipeInv, StartInv, Armed
    <2>2. /\ lpc' \in {"none", "init", "pipe", "gone"} => s_fdWakeupWrite' = "stdin"
          /\ \A r \in Requesters : rfd'[r] = "stdin"
      BY <1>5 DEF CreateThread, EventInit, CreatePipe, PipeInv
    <2>. QED BY <1>3, <2>1, <2>2 DEF PipeInv
  <1>6. CASE \/ StartReturns \/ AddWakeup \/ CalcHead \/ CalcTimeout \/ SelectFails
             \/ Tick \/ UserTimerReturns \/ UNCHANGED vars
    <2>1. UNCHANGED <<rpc, wakePipe, timer_list, s_fdWakeupWrite, rfd, pending_list>>
      BY <1>6 DEF StartReturns, AddWakeup, CalcHead, CalcTimeout, SelectFails, Tick,
                  UserTimerReturns, vars
    <2>2. /\ lpc' \in {"none", "init", "pipe", "gone"} => lpc \in {"none", "init", "pipe", "gone"}
          /\ DrainPending <=> DrainPending'
          /\ SeenEmpty' => SeenEmpty
      BY <1>6, <2>1 DEF StartReturns, AddWakeup, CalcHead, CalcTimeout, SelectFails, Tick,
                  UserTimerReturns, vars, DrainPending, SeenEmpty, Pending
    <2>3. Allowance <= Allowance'
      BY <2>2, <1>1 DEF Allowance
    <2>. QED BY <1>4, <2>1, <2>2, <2>3 DEF PipeInv
  <1>7. CASE SelectReturns
    <2>1. /\ UNCHANGED <<rpc, wakePipe, timer_list, s_fdWakeupWrite, rfd>> /\ lpc = "select"
          /\ lpc' = "timeouts" /\ rfds' = Readable /\ Armed' = Armed /\ rfds = {Wake}
      BY <1>7, <1>0 DEF SelectReturns, Armed, RoundInv
    <2>2. CASE rfds' = {}
      <3>1. wakePipe' = 0
        BY <2>1, <2>2, <1>1 DEF Readable
      <3>. QED BY <1>3, <2>1, <3>1 DEF PipeInv
    <2>3. CASE rfds' # {}
      <3>1. Allowance = N /\ Allowance' = N
        BY <2>1, <2>3 DEF Allowance, DrainPending, SeenEmpty
      <3>. QED BY <1>4, <2>1, <3>1, <1>1 DEF PipeInv
    <2>. QED BY <2>2, <2>3
  <1>8. CASE ProcessTimeouts
    <2>1. /\ UNCHANGED <<rpc, wakePipe, s_fdWakeupWrite, rfd, rfds>>
          /\ lpc = "timeouts" /\ lpc' = "reads"
      BY <1>8 DEF ProcessTimeouts
    <2>2. Cardinality(Armed') \in Nat
      <3>1. Armed' \in SUBSET Timers
        BY <1>8, <1>0, ExpireEffect, ArmedItems
      <3>. QED BY <3>1, FS_Subset, FS_CardinalityType
    <2>3. Allowance' = Allowance + N
      BY <2>1, <1>1 DEF Allowance, DrainPending, SeenEmpty
    <2>4. PipeLoad' = wakePipe + W
      BY <2>1 DEF PipeLoad, Writers
    <2>5. PipeLoad' <= R + Cardinality(Armed') + Allowance'
      <3>. HIDE DEF R, N, A, W
      <3>. QED BY <2>2, <2>3, <2>4, <1>1, <1>2
    <2>. QED BY <2>1, <2>5 DEF PipeInv
  <1>9. CASE ProcessReadReadies
    <2>1. /\ UNCHANGED <<rpc, wakePipe, timer_list, s_fdWakeupWrite, rfd, current>>
          /\ lpc = "reads" /\ lpc' = "fire" /\ current = None
      BY <1>9, <1>0 DEF ProcessReadReadies, RoundInv
    <2>2. DrainPending <=> DrainPending'
      <3>1. Wake \in Pending' <=> rfds # {}
        <4>1. watch_table = {Wake} /\ rfds \subseteq {Wake}
          BY <1>0, <2>1 DEF RoundInv, Looping, TypeOK
        <4>2. pending_list' = pending_list \o (IF rfds = {} THEN <<>> ELSE <<Wake>>)
          BY <1>9, <4>1 DEF ProcessReadReadies
        <4>3. pending_list \in Seq(Timers) /\ Wake \notin Pending
          BY <1>9, <1>0, <2>1, ReadyEffect DEF RoundInv
        <4>4. CASE rfds = {}
          <5>1. pending_list' = pending_list
            BY <4>2, <4>3, <4>4, ConcatEmptySeq
          <5>. QED BY <4>3, <4>4, <5>1 DEF Pending
        <4>5. CASE rfds # {}
          <5>. DEFINE one == <<Wake>>
          <5>1. one \in Seq(Events) /\ Wake \in ToSet(one)
            <6>1. one \in Seq(Events) /\ DOMAIN one = {1} /\ one[1] = Wake
              BY DEF Events
            <6>. QED BY <6>1 DEF ToSet
          <5>2. pending_list' = pending_list \o one
            BY <4>2, <4>5
          <5>. HIDE DEF one
          <5>3. Wake \in Pending'
            BY <5>1, <5>2, <1>0, ConcatSet DEF TypeOK, Pending
          <5>. QED BY <4>5, <5>3
        <4>. QED BY <4>4, <4>5
      <3>. QED BY <2>1, <3>1 DEF DrainPending
    <2>3. Allowance <= Allowance'
      BY <2>1, <2>2, <1>1 DEF Allowance, SeenEmpty
    <2>. QED BY <1>4, <2>1, <2>3 DEF PipeInv
  <1>10. CASE FireNext
    <2>1. /\ UNCHANGED <<rpc, wakePipe, timer_list, s_fdWakeupWrite, rfd>>
          /\ lpc = "fire" /\ current = None /\ lpc' \in {"fire", "calcHead"}
      BY <1>10 DEF FireNext
    <2>2. DrainPending <=> DrainPending'
      <3>1. CASE pending_list = <<>>
        <4>1. Pending = {} /\ lpc' = "calcHead"
          BY <1>10, <3>1, NoItems DEF FireNext, Pending
        <4>. QED BY <2>1, <4>1 DEF DrainPending
      <3>2. CASE pending_list # <<>>
        <4>1. Pending = Pending' \cup {current'} /\ lpc' = "fire"
          BY <1>10, <1>0, <3>2, FireEffect DEF FireNext
        <4>. QED BY <2>1, <4>1 DEF DrainPending
      <3>. QED BY <3>1, <3>2
    <2>3. Allowance <= Allowance'
      BY <2>1, <2>2, <1>1 DEF Allowance, SeenEmpty
    <2>. QED BY <1>4, <2>1, <2>3 DEF PipeInv
  <1>11. CASE ProcessWakeup
    <2>1. /\ wakePipe' = 0 /\ UNCHANGED <<rpc, s_fdWakeupWrite, rfd, lpc>> /\ Armed' = Armed
      BY <1>11 DEF ProcessWakeup, Armed
    <2>. QED BY <1>3, <2>1 DEF PipeInv
  <1>12. CASE CallbackRequests
    <2>1. PICK t \in Timers \ heap, d \in 0 .. MaxDelay :
             TimerAdd(t, d) /\ heap' = heap \cup {t}
      BY <1>12 DEF CallbackRequests
    <2>2. UNCHANGED <<rpc, wakePipe, s_fdWakeupWrite, rfd, lpc, rfds, pending_list, current>>
      BY <1>12 DEF CallbackRequests
    <2>3. t \notin Armed
      BY <2>1, <1>0 DEF OnePlace
    <2>4. Armed' = Armed \cup {t}
      BY <2>1, <2>3, <1>0, TimerAddEffect DEF OnePlace
    <2>5. Cardinality(Armed') = A + 1
      BY <1>1, <2>3, <2>4, FS_AddElement
    <2>6. Allowance' = Allowance /\ PipeLoad' = wakePipe + W
      BY <2>2 DEF Allowance, DrainPending, SeenEmpty, Pending, PipeLoad, Writers
    <2>7. PipeLoad' <= R + Cardinality(Armed') + Allowance'
      <3>. HIDE DEF R, N, A, W
      <3>. QED BY <2>5, <2>6, <1>1, <1>2
    <2>. QED BY <2>2, <2>7 DEF PipeInv
  <1>13. ASSUME NEW r \in Requesters, Calloc(r) \/ TriggerLoad(r)
         PROVE  PipeInv'
    <2>1. /\ UNCHANGED <<wakePipe, timer_list, s_fdWakeupWrite, lpc, rfds, pending_list, current>>
          /\ \A q \in Requesters : rfd'[q] \in {rfd[q], s_fdWakeupWrite}
      BY <1>13, <1>0 DEF Calloc, TriggerLoad, TypeOK
    <2>2. Writers' = Writers
      BY <1>13, <1>0 DEF Calloc, TriggerLoad, Writers, TypeOK
    <2>3. Allowance' = Allowance /\ PipeLoad' = PipeLoad /\ Armed' = Armed
      BY <2>1, <2>2 DEF Allowance, DrainPending, SeenEmpty, Pending, PipeLoad, Armed
    <2>. QED BY <2>1, <2>3 DEF PipeInv
  <1>14. ASSUME NEW r \in Requesters, RilTimerAdd(r)
         PROVE  PipeInv'
    <2>1. PICK d \in 0 .. MaxDelay : TimerAdd(rinfo[r], d)
      BY <1>14 DEF RilTimerAdd
    <2>2. /\ UNCHANGED <<wakePipe, s_fdWakeupWrite, rfd, lpc, rfds, pending_list, current>>
          /\ rpc[r] = "add" /\ rpc' = [rpc EXCEPT ![r] = "trigger"]
      BY <1>14 DEF RilTimerAdd
    <2>3. rinfo[r] \in Timers /\ rinfo[r] \notin Armed
      BY <2>2, <1>0 DEF RequesterInv, TypeOK, OnePlace
    <2>4. Armed' = Armed \cup {rinfo[r]}
      BY <2>1, <2>3, <1>0, TimerAddEffect DEF OnePlace
    <2>5. Cardinality(Armed') = A + 1
      BY <1>1, <2>3, <2>4, FS_AddElement
    <2>6. Writers' = Writers \cup {r} /\ r \notin Writers
      BY <2>2, <1>0 DEF Writers, TypeOK
    <2>7. Cardinality(Writers') = W + 1
      BY <1>1, <2>6, FS_AddElement
    <2>8. Allowance' = Allowance /\ PipeLoad' = wakePipe + (W + 1)
      BY <2>2, <2>7 DEF Allowance, DrainPending, SeenEmpty, Pending, PipeLoad
    <2>9. PipeLoad' <= R + Cardinality(Armed') + Allowance'
      <3>. HIDE DEF R, N, A, W
      <3>. QED BY <2>5, <2>8, <1>1, <1>2
    <2>. QED BY <2>2, <2>9 DEF PipeInv
  <1>15. ASSUME NEW r \in Requesters, TriggerWrite(r)
         PROVE  PipeInv'
    <2>1. /\ UNCHANGED <<s_fdWakeupWrite, lpc, rfds, pending_list, current, timer_list>>
          /\ rpc[r] = "write" /\ rpc' = [rpc EXCEPT ![r] = "idle"]
          /\ rfd' = [rfd EXCEPT ![r] = "stdin"]
          /\ wakePipe' \in {wakePipe, wakePipe + 1}
          /\ rfd[r] = "stdin" => wakePipe' = wakePipe
      BY <1>15 DEF TriggerWrite
    <2>2. Writers' = Writers \ {r} /\ r \in Writers
      BY <2>1, <1>0 DEF Writers, TypeOK
    <2>3. Cardinality(Writers') = W - 1
      BY <1>1, <2>2, FS_RemoveElement
    <2>4. Allowance' = Allowance /\ PipeLoad' = wakePipe' + (W - 1) /\ Armed' = Armed
      BY <2>1, <2>3 DEF Allowance, DrainPending, SeenEmpty, Pending, PipeLoad, Armed
    <2>5. PipeLoad' <= R + Cardinality(Armed') + Allowance'
      <3>1. wakePipe' <= wakePipe + 1 /\ wakePipe' \in Nat
        BY <2>1, <1>1
      <3>. HIDE DEF R, N, W
      <3>. QED BY <2>4, <3>1, <1>1, <1>2
    <2>6. \A q \in Requesters : rfd'[q] \in {rfd[q], "stdin"}
      BY <2>1, <1>0 DEF TypeOK
    <2>. QED BY <2>1, <2>5, <2>6 DEF PipeInv
  <1>16. ASSUME NEW r \in Requesters, RilTimerAddCrashes(r)
         PROVE  PipeInv'
    <2>1. /\ UNCHANGED <<rpc, wakePipe, timer_list, s_fdWakeupWrite, rfd, rfds, pending_list, current>>
          /\ lpc' = "killed" /\ lpc \in {"none", "init", "gone", "killed"}
      BY <1>16, <1>0 DEF RilTimerAddCrashes, StartInv
    <2>2. DrainPending <=> DrainPending'
      BY <2>1 DEF DrainPending, Pending
    <2>3. Allowance <= Allowance'
      BY <2>1, <2>2, <1>1 DEF Allowance, SeenEmpty
    <2>. QED BY <1>4, <2>1, <2>3 DEF PipeInv
  <1>. QED BY <1>5, <1>6, <1>7, <1>8, <1>9, <1>10, <1>11, <1>12, <1>13, <1>14, <1>15, <1>16
       DEF Next, StartUp, LoopStep, Requester

(* No thread waits in its write to the wake-up pipe, not even one that holds
   s_wakeLockCountMutex, once the pipe holds three bytes for every timer object
   and one for every thread: the kernel's pipe holds 65536. *)
THEOREM PipeNeverFills ==
  ASSUME IsFiniteSet(Requesters), IsFiniteSet(Timers),
         Cardinality(Requesters) + 3 * Cardinality(Timers) <= PipeCap
  PROVE  Spec => []WritersNeverWait
  <1>1. Init => PipeInv
    <2>. SUFFICES ASSUME Init PROVE PipeInv
      OBVIOUS
    <2>1. TypeOK /\ Writers = {}
      BY EventInitInv DEF IInv, ControlInv, Init, Writers
    <2>2. PipeLoad = 0
      BY <2>1, FS_EmptySet DEF Init, PipeLoad
    <2>3. Cardinality(Requesters) \in Nat /\ Cardinality(Armed) \in Nat /\ Allowance = 0
      BY <2>1, Counts DEF Init, Allowance, DrainPending, SeenEmpty
    <2>. QED BY <2>2, <2>3 DEF Init, PipeInv
  <1>2. IInv /\ PipeInv /\ [Next]_vars => PipeInv'
    BY PipeStep
  <1>3. IInv /\ PipeInv => WritersNeverWait
    <2>. SUFFICES ASSUME IInv, PipeInv, NEW r \in Requesters, rpc[r] = "write"
                  PROVE  wakePipe < PipeCap
      BY DEF WritersNeverWait
    <2>1. TypeOK
      BY DEF IInv, ControlInv
    <2>2. r \in Writers
      BY DEF Writers
    <2>. DEFINE R == Cardinality(Requesters)
                N == Cardinality(Timers)
                A == Cardinality(Armed)
                W == Cardinality(Writers)
    <2>3. /\ R \in Nat /\ N \in Nat /\ A \in 0 .. N /\ W \in 0 .. R /\ wakePipe \in Nat
          /\ wakePipe + W <= R + A + Allowance /\ Allowance \in {0, N, 2 * N}
      BY <2>1, Counts DEF PipeInv, PipeLoad, Allowance
    <2>4. W # 0
      BY <2>1, <2>2, Counts, FS_EmptySet
    <2>5. R + 3 * N <= PipeCap /\ PipeCap \in Nat
      BY BoundsOK
    <2>. HIDE DEF R, N, A, W
    <2>. QED BY <2>3, <2>4, <2>5
  <1>. QED BY <1>1, <1>2, <1>3, EventInv, PTL DEF Spec

============================================================================
