---------------------------- MODULE Kqueue_proofs ----------------------------
(***************************************************************************)
(* Proofs about Kqueue, for any number of connections that own the         *)
(* descriptor number in turn and any size of the output: the type          *)
(* invariant, and that the kernel's filters with the list of changes are   *)
(* the interest set of the owner.                                          *)
(***************************************************************************)
EXTENDS Kqueue, SequenceTheorems, TLAPS

\* Whether filter f is on once the changes s are applied to the filters F:
\* Pending(f) is Applied(filters, changes, f).
Applied(F, s, f) ==
    \/ \E i \in 1 .. Len(s) :
          /\ s[i].filter = f /\ s[i].op = "ADD"
          /\ \A j \in i + 1 .. Len(s) : s[j].filter # f
    \/ f \in F /\ \A i \in 1 .. Len(s) : s[i].filter # f

\* What an earlier owner of the number left on the list adds up to nothing, or to
\* what one of its late writes asks about.
NothingLeft == conn # "open" => \A f \in Filters : Pending(f) => AskedByEarlier(f)

\* A connection that is not open yet has no interest, and no output of its own.
Fresh == conn = "new" => events = {} /\ (out > 0 => mixed)

\* The interest set follows the output.
EventsFollowBuffer ==
    conn = "open" => /\ "Write" \in events => out > 0
                     /\ out > 0 => "Write" \in events \/ mixed
                     /\ "Read" \notin events => out > 0

\* Only the newest connection's closure of newConnected waits, and once: it never
\* runs for a connection that is open or closed.
OneConnected ==
    \A i \in 1 .. Len(functions) :
        functions[i][1] = "connected" =>
            /\ conn = "new"
            /\ \A j \in 1 .. Len(functions) : functions[j][1] = "connected" => j = i

\* The inductive invariant.
IInv ==
    /\ TypeOK
    /\ InterestApplied
    /\ NothingLeft
    /\ Fresh
    /\ EventsFollowBuffer
    /\ OneConnected

Interests == SUBSET (Filters \cup {"Err"})
EventsUnderWay == [new : Interests, old : Interests, chg : Seq(Changes)]

\* The changes of an event under way lead to its interest set.
Consistent(e) ==
    \A f \in Filters :
        /\ f \in e.new => Applied(filters, changes \o e.chg, f)
        /\ Applied(filters, changes \o e.chg, f) => f \in e.new \/ AskedByEarlier(f)

\* So do the changes on the list.
Matches ==
    \A f \in Filters : /\ f \in events => Pending(f)
                       /\ Pending(f) => f \in events \/ AskedByEarlier(f)
------------------------------------------------------------------------------
(* Lists of changes.                                                       *)

\* The kernel applies the first change on the list.
LEMMA HeadApplied ==
    ASSUME NEW s \in Seq(Changes), s # <<>>, NEW F, NEW G, NEW f,
           G = IF Head(s).op = "ADD" THEN F \cup {Head(s).filter}
                                     ELSE F \ {Head(s).filter}
    PROVE  Applied(F, s, f) <=> Applied(G, Tail(s), f)
<1>1. /\ Len(s) \in Nat \ {0} /\ Head(s) = s[1] /\ Head(s) \in Changes
      /\ Tail(s) \in Seq(Changes) /\ Len(Tail(s)) = Len(s) - 1
      /\ \A i \in 1 .. Len(Tail(s)) : Tail(s)[i] = s[i + 1]
  BY HeadTailProperties, EmptySeq, LenProperties
<1> DEFINE n == Len(s)
           Last(i) == /\ s[i].filter = f /\ s[i].op = "ADD"
                      /\ \A j \in i + 1 .. n : s[j].filter # f
           LastT(i) == /\ Tail(s)[i].filter = f /\ Tail(s)[i].op = "ADD"
                       /\ \A j \in i + 1 .. Len(Tail(s)) : Tail(s)[j].filter # f
<1>2. \A i \in 1 .. Len(Tail(s)) : LastT(i) <=> Last(i + 1)
  <2> SUFFICES ASSUME NEW i \in 1 .. Len(Tail(s)) PROVE LastT(i) <=> Last(i + 1)
    OBVIOUS
  <2>1. ASSUME \A j \in i + 1 .. Len(Tail(s)) : Tail(s)[j].filter # f,
               NEW j \in (i + 1) + 1 .. n
        PROVE  s[j].filter # f
    <3>1. j - 1 \in i + 1 .. Len(Tail(s)) /\ j - 1 \in 1 .. Len(Tail(s))
      BY <1>1
    <3>2. Tail(s)[j - 1] = s[j]
      BY <1>1, <3>1
    <3> QED BY <2>1, <3>1, <3>2
  <2>2. ASSUME \A j \in (i + 1) + 1 .. n : s[j].filter # f,
               NEW j \in i + 1 .. Len(Tail(s))
        PROVE  Tail(s)[j].filter # f
    <3>1. j + 1 \in (i + 1) + 1 .. n /\ j \in 1 .. Len(Tail(s))
      BY <1>1
    <3>2. Tail(s)[j] = s[j + 1]
      BY <1>1, <3>1
    <3> QED BY <2>2, <3>1, <3>2
  <2> QED BY <1>1, <2>1, <2>2
<1>3. (\A i \in 1 .. n : s[i].filter # f)
         <=> s[1].filter # f /\ \A i \in 1 .. Len(Tail(s)) : Tail(s)[i].filter # f
  <2>1. ASSUME s[1].filter # f, \A i \in 1 .. Len(Tail(s)) : Tail(s)[i].filter # f,
               NEW i \in 1 .. n
        PROVE  s[i].filter # f
    <3>1. CASE i = 1
      BY <2>1, <3>1
    <3>2. CASE i # 1
      <4>1. i - 1 \in 1 .. Len(Tail(s)) /\ Tail(s)[i - 1] = s[i]
        BY <1>1, <3>2
      <4> QED BY <2>1, <4>1
    <3> QED BY <3>1, <3>2
  <2>2. ASSUME \A i \in 1 .. n : s[i].filter # f, NEW i \in 1 .. Len(Tail(s))
        PROVE  Tail(s)[i].filter # f
    BY <1>1, <2>2
  <2> QED BY <1>1, <2>1, <2>2
<1>4. (\E i \in 1 .. n : Last(i))
         <=> Last(1) \/ \E i \in 1 .. Len(Tail(s)) : LastT(i)
  <2>1. ASSUME NEW i \in 1 .. n, Last(i), i # 1
        PROVE  \E k \in 1 .. Len(Tail(s)) : LastT(k)
    <3>1. i - 1 \in 1 .. Len(Tail(s)) /\ (i - 1) + 1 = i
      BY <1>1, <2>1
    <3> HIDE DEF Last, LastT
    <3>2. LastT(i - 1)
      BY <1>2, <2>1, <3>1
    <3> QED BY <3>1, <3>2
  <2>2. ASSUME NEW i \in 1 .. Len(Tail(s)), LastT(i)
        PROVE  \E k \in 1 .. n : Last(k)
    <3>1. i + 1 \in 1 .. n
      BY <1>1
    <3> HIDE DEF Last, LastT
    <3> QED BY <1>2, <2>2, <3>1
  <2>3. 1 \in 1 .. n
    BY <1>1
  <2> HIDE DEF Last, LastT
  <2> QED BY <2>1, <2>2, <2>3
<1>5. Last(1) <=> /\ s[1].filter = f /\ s[1].op = "ADD"
                  /\ \A i \in 1 .. Len(Tail(s)) : Tail(s)[i].filter # f
  <2>1. ASSUME \A j \in 2 .. n : s[j].filter # f, NEW i \in 1 .. Len(Tail(s))
        PROVE  Tail(s)[i].filter # f
    <3>1. i + 1 \in 2 .. n /\ Tail(s)[i] = s[i + 1]
      BY <1>1
    <3> QED BY <2>1, <3>1
  <2>2. ASSUME \A i \in 1 .. Len(Tail(s)) : Tail(s)[i].filter # f, NEW j \in 2 .. n
        PROVE  s[j].filter # f
    <3>1. j - 1 \in 1 .. Len(Tail(s)) /\ Tail(s)[j - 1] = s[j]
      BY <1>1
    <3> QED BY <2>2, <3>1
  <2> QED BY <2>1, <2>2
<1>6. /\ Applied(F, s, f) <=> \/ \E i \in 1 .. n : Last(i)
                              \/ f \in F /\ \A i \in 1 .. n : s[i].filter # f
      /\ Applied(G, Tail(s), f) <=>
            \/ \E i \in 1 .. Len(Tail(s)) : LastT(i)
            \/ f \in G /\ \A i \in 1 .. Len(Tail(s)) : Tail(s)[i].filter # f
  BY DEF Applied
<1>7. f \in G <=> \/ s[1].filter = f /\ s[1].op = "ADD"
                  \/ s[1].filter # f /\ f \in F
  BY <1>1
<1> HIDE DEF Last, LastT
<1> QED BY <1>3, <1>4, <1>5, <1>6, <1>7

\* Fewer filters in the kernel, fewer in the end.
LEMMA FewerApplied ==
    ASSUME NEW s, NEW F, NEW G, G \subseteq F, NEW f, Applied(G, s, f)
    PROVE  Applied(F, s, f)
  BY DEF Applied

\* One more change decides about its filter.
LEMMA LastApplied ==
    ASSUME NEW s \in Seq(Changes), NEW c \in Changes, NEW F, NEW f
    PROVE  /\ Append(s, c) \in Seq(Changes)
           /\ Applied(F, Append(s, c), f) <=>
                 IF c.filter = f THEN c.op = "ADD" ELSE Applied(F, s, f)
<1>1. /\ Append(s, c) \in Seq(Changes) /\ Len(s) \in Nat
      /\ Len(Append(s, c)) = Len(s) + 1
      /\ \A i \in 1 .. Len(s) : Append(s, c)[i] = s[i]
      /\ Append(s, c)[Len(s) + 1] = c
  BY AppendProperties, LenProperties
<1> DEFINE t == Append(s, c)
<1> HIDE DEF t
<1>2. /\ Len(t) = Len(s) + 1 /\ t[Len(s) + 1] = c
      /\ \A i \in 1 .. Len(s) : t[i] = s[i]
  BY <1>1 DEF t
<1>3. CASE c.filter = f
  <2>1. Len(s) + 1 \in 1 .. Len(t) /\ (\A j \in (Len(s) + 1) + 1 .. Len(t) : FALSE)
    BY <1>1, <1>2
  <2>2. Applied(F, t, f) => c.op = "ADD"
    <3>1. ASSUME NEW i \in 1 .. Len(t), t[i].filter = f, t[i].op = "ADD",
                 \A j \in i + 1 .. Len(t) : t[j].filter # f
          PROVE  c.op = "ADD"
      <4>1. CASE i = Len(s) + 1
        BY <1>2, <3>1, <4>1
      <4>2. CASE i # Len(s) + 1
        <5>1. Len(s) + 1 \in i + 1 .. Len(t)
          BY <1>1, <1>2, <4>2
        <5> QED BY <1>2, <1>3, <3>1, <5>1
      <4> QED BY <4>1, <4>2
    <3>2. ~(\A i \in 1 .. Len(t) : t[i].filter # f)
      BY <1>2, <1>3, <2>1
    <3> QED BY <3>1, <3>2 DEF Applied
  <2>3. c.op = "ADD" => Applied(F, t, f)
    BY <1>2, <1>3, <2>1 DEF Applied
  <2> QED BY <1>1, <1>3, <2>2, <2>3 DEF t
<1>4. CASE c.filter # f
  <2>1. (\A i \in 1 .. Len(t) : t[i].filter # f) <=> \A i \in 1 .. Len(s) : s[i].filter # f
    BY <1>1, <1>2, <1>4
  <2>2. ASSUME NEW i \in 1 .. Len(s)
        PROVE  (\A j \in i + 1 .. Len(t) : t[j].filter # f)
                  <=> \A j \in i + 1 .. Len(s) : s[j].filter # f
    BY <1>1, <1>2, <1>4
  <2>3. ASSUME NEW i \in 1 .. Len(t), t[i].filter = f PROVE i \in 1 .. Len(s)
    BY <1>1, <1>2, <1>4, <2>3
  <2>4. ASSUME NEW i \in 1 .. Len(s) PROVE i \in 1 .. Len(t) /\ t[i] = s[i]
    BY <1>1, <1>2
  <2>5. Applied(F, t, f) <=> Applied(F, s, f)
    BY <2>1, <2>2, <2>3, <2>4 DEF Applied
  <2> QED BY <1>1, <1>4, <2>5 DEF t
<1> QED BY <1>3, <1>4
------------------------------------------------------------------------------
(* Changes of the interest set.                                            *)

\* Concatenation of lists of changes is associative.
LEMMA Associative ==
    \A s, t, u \in Seq(Changes) : (s \o t) \o u = s \o (t \o u)
<1> TAKE s, t, u \in Seq(Changes)
<1> QED BY ConcatAssociative, SMTT(30)

\* The change of one filter, added to a list.
LEMMA OneKEvent ==
    ASSUME owner \in Owners, NEW s \in Seq(Changes), NEW g \in Filters,
           NEW old, NEW new, NEW F, NEW f
    PROVE  /\ kEvent(g, old, new) \in Seq(Changes)
           /\ s \o kEvent(g, old, new) \in Seq(Changes)
           /\ Applied(F, s \o kEvent(g, old, new), f) <=>
                 IF f # g \/ (f \in new <=> f \in old) THEN Applied(F, s, f)
                                                       ELSE f \in new
<1>1. \A op \in {"ADD", "DELETE"} : /\ Change(g, op) \in Changes
                                    /\ Change(g, op).filter = g
                                    /\ Change(g, op).op = op
  BY DEF Change, Changes
<1>2. ASSUME NEW op \in {"ADD", "DELETE"}, kEvent(g, old, new) = <<Change(g, op)>>
      PROVE  /\ kEvent(g, old, new) \in Seq(Changes)
             /\ s \o kEvent(g, old, new) \in Seq(Changes)
             /\ Applied(F, s \o kEvent(g, old, new), f) <=>
                   IF g = f THEN op = "ADD" ELSE Applied(F, s, f)
  <2> DEFINE c == Change(g, op)
  <2>1. c \in Changes /\ c.filter = g /\ c.op = op
    BY <1>1
  <2>2. kEvent(g, old, new) = <<c>>
    BY <1>2
  <2> HIDE DEF c
  <2>3. <<c>> \in Seq(Changes) /\ s \o <<c>> = Append(s, c)
    BY <2>1, AppendIsConcat
  <2>4. /\ Append(s, c) \in Seq(Changes)
        /\ Applied(F, Append(s, c), f) <=>
              IF c.filter = f THEN c.op = "ADD" ELSE Applied(F, s, f)
    BY <2>1, LastApplied
  <2> QED BY <2>1, <2>2, <2>3, <2>4
<1>3. CASE g \in new \ old
  <2>1. kEvent(g, old, new) = <<Change(g, "ADD")>>
    BY <1>3 DEF kEvent
  <2> QED BY <1>2, <1>3, <2>1
<1>4. CASE g \in old \ new
  <2>1. kEvent(g, old, new) = <<Change(g, "DELETE")>>
    BY <1>4 DEF kEvent
  <2> QED BY <1>2, <1>4, <2>1
<1>5. CASE g \notin new \ old /\ g \notin old \ new
  <2>1. kEvent(g, old, new) = <<>>
    BY <1>5 DEF kEvent
  <2>2. <<>> \in Seq(Changes) /\ s \o <<>> = s
    BY ConcatEmptySeq
  <2> QED BY <1>5, <2>1, <2>2
<1> QED BY <1>3, <1>4, <1>5

\* The changes from old to new, added to a list.
LEMMA KEventsApplied ==
    ASSUME owner \in Owners, NEW s \in Seq(Changes), NEW old, NEW new,
           NEW F, NEW f \in Filters
    PROVE  /\ kEvents(old, new) \in Seq(Changes)
           /\ s \o kEvents(old, new) \in Seq(Changes)
           /\ Applied(F, s \o kEvents(old, new), f) <=>
                 IF f \in new <=> f \in old THEN Applied(F, s, f) ELSE f \in new
<1> DEFINE r == kEvent("Read", old, new)
           w == kEvent("Write", old, new)
           t == s \o r
<1>1. "Read" \in Filters /\ "Write" \in Filters /\ Filters = {"Read", "Write"}
  BY DEF Filters
<1>2. /\ r \in Seq(Changes) /\ t \in Seq(Changes)
      /\ Applied(F, t, f) <=>
            IF f # "Read" \/ (f \in new <=> f \in old) THEN Applied(F, s, f)
                                                       ELSE f \in new
  BY <1>1, OneKEvent
<1> HIDE DEF t
<1>3. /\ w \in Seq(Changes) /\ t \o w \in Seq(Changes)
      /\ Applied(F, t \o w, f) <=>
            IF f # "Write" \/ (f \in new <=> f \in old) THEN Applied(F, t, f)
                                                        ELSE f \in new
  BY <1>1, <1>2, OneKEvent
<1>4. r \o w \in Seq(Changes) /\ s \o (r \o w) = t \o w
  <2> HIDE DEF r, w
  <2>1. r \o w \in Seq(Changes)
    BY <1>2, <1>3, ConcatProperties
  <2>2. s \o (r \o w) = (s \o r) \o w
    BY <1>2, <1>3, Associative, SMTT(30)
  <2> QED BY <2>1, <2>2 DEF t
<1> QED BY <1>1, <1>2, <1>3, <1>4 DEF kEvents

\* update: the changes of the event under way lead to the new interest set.
LEMMA UpdateConsistent ==
    ASSUME TypeOK, NEW e \in EventsUnderWay, Consistent(e), NEW new \in Interests
    PROVE  /\ update(e, new) \in EventsUnderWay
           /\ Consistent(update(e, new))
           /\ update(e, new).new = new /\ update(e, new).old = e.new
<1> DEFINE k == kEvents(e.new, new)
<1>1. changes \in Seq(Changes) /\ e.chg \in Seq(Changes) /\ owner \in Owners
      /\ e.new \in Interests
  BY DEF TypeOK, EventsUnderWay
<1> DEFINE s == changes \o e.chg
<1>2. s \in Seq(Changes)
  BY <1>1, ConcatProperties
<1> HIDE DEF s
<1>3. ASSUME NEW f \in Filters
      PROVE  /\ k \in Seq(Changes)
             /\ Applied(filters, s \o k, f) <=>
                   IF f \in new <=> f \in e.new THEN Applied(filters, s, f)
                                                ELSE f \in new
  BY <1>1, <1>2, KEventsApplied
<1>4. k \in Seq(Changes)
  BY <1>3 DEF Filters
<1> HIDE DEF k
<1>5. e.chg \o k \in Seq(Changes) /\ changes \o (e.chg \o k) = s \o k
  <2>1. e.chg \o k \in Seq(Changes)
    BY <1>1, <1>4, ConcatProperties
  <2>2. changes \o (e.chg \o k) = (changes \o e.chg) \o k
    BY <1>1, <1>4, Associative, Zenon
  <2> QED BY <2>1, <2>2 DEF s
<1>6. update(e, new) = [new |-> new, old |-> e.new, chg |-> e.chg \o k]
  BY DEF update, oldForUpdate, k
<1>7. update(e, new) \in EventsUnderWay
  BY <1>1, <1>5, <1>6 DEF EventsUnderWay
<1>8. Consistent(update(e, new))
  <2> SUFFICES ASSUME NEW f \in Filters
               PROVE  /\ f \in new => Applied(filters, changes \o update(e, new).chg, f)
                      /\ Applied(filters, changes \o update(e, new).chg, f)
                            => f \in new \/ AskedByEarlier(f)
    BY <1>6 DEF Consistent
  <2>1. update(e, new).chg = e.chg \o k
    BY <1>6
  <2>3. changes \o update(e, new).chg = s \o k
    BY <1>5, <2>1, Zenon
  <2>2. /\ f \in e.new => Applied(filters, s, f)
        /\ Applied(filters, s, f) => f \in e.new \/ AskedByEarlier(f)
    BY DEF Consistent, s
  <2> QED BY <1>3, <2>2, <2>3
<1> QED BY <1>6, <1>7, <1>8

\* The event of an open connection is consistent before it is changed.
LEMMA ThisEventConsistent ==
    ASSUME TypeOK, Matches
    PROVE  /\ ThisEvent \in EventsUnderWay
           /\ Consistent(ThisEvent)
           /\ ThisEvent.new = events
<1>1. ThisEvent = [new |-> events, old |-> oldEvents, chg |-> <<>>]
  BY DEF ThisEvent
<1>2. <<>> \in Seq(Changes) /\ changes \o <<>> = changes
  BY ConcatEmptySeq DEF TypeOK
<1>3. ThisEvent \in EventsUnderWay
  BY <1>1, <1>2 DEF EventsUnderWay, Interests, TypeOK
<1>4. Consistent(ThisEvent)
  BY <1>1, <1>2 DEF Consistent, Matches, Pending, Applied
<1> QED BY <1>1, <1>3, <1>4

\* A consistent event that is left as it is, the kernel's filters unchanged.
LEMMA BecomesApplied ==
    ASSUME TypeOK, NEW e \in EventsUnderWay, Consistent(e), Becomes(e),
           UNCHANGED <<filters, asking>>
    PROVE  /\ events' \in Interests /\ oldEvents' \in Interests
           /\ changes' \in Seq(Changes)
           /\ events' = e.new
           /\ Matches'
<1>1. /\ e.new \in Interests /\ e.old \in Interests /\ e.chg \in Seq(Changes)
      /\ changes \in Seq(Changes)
  BY DEF EventsUnderWay, TypeOK
<1>2. changes' \in Seq(Changes) /\ changes' = changes \o e.chg
  BY <1>1, ConcatProperties DEF Becomes
<1>3. \A f \in Filters : /\ f \in e.new => Applied(filters', changes', f)
                         /\ Applied(filters', changes', f)
                               => f \in e.new \/ AskedByEarlier(f)'
  BY <1>2 DEF Consistent, AskedByEarlier
<1>5. events' = e.new
  BY DEF Becomes
<1>4. Matches'
  BY <1>3, <1>5 DEF Matches, Pending, Applied
<1> QED BY <1>1, <1>2, <1>4 DEF Becomes

\* closeEvent leaves nothing on the list that turns a filter on.
LEMMA closeEventApplied ==
    ASSUME TypeOK, Matches, closeEvent, UNCHANGED asking
    PROVE  /\ events' \in Interests /\ oldEvents' \in Interests
           /\ changes' \in Seq(Changes)
           /\ conn' = "closed" /\ filters' = {}
           /\ \A f \in Filters : Pending(f)' => AskedByEarlier(f)'
<1> DEFINE d == DisableAll(ThisEvent)
           k == kEvents(events, {})
<1>1. /\ d \in EventsUnderWay /\ Consistent(d)
      /\ d.new = {} /\ d.old = events
  BY ThisEventConsistent, UpdateConsistent DEF DisableAll, Interests
<1>2. /\ d.chg \in Seq(Changes) /\ changes \in Seq(Changes) /\ owner \in Owners
  BY <1>1 DEF EventsUnderWay, TypeOK
<1> HIDE DEF d
<1> DEFINE s == changes \o d.chg
<1>12. s \in Seq(Changes)
  BY <1>2, ConcatProperties
<1> HIDE DEF s
<1>3. ASSUME NEW f \in Filters
      PROVE  /\ k \in Seq(Changes)
             /\ Applied(filters, s \o k, f) <=>
                   IF f \in {} <=> f \in events THEN Applied(filters, s, f)
                                                ELSE f \in {}
  <2> DEFINE none == {}
  <2> HIDE DEF none
  <2>1. /\ kEvents(events, none) \in Seq(Changes)
        /\ Applied(filters, s \o kEvents(events, none), f) <=>
              IF f \in none <=> f \in events THEN Applied(filters, s, f)
                                            ELSE f \in none
    BY <1>2, <1>12, KEventsApplied
  <2> QED BY <2>1 DEF none
<1>4. k \in Seq(Changes)
  BY <1>3 DEF Filters
<1>5. UnRegister(d) = [d EXCEPT !.chg = d.chg \o k]
  BY <1>1 DEF UnRegister
<1> HIDE DEF k
<1>6. /\ UnRegister(d).new = {} /\ UnRegister(d).old = events
      /\ UnRegister(d).chg = d.chg \o k
  BY <1>1, <1>5 DEF EventsUnderWay
<1>7. /\ events' = {} /\ oldEvents' = events /\ changes' = changes \o (d.chg \o k)
      /\ conn' = "closed" /\ filters' = {}
  BY <1>6 DEF closeEvent, Becomes, d
<1>8. changes' \in Seq(Changes) /\ changes' = s \o k
  <2>1. changes \o (d.chg \o k) = (changes \o d.chg) \o k
    BY <1>2, <1>4, Associative, Zenon
  <2>2. s \o k \in Seq(Changes)
    BY <1>4, <1>12, ConcatProperties
  <2> QED BY <1>7, <2>1, <2>2 DEF s
<1>9. ASSUME NEW f \in Filters, Applied(filters, changes', f) PROVE AskedByEarlier(f)
  <2>1. Applied(filters, s, f) => AskedByEarlier(f)
    BY <1>1 DEF Consistent, s
  <2> QED BY <1>3, <1>8, <1>9, <2>1
<1>10. \A f \in Filters : Applied(filters', changes', f) => AskedByEarlier(f)
  BY <1>7, <1>9, FewerApplied
<1>11. \A f \in Filters : Pending(f)' => AskedByEarlier(f)'
  BY <1>10 DEF Pending, Applied, AskedByEarlier
<1> QED BY <1>7, <1>8, <1>11 DEF TypeOK, Interests
------------------------------------------------------------------------------
(* The handlers.                                                           *)

\* What a handler may change of the owner, and what it keeps.
ConnTypes ==
    /\ filters \subseteq Filters
    /\ conn \in {"new", "open", "closed"}
    /\ events \in Interests /\ oldEvents \in Interests
    /\ out \in 0 .. MaxOut
    /\ mixed \in BOOLEAN /\ asking \subseteq Owners
    /\ changes \in Seq(Changes)
ConnInv == ConnTypes /\ InterestApplied /\ NothingLeft /\ Fresh /\ EventsFollowBuffer

\* Closing.
LEMMA closeEventKeeps ==
    ASSUME IInv, conn = "open", closeEvent, UNCHANGED <<out, mixed, asking>>
    PROVE  ConnInv' /\ conn' = "closed"
<1>1. /\ events' \in Interests /\ oldEvents' \in Interests
      /\ changes' \in Seq(Changes)
      /\ conn' = "closed" /\ filters' = {}
      /\ \A f \in Filters : Pending(f)' => AskedByEarlier(f)'
  BY closeEventApplied DEF IInv, InterestApplied, Matches
<1> QED
  BY <1>1 DEF ConnInv, ConnTypes, InterestApplied, NothingLeft, Fresh,
              EventsFollowBuffer, IInv, TypeOK

\* A handler that leaves a consistent event in an open connection, whose interest
\* set is that of its output.
LEMMA OpenKeeps ==
    ASSUME TypeOK, NEW e \in EventsUnderWay, Consistent(e), Becomes(e),
           UNCHANGED <<filters, mixed, asking>>, conn' = "open", out' \in 0 .. MaxOut,
           "Write" \in e.new => out' > 0, out' > 0 => "Write" \in e.new \/ mixed,
           "Read" \notin e.new => out' > 0
    PROVE  ConnInv'
<1>1. /\ events' \in Interests /\ oldEvents' \in Interests
      /\ changes' \in Seq(Changes)
      /\ events' = e.new
      /\ Matches'
  BY BecomesApplied
<1> QED
  BY <1>1 DEF ConnInv, ConnTypes, InterestApplied, Matches, NothingLeft, Fresh,
              EventsFollowBuffer, TypeOK

\* A handler that changes nothing of the owner but, perhaps, the amount of output
\* that waits.
LEMMA SameKeeps ==
    ASSUME IInv, UNCHANGED <<filters, conn, events, oldEvents, changes, mixed, asking>>,
           out' \in 0 .. MaxOut, out' > 0 <=> out > 0
    PROVE  ConnInv'
<1>1. ConnTypes'
  BY DEF ConnTypes, IInv, TypeOK, Interests
<1>2. out' = 0 <=> out = 0
  BY DEF IInv, TypeOK
<1>3. \A f \in Filters : /\ Pending(f)' <=> Pending(f)
                         /\ AskedByEarlier(f)' <=> AskedByEarlier(f)
  BY DEF Pending, AskedByEarlier
<1> QED
  BY <1>1, <1>2, <1>3 DEF ConnInv, InterestApplied, NothingLeft, Fresh,
                          EventsFollowBuffer, IInv

\* The changes of the interest set a handler makes.
LEMMA Open ==
    ASSUME IInv, conn = "open"
    PROVE  /\ ThisEvent \in EventsUnderWay /\ Consistent(ThisEvent)
           /\ ThisEvent.new = events /\ events \in Interests
           /\ "Write" \in events => out > 0
           /\ out > 0 => "Write" \in events \/ mixed
           /\ "Read" \notin events => out > 0
           /\ out \in 0 .. MaxOut /\ MaxOut \in Nat \ {0}
  BY ThisEventConsistent, KqueueAssumption
     DEF IInv, InterestApplied, Matches, EventsFollowBuffer, TypeOK, Interests

\* The connection is registered with the whole interest set.
LEMMA EnableKeeps ==
    ASSUME TypeOK, NEW e \in EventsUnderWay, Consistent(e), NEW on \in BOOLEAN
    PROVE  /\ EnableReading(e, on) \in EventsUnderWay
           /\ Consistent(EnableReading(e, on))
           /\ EnableReading(e, on).new =
                 IF on THEN e.new \cup {"Read"} ELSE e.new \ {"Read"}
           /\ EnableWriting(e, on) \in EventsUnderWay
           /\ Consistent(EnableWriting(e, on))
           /\ EnableWriting(e, on).new =
                 IF on THEN e.new \cup {"Write"} ELSE e.new \ {"Write"}
           /\ EnableErrorEvent(e) \in EventsUnderWay
           /\ Consistent(EnableErrorEvent(e))
           /\ EnableErrorEvent(e).new = e.new \cup {"Err"}
<1>1. e.new \in Interests
  BY DEF EventsUnderWay
<1>2. /\ e.new \cup {"Read"} \in Interests /\ e.new \ {"Read"} \in Interests
      /\ e.new \cup {"Write"} \in Interests /\ e.new \ {"Write"} \in Interests
      /\ e.new \cup {"Err"} \in Interests
  BY <1>1 DEF Interests, Filters
<1>3. \A new \in Interests : /\ update(e, new) \in EventsUnderWay
                             /\ Consistent(update(e, new))
                             /\ update(e, new).new = new
  BY UpdateConsistent
<1> QED BY <1>2, <1>3 DEF EnableReading, EnableWriting, EnableErrorEvent

\* write of a loop's closure, on an open connection or on one closed since.
LEMMA writeKeeps ==
    ASSUME IInv, conn = "open", write(ThisEvent), UNCHANGED <<mixed, asking>>
    PROVE  ConnInv' /\ conn' \in {"open", "closed"} /\ space' \in BOOLEAN
<1>1. CASE space' \in BOOLEAN /\ Becomes(ThisEvent) /\ UNCHANGED <<filters, conn, out>>
  BY <1>1, Open, OpenKeeps DEF IInv
<1>2. CASE /\ space' = FALSE /\ out' \in 1 .. MaxOut
           /\ Becomes(EnableWriting(ThisEvent, TRUE)) /\ UNCHANGED <<filters, conn>>
           /\ out = 0
  <2> DEFINE e == EnableWriting(ThisEvent, TRUE)
  <2>1. e \in EventsUnderWay /\ Consistent(e) /\ e.new = events \cup {"Write"}
    BY Open, EnableKeeps DEF IInv
  <2>3. Becomes(e)
    BY <1>2
  <2> HIDE DEF e
  <2>2. out' \in 0 .. MaxOut /\ out' > 0 /\ "Write" \in e.new
    BY <1>2, <2>1, Open
  <2>4. ConnInv'
    BY <1>2, <2>1, <2>2, <2>3, OpenKeeps DEF IInv
  <2> QED BY <1>2, <2>4
<1>3. CASE closeEvent /\ UNCHANGED <<space, out>>
  BY <1>3, closeEventKeeps DEF IInv, TypeOK
<1>4. CASE /\ out > 0 /\ out' \in out .. MaxOut /\ Becomes(ThisEvent)
           /\ UNCHANGED <<filters, space, conn>>
  <2>1. out' \in 0 .. MaxOut /\ out' > 0
    BY <1>4, Open
  <2> QED BY <1>4, <2>1, Open, OpenKeeps DEF IInv, TypeOK
<1> QED BY <1>1, <1>2, <1>3, <1>4 DEF write

\* Reading, whatever is handled and replied to it.
LEMMA readEventKeeps ==
    ASSUME IInv, conn = "open", readEvent, UNCHANGED <<mixed, asking>>
    PROVE  ConnInv' /\ conn' \in {"open", "closed"} /\ space' \in BOOLEAN /\ rcv' \in BOOLEAN
<1>1. CASE /\ out > 0 /\ Becomes(EnableReading(ThisEvent, FALSE))
           /\ UNCHANGED <<filters, rcv, space, conn, out>>
  <2> DEFINE e == EnableReading(ThisEvent, FALSE)
  <2>1. e \in EventsUnderWay /\ Consistent(e) /\ e.new = events \ {"Read"}
    BY Open, EnableKeeps DEF IInv
  <2>2. out' = out /\ ("Write" \in e.new <=> "Write" \in events)
    BY <1>1, <2>1, Open
  <2>3. Becomes(e)
    BY <1>1
  <2> HIDE DEF e
  <2>4. ConnInv'
    BY <1>1, <2>1, <2>2, <2>3, Open, OpenKeeps DEF IInv
  <2> QED BY <1>1, <2>4 DEF IInv, TypeOK
<1>2. CASE rcv' = FALSE /\ write(ThisEvent)
  BY <1>2, writeKeeps
<1>3. CASE /\ rcv' \in BOOLEAN
           /\ UNCHANGED <<filters, space, conn, events, oldEvents, changes, out>>
  BY <1>3, SameKeeps DEF IInv, TypeOK
<1>4. CASE closeEvent /\ UNCHANGED <<rcv, space, out>>
  BY <1>4, closeEventKeeps DEF IInv, TypeOK
<1> QED BY <1>1, <1>2, <1>3, <1>4 DEF readEvent, IInv, TypeOK

\* Writing what waits, all of it or a part.
LEMMA writeEventKeeps ==
    ASSUME IInv, conn = "open", writeEvent, UNCHANGED <<mixed, asking>>
    PROVE  ConnInv' /\ conn' \in {"open", "closed"} /\ space' \in BOOLEAN /\ rcv' \in BOOLEAN
<1>1. CASE /\ out' = 0 /\ space' \in BOOLEAN
           /\ Becomes(Flushed(ThisEvent)) /\ UNCHANGED <<filters, rcv, conn>>
  <2> DEFINE w == StopWriting(ThisEvent)
             e == StartReading(w)
  <2>1. w \in EventsUnderWay /\ Consistent(w) /\ "Write" \notin w.new
    BY Open, EnableKeeps DEF IInv, StopWriting
  <2> HIDE DEF w
  <2>3. /\ EnableReading(w, TRUE) \in EventsUnderWay
        /\ Consistent(EnableReading(w, TRUE))
        /\ EnableReading(w, TRUE).new = w.new \cup {"Read"}
    BY <2>1, EnableKeeps DEF IInv
  <2>4. e \in EventsUnderWay /\ Consistent(e) /\ "Write" \notin e.new /\ "Read" \in e.new
    BY <2>1, <2>3 DEF StartReading
  <2> HIDE DEF e
  <2>5. out' \in 0 .. MaxOut /\ ~(out' > 0) /\ conn' = "open" /\ UNCHANGED filters
    BY <1>1, Open
  <2>6. Becomes(e)
    BY <1>1 DEF e, w, Flushed
  <2>7. ConnInv'
    BY <2>4, <2>5, <2>6, OpenKeeps DEF IInv
  <2> QED BY <1>1, <2>7 DEF IInv, TypeOK
<1>2. CASE /\ space' = FALSE /\ out > 0 /\ out' \in 1 .. out
           /\ UNCHANGED <<filters, rcv, conn, events, oldEvents, changes>>
  <2>1. out' \in 0 .. MaxOut /\ (out' > 0 <=> out > 0)
    BY <1>2, Open
  <2> QED BY <1>2, <2>1, SameKeeps DEF IInv, TypeOK
<1>3. CASE closeEvent /\ UNCHANGED <<rcv, space, out>>
  BY <1>3, closeEventKeeps DEF IInv, TypeOK
<1>4. ASSUME gone # "rst", space \/ out = 0,
             out' = 0 /\ space' \in IF out = 0 THEN {space} ELSE BOOLEAN
      PROVE  space' \in BOOLEAN
  BY <1>4 DEF IInv, TypeOK
<1>5. ASSUME out > 0, out' \in IF space THEN 1 .. out - 1 ELSE {out}
      PROVE  out' \in 1 .. out
  BY <1>5, Open
<1> QED BY <1>1, <1>2, <1>3, <1>4, <1>5 DEF writeEvent
------------------------------------------------------------------------------
(* The steps.                                                              *)

\* A report is handled by the event found in eventPool.
LEMMA HandleEventKeeps == ASSUME IInv, HandleEvent PROVE IInv'
<1> USE DEF IInv
<1>1. /\ batch \in Seq(Reports) /\ batch # <<>> /\ batch' = Tail(batch)
      /\ UNCHANGED <<gone, owner, mixed, asking, writers, pc, functions, left>>
      /\ pc = "handle"
  BY DEF HandleEvent, TypeOK
<1>2. batch' \in Seq(Reports)
  BY <1>1, HeadTailProperties
<1>3. /\ ConnInv' /\ (conn' = conn \/ conn # "new")
      /\ space' \in BOOLEAN /\ rcv' \in BOOLEAN
  <2>1. CASE UNCHANGED <<filters, rcv, space, conn, events, oldEvents, changes, out>>
    BY <1>1, <2>1, SameKeeps DEF TypeOK
  <2>2. CASE conn = "open" /\ closeEvent /\ UNCHANGED <<rcv, space, out>>
    BY <1>1, <2>2, closeEventKeeps DEF TypeOK
  <2>3. CASE conn = "open" /\ writeEvent
    BY <1>1, <2>3, writeEventKeeps
  <2>4. CASE conn = "open" /\ readEvent
    BY <1>1, <2>4, readEventKeeps
  <2> QED BY <2>1, <2>2, <2>3, <2>4 DEF HandleEvent
<1>4. TypeOK'
  BY <1>1, <1>2, <1>3 DEF TypeOK, ConnInv, ConnTypes, Interests, writers
<1>5. OneConnected'
  BY <1>1, <1>3 DEF OneConnected
<1> QED BY <1>3, <1>4, <1>5 DEF ConnInv

\* The closure of newConnected opens a connection that has nothing on the list.
LEMMA ConnectedHandleKeeps ==
    ASSUME IInv, conn = "new", ConnectedHandle
    PROVE  ConnInv' /\ conn' = "open"
<1> USE DEF IInv
<1>1. events = {} /\ (out > 0 => mixed) /\ Matches
  BY DEF Fresh, NothingLeft, Matches
<1>2. /\ ThisEvent \in EventsUnderWay /\ Consistent(ThisEvent) /\ ThisEvent.new = {}
  BY <1>1, ThisEventConsistent
<1> DEFINE r == EnableReading(ThisEvent, TRUE)
           e == EnableErrorEvent(r)
<1>3. r \in EventsUnderWay /\ Consistent(r) /\ r.new = {"Read"}
  BY <1>2, EnableKeeps
<1> HIDE DEF r
<1>4. e \in EventsUnderWay /\ Consistent(e) /\ e.new = {"Read", "Err"}
  BY <1>3, EnableKeeps
<1>5. Becomes(e) /\ conn' = "open" /\ UNCHANGED <<filters, space, out, mixed, asking>>
  BY DEF ConnectedHandle, r
<1> HIDE DEF e
<1>6. out' \in 0 .. MaxOut /\ (out' > 0 => mixed)
  BY <1>1, <1>5 DEF TypeOK
<1>7. ConnInv'
  BY <1>4, <1>5, <1>6, OpenKeeps
<1> QED BY <1>5, <1>7

\* A write of a connection that has closed: what the owner has on the list can only
\* grow by a question about writing, and its output only by bytes that are not its own.
LEMMA writeClosedKeeps ==
    ASSUME IInv, NEW who \in Owners, writeClosed(who)
    PROVE  ConnInv' /\ conn' = conn /\ space' \in BOOLEAN
<1> USE DEF IInv
<1> DEFINE asks == [Change("Write", "ADD") EXCEPT !.owner = who]
<1> DEFINE kept == out' = out /\ mixed' = mixed
           grown == out' \in 0 .. MaxOut /\ out' > 0 /\ mixed' = TRUE
<1>1. /\ UNCHANGED <<filters, conn, events, oldEvents>> /\ space' \in {space, FALSE}
      /\ out \in 0 .. MaxOut /\ mixed \in BOOLEAN /\ space \in BOOLEAN
      /\ MaxOut \in Nat
  BY KqueueAssumption DEF writeClosed, TypeOK
<1>11. kept \/ grown
  BY <1>1 DEF writeClosed
<1>2. /\ out' \in 0 .. MaxOut /\ mixed' \in BOOLEAN /\ space' \in BOOLEAN
      /\ \/ out' = out /\ mixed' = mixed
         \/ out' > 0 /\ mixed' = TRUE
  <2>1. CASE kept
    <3>1. out' \in 0 .. MaxOut /\ out' = out /\ mixed' = mixed
      BY <1>1, <2>1
    <3>2. mixed' \in BOOLEAN /\ space' \in BOOLEAN
      BY <1>1, <3>1, Zenon
    <3> QED BY <3>1, <3>2
  <2>2. CASE grown
    BY <1>1, <2>2
  <2> QED BY <1>11, <2>1, <2>2
<1>3. \/ UNCHANGED <<changes, asking>>
      \/ UNCHANGED changes /\ asking' = asking \cup {who}
      \/ changes' = changes \o <<asks>> /\ asking' = asking \cup {who}
  <2>1. CASE UNCHANGED <<changes, asking>>
    BY <2>1
  <2>2. CASE changes' = changes \o StaleChange(who) /\ asking' = asking \cup {who}
    <3>1. changes \o <<>> = changes
      BY ConcatEmptySeq DEF TypeOK
    <3> QED BY <2>2, <3>1 DEF StaleChange
  <2> QED BY <2>1, <2>2 DEF writeClosed
<1>4. asks \in Changes /\ asks.filter = "Write" /\ asks.op = "ADD"
  BY DEF Change, Changes, Filters, TypeOK
<1> HIDE DEF asks
<1>5. asking' \subseteq Owners /\ asking \subseteq asking'
  BY <1>3 DEF TypeOK
<1>6. /\ changes' \in Seq(Changes)
      /\ \A f \in Filters : \/ Pending(f)' <=> Pending(f)
                            \/ Pending(f)' /\ AskedByEarlier(f)'
  <2>1. CASE UNCHANGED changes
    BY <1>1, <2>1 DEF Pending, TypeOK
  <2>2. CASE changes' = changes \o <<asks>> /\ asking' = asking \cup {who}
    <3>1. changes' = Append(changes, asks) /\ changes \in Seq(Changes)
      BY <1>4, <2>2, AppendIsConcat DEF TypeOK
    <3>2. /\ Append(changes, asks) \in Seq(Changes)
          /\ \A f : Applied(filters, Append(changes, asks), f) <=>
                 IF asks.filter = f THEN asks.op = "ADD" ELSE Applied(filters, changes, f)
      BY <1>4, <3>1, LastApplied
    <3>3. \A f : /\ Pending(f)' <=> Applied(filters', changes', f)
                 /\ Pending(f) <=> Applied(filters, changes, f)
      BY DEF Pending, Applied
    <3>4. AskedByEarlier("Write")'
      BY <2>2 DEF AskedByEarlier
    <3> QED BY <1>1, <1>4, <3>1, <3>2, <3>3, <3>4
  <2> QED BY <1>3, <2>1, <2>2
<1>7. \A f \in Filters : AskedByEarlier(f) => AskedByEarlier(f)'
  BY <1>5 DEF AskedByEarlier
<1>8. ConnTypes'
  BY <1>1, <1>2, <1>5, <1>6 DEF ConnTypes, TypeOK, Interests
<1>9. InterestApplied' /\ NothingLeft'
  BY <1>1, <1>6, <1>7 DEF InterestApplied, NothingLeft
<1>10. Fresh' /\ EventsFollowBuffer'
  BY <1>1, <1>2 DEF Fresh, EventsFollowBuffer
<1> QED BY <1>1, <1>2, <1>8, <1>9, <1>10 DEF ConnInv

\* Any closure.
LEMMA RunFunctionKeeps == ASSUME IInv, RunFunction PROVE IInv'
<1> USE DEF IInv
<1> DEFINE what == Head(functions)[1]
<1>1. /\ functions \in Seq(Closures) /\ functions # <<>> /\ Len(functions) \in Nat
      /\ left' = left - 1 /\ left \in 1 .. Len(functions)
      /\ functions' = Tail(functions)
      /\ UNCHANGED <<rcv, gone, owner, writers, pc, batch>>
  <2>1. /\ functions \in Seq(Closures) /\ left > 0 /\ left \in 0 .. Len(functions)
        /\ functions' = Tail(functions) /\ left' = left - 1
        /\ UNCHANGED <<rcv, gone, owner, writers, pc, batch>>
    BY DEF RunFunction, TypeOK
  <2>2. Len(functions) \in Nat
    BY <2>1, LenProperties
  <2>3. functions # <<>>
    BY <2>1, <2>2, EmptySeq
  <2> QED BY <2>1, <2>2, <2>3
<1>2. /\ functions' \in Seq(Closures) /\ Len(functions') = Len(functions) - 1
      /\ Head(functions) = functions[1]
      /\ \A i \in 1 .. Len(functions') : functions'[i] = functions[i + 1]
      /\ Head(functions)[2] \in Owners
  <2>1. Head(functions) \in Closures
    BY <1>1, HeadTailProperties
  <2> QED BY <1>1, <2>1, HeadTailProperties DEF Closures
<1>3. what = "connected" => conn = "new"
  BY <1>1, <1>2 DEF OneConnected
<1>4. /\ ConnInv'
      /\ conn' = conn \/ conn = "open" \/ what = "connected"
      /\ space' \in BOOLEAN
  <2>1. CASE what = "connected" /\ ConnectedHandle
    BY <1>3, <2>1, ConnectedHandleKeeps DEF ConnectedHandle, TypeOK
  <2>2. CASE conn = "open" /\ closeEvent /\ UNCHANGED <<space, out, mixed, asking>>
    BY <2>2, closeEventKeeps DEF TypeOK
  <2>3. CASE UNCHANGED <<filters, space, conn, events, oldEvents, changes, out, mixed,
                         asking>>
    BY <2>3, SameKeeps DEF TypeOK
  <2>4. CASE conn = "open" /\ write(ThisEvent) /\ UNCHANGED <<mixed, asking>>
    BY <2>4, writeKeeps
  <2>5. CASE writeClosed(Head(functions)[2])
    BY <1>2, <2>5, writeClosedKeeps
  <2> QED BY <2>1, <2>2, <2>3, <2>4, <2>5 DEF RunFunction
<1>5. TypeOK'
  BY <1>1, <1>2, <1>4 DEF TypeOK, ConnInv, ConnTypes, Interests, writers
<1>6. OneConnected'
  <2> SUFFICES ASSUME NEW i \in 1 .. Len(functions'), functions'[i][1] = "connected"
               PROVE  /\ conn' = "new"
                      /\ \A j \in 1 .. Len(functions') :
                            functions'[j][1] = "connected" => j = i
    BY DEF OneConnected
  <2>1. i + 1 \in 1 .. Len(functions) /\ functions[i + 1][1] = "connected"
    BY <1>1, <1>2
  <2>2. conn = "new" /\ \A j \in 1 .. Len(functions) :
                           functions[j][1] = "connected" => j = i + 1
    BY <2>1 DEF OneConnected
  <2>3. what # "connected"
    <3>1. 1 \in 1 .. Len(functions) /\ 1 # i + 1
      BY <1>1
    <3> QED BY <1>2, <2>2, <3>1
  <2>4. ASSUME NEW j \in 1 .. Len(functions'), functions'[j][1] = "connected"
        PROVE  j = i
    <3>1. j + 1 \in 1 .. Len(functions) /\ functions[j + 1][1] = "connected"
      BY <1>1, <1>2, <2>4
    <3>2. j + 1 = i + 1
      BY <2>2, <3>1
    <3> QED BY <3>2
  <2> QED BY <1>4, <2>2, <2>3, <2>4
<1> QED BY <1>4, <1>5, <1>6 DEF ConnInv

\* The kernel takes a change off the list, or reports that it failed.
LEMMA ApplyChangeKeeps == ASSUME IInv, ApplyChange PROVE IInv'
<1> USE DEF IInv
<1> DEFINE c == Head(changes)
           G == IF c.op = "ADD" THEN filters \cup {c.filter} ELSE filters \ {c.filter}
<1>1. /\ changes \in Seq(Changes) /\ changes # <<>> /\ changes' = Tail(changes)
      /\ UNCHANGED <<sockVars, connVars, asking, writers, pc, functions, left>>
      /\ pc = "kevent"
  BY DEF ApplyChange, TypeOK
<1>2. changes' \in Seq(Changes) /\ c \in Changes
  BY <1>1, HeadTailProperties
<1>3. c.filter \in Filters /\ c.op \in {"ADD", "DELETE"} /\ c.owner \in 0 .. MaxOwners
  BY <1>2, KqueueAssumption DEF Changes, Owners
<1>4. batch' \in Seq(Reports)
  <2>1. [filter |-> c.filter, err |-> TRUE, from |-> c.owner] \in Reports
    BY <1>3 DEF Reports
  <2> HIDE DEF c
  <2>2. CASE UNCHANGED batch
    BY <2>2 DEF TypeOK
  <2>3. CASE batch' = Append(batch, [filter |-> c.filter, err |-> TRUE,
                                     from |-> c.owner])
    BY <2>1, <2>3, AppendProperties DEF TypeOK
  <2> QED BY <2>2, <2>3 DEF ApplyChange, c
<1>5. \/ filters' = G
      \/ conn = "closed" /\ filters' = filters /\ filters \subseteq G
  <2>1. CASE c.op = "ADD" /\ conn # "closed" /\ filters' = filters \cup {c.filter}
    BY <2>1
  <2>2. CASE c.op = "DELETE" /\ filters' = filters \ {c.filter}
    BY <2>2
  <2>3. CASE /\ IF c.op = "ADD" THEN conn = "closed" ELSE c.filter \notin filters
             /\ UNCHANGED filters
    BY <2>3
  <2> QED BY <2>1, <2>2, <2>3 DEF ApplyChange
<1>6. \A f \in Filters : Applied(filters, changes, f) <=> Applied(G, changes', f)
  BY <1>1, HeadApplied
<1>7. \A f \in Filters : /\ Pending(f) <=> Applied(filters, changes, f)
                         /\ Pending(f)' <=> Applied(filters', changes', f)
  BY DEF Pending, Applied
<1>8. filters' \subseteq Filters
  BY <1>3, <1>5 DEF TypeOK
<1> HIDE DEF G, c
<1>9. CASE filters' = G
  <2>1. \A f \in Filters : Pending(f)' <=> Pending(f)
    BY <1>6, <1>7, <1>9
  <2>2. \A f : AskedByEarlier(f)' <=> AskedByEarlier(f)
    BY <1>1 DEF AskedByEarlier
  <2> QED
    BY <1>1, <1>2, <1>4, <1>8, <2>1, <2>2 DEF TypeOK, InterestApplied, NothingLeft,
       Fresh, EventsFollowBuffer, OneConnected, sockVars, connVars, writers
<1>10. CASE conn = "closed" /\ filters' = filters /\ filters \subseteq G
  <2>1. \A f \in Filters : Pending(f)' => Pending(f)
    BY <1>6, <1>7, <1>10, FewerApplied
  <2>2. \A f : AskedByEarlier(f)' <=> AskedByEarlier(f)
    BY <1>1 DEF AskedByEarlier
  <2> QED
    BY <1>1, <1>2, <1>4, <1>8, <1>10, <2>1, <2>2 DEF TypeOK, InterestApplied,
       NothingLeft, Fresh, EventsFollowBuffer, OneConnected, sockVars, connVars, writers
<1> QED BY <1>5, <1>9, <1>10

\* What Kevent reports.
LEMMA KeventKeeps == ASSUME IInv, Kevent PROVE IInv'
<1> USE DEF IInv
<1>1. /\ UNCHANGED <<filters, sockVars, connVars, asking, writers, changes, functions, left>>
      /\ pc' = "handle"
  BY DEF Kevent
<1>2. batch' \in Seq(Reports)
  <2>1. ASSUME NEW n \in 0 .. 2, NEW order \in [1 .. 2 -> Filters],
               batch' = [i \in 1 .. n |-> Report(order[i])]
        PROVE  batch' \in Seq(Reports)
    <3>1. ASSUME NEW f \in Filters PROVE Report(f) \in Reports
      <4>1. /\ Report(f) = [filter |-> f, from |-> 0, err |-> Report(f).err]
            /\ 0 \in 0 .. MaxOwners
        BY KqueueAssumption DEF Report
      <4>2. CASE f = "Read"
        BY <4>1, <4>2 DEF Report, Reports
      <4>3. CASE f # "Read"
        BY <4>1, <4>3 DEF Report, Reports
      <4> QED BY <4>2, <4>3
    <3>2. \A i \in 1 .. n : Report(order[i]) \in Reports
      BY <3>1
    <3>3. n \in Nat /\ batch' \in [1 .. n -> Reports]
      BY <2>1, <3>2
    <3> QED BY <3>3, SeqDef
  <2>2. CASE UNCHANGED batch
    BY <2>2 DEF TypeOK
  <2> QED BY <2>1, <2>2 DEF Kevent
<1>3. \A f \in Filters : /\ Pending(f)' <=> Pending(f)
                         /\ AskedByEarlier(f)' <=> AskedByEarlier(f)
  BY <1>1 DEF Pending, AskedByEarlier
<1> QED
  BY <1>1, <1>2, <1>3 DEF TypeOK, InterestApplied, NothingLeft, Fresh,
     EventsFollowBuffer, OneConnected, sockVars, connVars, writers

\* A step that leaves the owner, the kernel's filters and both lists alone.
LEMMA QuietKeeps ==
    ASSUME IInv, UNCHANGED <<filters, connVars, asking, changes, functions>>, TypeOK'
    PROVE  IInv'
<1>1. \A f \in Filters : /\ Pending(f)' <=> Pending(f)
                         /\ AskedByEarlier(f)' <=> AskedByEarlier(f)
  BY DEF Pending, AskedByEarlier
<1> QED
  BY <1>1 DEF IInv, InterestApplied, NothingLeft, Fresh, EventsFollowBuffer,
              OneConnected, connVars

\* The number goes to the next connection.
LEMMA AcceptKeeps == ASSUME IInv, Accept PROVE IInv'
<1> USE DEF IInv
<1> DEFINE x == <<"connected", owner + 1>>
<1>1. /\ conn = "closed" /\ conn' = "new" /\ owner' = owner + 1 /\ owner \in Owners
      /\ owner < MaxOwners
      /\ rcv' = FALSE /\ gone' = "no" /\ space' = TRUE
      /\ events' = {} /\ oldEvents' = {}
      /\ \/ out' = 0 /\ mixed' = FALSE
         \/ out' \in 1 .. MaxOut /\ mixed' = TRUE
      /\ functions' = Append(functions, x)
      /\ UNCHANGED <<filters, asking, writers, changes, pc, batch, left>>
  BY DEF Accept, TypeOK
<1>2. x \in Closures /\ x[1] = "connected" /\ owner + 1 \in Owners
  BY <1>1, KqueueAssumption DEF Closures, Owners
<1> HIDE DEF x
<1>3. /\ functions' \in Seq(Closures) /\ Len(functions) \in Nat
      /\ Len(functions') = Len(functions) + 1
      /\ \A i \in 1 .. Len(functions) : functions'[i] = functions[i]
      /\ functions'[Len(functions) + 1] = x
  BY <1>1, <1>2, AppendProperties, LenProperties DEF TypeOK
<1>4. \A i \in 1 .. Len(functions) : functions[i][1] # "connected"
  BY <1>1 DEF OneConnected
<1>5. OneConnected'
  <2>1. \A i \in 1 .. Len(functions') : functions'[i][1] = "connected"
                                           => i = Len(functions) + 1
    BY <1>3, <1>4
  <2> QED BY <1>1, <2>1 DEF OneConnected
<1>6. \A f \in Filters : Pending(f)' => AskedByEarlier(f)'
  BY <1>1 DEF Pending, NothingLeft, AskedByEarlier
<1>7. TypeOK'
  <2>1. out' \in 0 .. MaxOut
    BY <1>1, KqueueAssumption
  <2>2. left' \in 0 .. Len(functions')
    BY <1>1, <1>3 DEF TypeOK
  <2>3. mixed' \in BOOLEAN
    BY <1>1
  <2> QED BY <1>1, <1>2, <1>3, <2>1, <2>2, <2>3 DEF TypeOK, writers
<1> QED
  BY <1>1, <1>5, <1>6, <1>7 DEF InterestApplied, NothingLeft, Fresh, EventsFollowBuffer

\* A closure that is not newConnected's is appended.
LEMMA PostKeeps ==
    ASSUME IInv, NEW x \in Closures, x[1] # "connected",
           functions' = Append(functions, x), begun' \in [Owners -> Nat],
           UNCHANGED <<filters, sockVars, connVars, asking, writes, changes, pc, batch, left>>
    PROVE  IInv'
<1> USE DEF IInv
<1>1. /\ functions' \in Seq(Closures) /\ Len(functions) \in Nat
      /\ Len(functions') = Len(functions) + 1
      /\ \A i \in 1 .. Len(functions) : functions'[i] = functions[i]
      /\ functions'[Len(functions) + 1] = x
  BY AppendProperties, LenProperties DEF TypeOK
<1>2. OneConnected'
  <2> SUFFICES ASSUME NEW i \in 1 .. Len(functions'), functions'[i][1] = "connected"
               PROVE  /\ conn = "new"
                      /\ \A j \in 1 .. Len(functions') :
                            functions'[j][1] = "connected" => j = i
    BY DEF OneConnected, connVars
  <2>1. \A j \in 1 .. Len(functions') : functions'[j][1] = "connected"
                                           => /\ j \in 1 .. Len(functions)
                                              /\ functions[j][1] = "connected"
    BY <1>1
  <2> QED BY <2>1 DEF OneConnected
<1>3. \A f \in Filters : /\ Pending(f)' <=> Pending(f)
                         /\ AskedByEarlier(f)' <=> AskedByEarlier(f)
  BY DEF Pending, AskedByEarlier
<1>4. TypeOK'
  BY <1>1 DEF TypeOK, sockVars, connVars
<1> QED
  BY <1>2, <1>3, <1>4 DEF InterestApplied, NothingLeft, Fresh, EventsFollowBuffer, connVars

\* A close is appended.
LEMMA CloseKeeps == ASSUME IInv, Close PROVE IInv'
<1>1. /\ <<"close", owner>> \in Closures /\ <<"close", owner>>[1] # "connected"
      /\ begun \in [Owners -> Nat]
  BY DEF Closures, IInv, TypeOK
<1> QED BY <1>1, PostKeeps DEF Close, writers

\* A write is appended, perhaps long after its goroutine looked at the state.
LEMMA RunInLoopKeeps == ASSUME IInv, NEW who \in Owners, RunInLoop(who) PROVE IInv'
<1>1. <<"write", who>> \in Closures /\ <<"write", who>>[1] # "connected"
  BY DEF Closures
<1>2. begun' \in [Owners -> Nat]
  BY DEF RunInLoop, IInv, TypeOK
<1> QED BY <1>1, <1>2, PostKeeps DEF RunInLoop

\* The first connection of the number finds nothing on the list.
LEMMA InitInv == Init => IInv
<1> SUFFICES ASSUME Init PROVE IInv
  OBVIOUS
<1> USE KqueueAssumption DEF Init
<1>1. <<"connected", 1>> \in Closures /\ 1 \in Owners
  BY DEF Closures, Owners
<1>2. /\ functions = <<<<"connected", 1>>>> /\ functions \in Seq(Closures)
      /\ Len(functions) = 1
  BY <1>1
<1>3. TypeOK
  <2>1. <<>> \in Seq(Changes) /\ <<>> \in Seq(Reports)
    OBVIOUS
  <2>2. out \in 0 .. MaxOut /\ left \in 0 .. Len(functions)
    BY <1>2
  <2>3. rcv \in BOOLEAN /\ space \in BOOLEAN /\ mixed \in BOOLEAN
    BY Zenon
  <2>4. writes \in 0 .. MaxWrites /\ begun \in [Owners -> Nat] /\ asking \subseteq Owners
    OBVIOUS
  <2> QED BY <1>1, <1>2, <2>1, <2>2, <2>3, <2>4 DEF TypeOK
<1>4. \A f \in Filters : ~Pending(f)
  BY DEF Pending
<1>5. OneConnected
  BY <1>2 DEF OneConnected
<1> QED
  BY <1>3, <1>4, <1>5 DEF IInv, InterestApplied, NothingLeft, Fresh, EventsFollowBuffer

\* Every step keeps the invariant.
LEMMA NextInv == IInv /\ [Next]_vars => IInv'
<1> SUFFICES ASSUME IInv, [Next]_vars PROVE IInv'
  OBVIOUS
<1> USE DEF sockVars, connVars, loopVars, writers
<1>1. CASE WaitEvent
  <2>1. TypeOK'
    BY <1>1 DEF WaitEvent, IInv, TypeOK
  <2> QED BY <1>1, <2>1, QuietKeeps DEF WaitEvent
<1>2. CASE runAllFunctionInLoop
  <2>1. Len(functions) \in Nat
    BY LenProperties DEF IInv, TypeOK
  <2>2. TypeOK'
    BY <1>2, <2>1 DEF runAllFunctionInLoop, BatchHandled, IInv, TypeOK
  <2> QED BY <1>2, <2>2, QuietKeeps DEF runAllFunctionInLoop
<1>3. CASE PeerSend \/ PeerEnds \/ PeerDrain \/ UNCHANGED vars
  <2>1. /\ rcv' \in BOOLEAN /\ space' \in BOOLEAN /\ gone' \in {"no", "fin", "rst"}
        /\ UNCHANGED <<filters, connVars, asking, writers, changes, loopVars>>
    BY <1>3 DEF PeerSend, PeerEnds, PeerDrain, vars, IInv, TypeOK
  <2>2. TypeOK'
    BY <2>1 DEF IInv, TypeOK
  <2> QED BY <1>3, <2>2, QuietKeeps DEF PeerSend, PeerEnds, PeerDrain, vars
<1>4. CASE WriteInSelfLoop
  <2>1. writes' \in 0 .. MaxWrites /\ begun' \in [Owners -> Nat]
    BY <1>4, KqueueAssumption DEF WriteInSelfLoop, IInv, TypeOK
  <2>2. TypeOK'
    BY <1>4, <2>1 DEF WriteInSelfLoop, IInv, TypeOK
  <2> QED BY <1>4, <2>2, QuietKeeps DEF WriteInSelfLoop
<1> QED
  BY <1>1, <1>2, <1>3, <1>4, ApplyChangeKeeps, KeventKeeps, HandleEventKeeps,
     RunFunctionKeeps, AcceptKeeps, CloseKeeps, RunInLoopKeeps DEF Next, LoopStep

\* The inductive invariant holds of every behaviour of Kqueue.
THEOREM Invariance == Spec => []IInv
<1>1. Init => IInv
  BY InitInv
<1>2. IInv /\ [Next]_vars => IInv'
  BY NextInv
<1> QED BY <1>1, <1>2, PTL DEF Spec

\* Every variable keeps its type; the loop runs closures only when the reported
\* events have been handled.
THEOREM TypeCorrect == Spec => []TypeOK
<1>1. IInv => TypeOK
  BY DEF IInv
<1> QED BY <1>1, Invariance, PTL

\* The kernel's filters with the list of changes are the interest set of the owner,
\* whatever the list holds of earlier owners of the number; only a late write of one of
\* them asks about writing in its name.
THEOREM ListIsInterest == Spec => []InterestApplied
<1>1. IInv => InterestApplied
  BY DEF IInv
<1> QED BY <1>1, Invariance, PTL

\* So the kernel is asked about reading whenever no output waits, and about writing
\* while some does; but for late writes of earlier owners, not when none does.
THEOREM KernelAsked == Spec => []KernelFollowsBuffer
<1>1. ASSUME IInv, conn = "open"
      PROVE  /\ out > 0 /\ ~mixed => Pending("Write")
             /\ out = 0 => Pending("Read")
             /\ Pending("Write") => out > 0 \/ AskedByEarlier("Write")
  <2>1. out \in Nat /\ "Read" \in Filters /\ "Write" \in Filters
    BY <1>1 DEF IInv, TypeOK, Filters
  <2> QED BY <1>1, <2>1 DEF IInv, InterestApplied, EventsFollowBuffer
<1>2. IInv => KernelFollowsBuffer
  BY <1>1 DEF KernelFollowsBuffer
<1> QED BY <1>2, Invariance, PTL
==============================================================================
