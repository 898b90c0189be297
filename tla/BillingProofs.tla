---------------------------- MODULE BillingProofs ---------------------------
(***************************************************************************)
(* Proofs about Billing.  That a customer ends with one live subscription  *)
(* at most, and not without any, holds for any number of handlers and      *)
(* every fault: webhooks that overlap, fail, are repeated or reordered,    *)
(* and rows that others write over.                                        *)
(***************************************************************************)
EXTENDS Billing, FiniteSetTheorems, SequenceTheorems, TLAPS

-----------------------------------------------------------------------------
(* The inductive invariant behind OneSubscription *)

(* A webhook of s tells of a subscription that has been made; its deletion *)
(* is final.                                                               *)
TellsOf(e, s) ==
    /\ e \in SubEvents
    /\ e.sub = s
    /\ subs[s].status # "none"
    /\ e.kind = "deleted" => subs[s].status = "canceled"

StreamsTold ==
    /\ \A s \in Sub : \A i \in 1 .. Len(inbox[s]) : TellsOf(inbox[s][i], s)
    /\ \A i \in 1 .. Len(inbox[Customer]) : inbox[Customer][i] \in CardEvents

(* A subscription that is out of payment is not about to end. *)
UnpaidRenews(s) == subs[s].status = "unpaid" => ~subs[s].ending

(* The webhook that cancels every other subscription. *)
Cancels(e) == e.kind = "updated" /\ ~e.data.ending

(* What handle_subscription_deleted takes. *)
Endings == {"deleted", "paused"}

(* A handler's position fits the webhook it handles. *)
Handles(h) ==
    /\ at[h] = "card" => ev[h] \in CardEvents
    /\ at[h] \notin {"idle", "card"} => TellsOf(ev[h], ev[h].sub)
    /\ at[h] = "pending" => ev[h].kind = "updated" /\ ~Cancels(ev[h])
    /\ at[h] \in {"daemons", "write"} => ev[h].kind \in Endings \/ Cancels(ev[h])
    /\ at[h] \in {"list", "cancel"} => Cancels(ev[h])
    /\ at[h] \in {"create", "created"} => ev[h].kind \in Endings

HandlersFit == \A h \in Handler : Handles(h)

WebhookInv ==
    /\ BillingTypeOK
    /\ StreamsTold
    /\ \A s \in Sub : UnpaidRenews(s)
    /\ HandlersFit

(* A webhook is handled once at a time, and is not lost meanwhile. *)
Apart ==
    \A g, h \in Handler : g # h /\ at[g] # "idle" /\ at[h] # "idle" => ev[g] # ev[h]

Occurs(q, e) == \E i \in 1 .. Len(q) : q[i] = e

Held ==
    \A h \in Handler : at[h] \notin {"idle", "card"} => Occurs(inbox[ev[h].sub], ev[h])

(* Event e is not acknowledged before s is cancelled. *)
Awaits(e, s) ==
    \A h \in Handler : at[h] = "cancel" /\ ev[h] = e => s \in old[h]

(* Two webhooks say the same. *)
Twice(q, e) ==
    \E i, j \in 1 .. Len(q) : i # j /\ q[i] = e /\ q[j] = e

(* A webhook of y that cancels s is not acknowledged yet: the one that is  *)
(* being handled, or one like it.                                          *)
Dooms(y, s) ==
    \E i \in 1 .. Len(inbox[y]) :
        /\ Cancels(inbox[y][i])
        /\ Awaits(inbox[y][i], s) \/ Twice(inbox[y], inbox[y][i])

(* Of two subscriptions one will be cancelled. *)
DuplicatesGo ==
    \A s, x \in Sub : s # x /\ IsLive(s) /\ IsLive(x) => Dooms(s, x) \/ Dooms(x, s)

(* The deletion of s is not acknowledged, and nothing replaces s yet. *)
Unreplaced(s) ==
    /\ \E i \in 1 .. Len(inbox[s]) : inbox[s][i].kind = "deleted"
    /\ \A h \in Handler :
          at[h] = "created" => ~(ev[h].sub = s /\ ev[h].kind = "deleted")

(* When the last subscription ends another will be made. *)
OneComes ==
    (\E s \in Sub : subs[s].status # "none") /\ (\A s \in Sub : ~IsKept(s))
        => \E s \in Sub : Unreplaced(s)

SubscriptionInv == WebhookInv /\ Apart /\ Held /\ DuplicatesGo /\ OneComes

-----------------------------------------------------------------------------
(* What the steps do to the streams of webhooks *)

(* An element is removed from a sequence. *)
LEMMA RemoveAtIs ==
    ASSUME NEW S, NEW q \in Seq(S), NEW i \in 1 .. Len(q)
    PROVE  /\ RemoveAt(q, i) \in Seq(S)
           /\ Len(RemoveAt(q, i)) = Len(q) - 1
           /\ \A j \in 1 .. Len(q) - 1 :
                  RemoveAt(q, i)[j] = IF j < i THEN q[j] ELSE q[j + 1]
  <1>1. PICK n \in Nat : n = Len(q)
    OBVIOUS
  <1>2. PICK a : a = SubSeq(q, 1, i - 1)
    OBVIOUS
  <1>3. PICK b : b = SubSeq(q, i + 1, Len(q))
    OBVIOUS
  <1>4. a \in Seq(S) /\ Len(a) = i - 1 /\ \A j \in 1 .. i - 1 : a[j] = q[j]
    BY <1>1, <1>2
  <1>5. b \in Seq(S) /\ Len(b) = n - i /\ \A j \in 1 .. n - i : b[j] = q[i + j]
    BY <1>1, <1>3
  <1>6. RemoveAt(q, i) = a \o b
    BY <1>2, <1>3 DEF RemoveAt
  <1>7. /\ a \o b \in Seq(S) /\ Len(a \o b) = n - 1
        /\ \A j \in 1 .. n - 1 : (a \o b)[j] = IF j < i THEN a[j] ELSE b[j - (i - 1)]
    <2>1. /\ a \o b \in Seq(S)
          /\ Len(a \o b) = Len(a) + Len(b)
          /\ \A j \in 1 .. Len(a) + Len(b) :
                 (a \o b)[j] = IF j <= Len(a) THEN a[j] ELSE b[j - Len(a)]
      BY <1>4, <1>5, ConcatProperties
    <2>2. Len(a) + Len(b) = n - 1 /\ Len(a) = i - 1 /\ i \in Int /\ n \in Int
      BY <1>1, <1>4, <1>5
    <2>3. \A j \in 1 .. n - 1 : j <= Len(a) <=> j < i
      BY <2>2
    <2> QED
      BY <2>1, <2>2, <2>3
  <1>8. \A j \in 1 .. n - 1 : (a \o b)[j] = IF j < i THEN q[j] ELSE q[j + 1]
    <2>1. ASSUME NEW j \in 1 .. n - 1, ~(j < i)
          PROVE  b[j - (i - 1)] = q[j + 1]
      <3>1. j - (i - 1) \in 1 .. n - i /\ i + (j - (i - 1)) = j + 1
        BY <1>1, <2>1
      <3> QED
        BY <1>5, <3>1
    <2> QED
      BY <1>1, <1>4, <1>7, <2>1
  <1> QED
    BY <1>1, <1>6, <1>7, <1>8

(* The elements of r are those of q but the i-th. *)
KeepsOthers(r, q, i) ==
    /\ \A j \in 1 .. Len(r) : \E m \in 1 .. Len(q) : r[j] = q[m]
    /\ \A j \in 1 .. Len(q) : j # i => \E m \in 1 .. Len(r) : r[m] = q[j]

LEMMA RemoveAtKeeps ==
    ASSUME NEW S, NEW q \in Seq(S), NEW i \in 1 .. Len(q)
    PROVE  KeepsOthers(RemoveAt(q, i), q, i)
  <1>0. PICK r : r = RemoveAt(q, i)
    OBVIOUS
  <1>1. /\ Len(r) = Len(q) - 1
        /\ \A j \in 1 .. Len(q) - 1 : r[j] = IF j < i THEN q[j] ELSE q[j + 1]
    BY <1>0, RemoveAtIs
  <1>2. ASSUME NEW j \in 1 .. Len(r)
        PROVE  \E m \in 1 .. Len(q) : r[j] = q[m]
    <2>1. j \in 1 .. Len(q) - 1 /\ j \in 1 .. Len(q) /\ j + 1 \in 1 .. Len(q)
      BY <1>1
    <2> QED
      BY <1>1, <2>1
  <1>3. ASSUME NEW j \in 1 .. Len(q), j # i
        PROVE  \E m \in 1 .. Len(r) : r[m] = q[j]
    <2>1. CASE j < i
      <3>1. j \in 1 .. Len(q) - 1 /\ j \in 1 .. Len(r)
        BY <1>1, <2>1
      <3> QED
        BY <1>1, <2>1, <3>1
    <2>2. CASE j > i
      <3>1. /\ j - 1 \in 1 .. Len(q) - 1 /\ j - 1 \in 1 .. Len(r)
            /\ ~(j - 1 < i) /\ (j - 1) + 1 = j
        BY <1>1, <2>2
      <3> QED
        BY <1>1, <3>1
    <2> QED
      BY <1>3, <2>1, <2>2
  <1> QED
    BY <1>0, <1>2, <1>3 DEF KeepsOthers

(* Of two equal elements one stays, and both when another is removed. *)
LEMMA RemoveAtTwice ==
    ASSUME NEW S, NEW q \in Seq(S), NEW i \in 1 .. Len(q), NEW x, Twice(q, x)
    PROVE  /\ Occurs(RemoveAt(q, i), x)
           /\ x # q[i] => Twice(RemoveAt(q, i), x)
  <1>0. PICK r : r = RemoveAt(q, i)
    OBVIOUS
  <1>1. /\ Len(r) = Len(q) - 1
        /\ \A j \in 1 .. Len(q) - 1 : r[j] = IF j < i THEN q[j] ELSE q[j + 1]
    BY <1>0, RemoveAtIs
  <1>2. PICK a, b \in 1 .. Len(q) : a # b /\ q[a] = x /\ q[b] = x
    BY DEF Twice
  <1>3. PICK n \in Nat : n = Len(q)
    OBVIOUS
  <1> DEFINE place(j) == IF j < i THEN j ELSE j - 1
  <1>4. ASSUME NEW j \in 1 .. n, j # i
        PROVE  place(j) \in 1 .. n - 1 /\ r[place(j)] = q[j]
    <2>1. CASE j < i
      <3>1. j \in 1 .. n - 1
        BY <1>3, <2>1
      <3> QED
        BY <1>1, <1>3, <2>1, <3>1
    <2>2. CASE j > i
      <3>1. j - 1 \in 1 .. n - 1 /\ ~(j - 1 < i) /\ (j - 1) + 1 = j /\ ~(j < i)
        BY <1>3, <2>2
      <3> QED
        BY <1>1, <1>3, <3>1
    <2> QED
      BY <1>3, <1>4, <2>1, <2>2
  <1>5. Occurs(r, x)
    <2>1. a # i \/ b # i
      BY <1>2
    <2>2. \E j \in 1 .. n - 1 : r[j] = x
      BY <1>2, <1>3, <1>4, <2>1
    <2> QED
      BY <1>1, <1>3, <2>2 DEF Occurs
  <1>6. ASSUME x # q[i] PROVE Twice(r, x)
    <2>1. a # i /\ b # i
      BY <1>2, <1>6
    <2>2. place(a) # place(b)
      BY <1>2, <1>3, <2>1
    <2>3. /\ place(a) \in 1 .. n - 1 /\ r[place(a)] = x
          /\ place(b) \in 1 .. n - 1 /\ r[place(b)] = x
      BY <1>2, <1>3, <1>4, <2>1
    <2> HIDE DEF place
    <2> QED
      BY <1>1, <1>3, <2>2, <2>3 DEF Twice
  <1> QED
    BY <1>0, <1>5, <1>6

(* An event's kind says what it carries. *)
LEMMA EventKinds ==
    /\ \A e \in SubEvents : e.kind \in SubKinds /\ e.sub \in Sub
                            /\ e.data \in Subscriptions
    /\ \A e \in CardEvents : e.kind \in {"attached", "detached"}
                             /\ e.kind \notin SubKinds
    /\ \A e \in Events : e.kind \in SubKinds => e \in SubEvents
  BY DEF SubEvents, CardEvents, Events, SubKinds

(* Stripe changes subscription s and tells of it with e. *)
Tells(s, e) ==
    /\ subs' = [subs EXCEPT ![s] = e.data]
    /\ \A x \in Sub \ {s} : inbox'[x] = inbox[x]
    /\ inbox'[s] = Append(inbox[s], e)

(* The ways in which it does: a subscription changes, falls behind, is     *)
(* paid again or ends, and a new one is made.                              *)
Change(s, e) ==
    /\ e \in SubEvents
    /\ e.sub = s
    /\ \/ /\ subs[s].status = "live" /\ e.data.status = "live"
          /\ e.kind = "updated"
       \/ /\ subs[s].status \in {"none", "unpaid"} /\ e.data.status = "live"
          /\ e.kind = "updated" /\ ~e.data.ending
       \/ /\ IsKept(s) /\ e.data.status = "unpaid"
          /\ e.kind \in {"updated", "paused"} /\ ~e.data.ending
       \/ IsKept(s) /\ e.data.status = "canceled" /\ e.kind = "deleted"

LEMMA TellsIs ==
    ASSUME BillingTypeOK, NEW s \in Sub, NEW e \in SubEvents, Tells(s, e)
    PROVE  /\ subs' \in [Sub -> Subscriptions]
           /\ subs'[s] = e.data
           /\ \A x \in Sub \ {s} : subs'[x] = subs[x] /\ inbox'[x] = inbox[x]
           /\ inbox'[s] \in Seq(Events)
           /\ Len(inbox[s]) \in Nat
           /\ Len(inbox'[s]) = Len(inbox[s]) + 1
           /\ \A i \in 1 .. Len(inbox[s]) : inbox'[s][i] = inbox[s][i]
           /\ inbox'[s][Len(inbox[s]) + 1] = e
  <1>1. subs \in [Sub -> Subscriptions] /\ inbox[s] \in Seq(Events)
    BY DEF BillingTypeOK, Stream
  <1>2. e.data \in Subscriptions /\ e \in Events
    BY EventKinds DEF Events
  <1>3. /\ subs' = [subs EXCEPT ![s] = e.data] /\ inbox'[s] = Append(inbox[s], e)
        /\ \A x \in Sub \ {s} : inbox'[x] = inbox[x]
    BY DEF Tells
  <1>4. /\ inbox'[s] \in Seq(Events)
        /\ Len(inbox[s]) \in Nat
        /\ Len(inbox'[s]) = Len(inbox[s]) + 1
        /\ \A i \in 1 .. Len(inbox[s]) : inbox'[s][i] = inbox[s][i]
        /\ inbox'[s][Len(inbox[s]) + 1] = e
    BY <1>1, <1>2, <1>3
  <1>5. /\ subs' \in [Sub -> Subscriptions] /\ subs'[s] = e.data
        /\ \A x \in Sub \ {s} : subs'[x] = subs[x]
    BY <1>1, <1>2, <1>3
  <1> QED
    BY <1>3, <1>4, <1>5

(* The event of a report. *)
Reported(s, data, kind) == [kind |-> kind, sub |-> s, data |-> data]

LEMMA ReportedIs ==
    ASSUME NEW s \in Sub, NEW data \in Subscriptions, NEW kind,
           kind \in SubKinds
    PROVE  /\ Reported(s, data, kind) \in SubEvents
           /\ Reported(s, data, kind).kind = kind
           /\ Reported(s, data, kind).sub = s
           /\ Reported(s, data, kind).data = data
  BY DEF Reported, SubEvents

LEMMA ReportIs ==
    ASSUME BillingTypeOK, NEW s \in Sub, NEW data \in Subscriptions, NEW kind,
           kind \in SubKinds, Report(s, data, kind)
    PROVE  /\ Tells(s, Reported(s, data, kind))
           /\ inbox' \in [Stream -> Seq(Events)]
           /\ inbox'[Customer] = inbox[Customer]
  <1>1. inbox \in [Stream -> Seq(Events)] /\ s \in Stream /\ Customer \in Stream
    BY DEF BillingTypeOK, Stream
  <1>2. PICK e \in SubEvents : e = Reported(s, data, kind) /\ e.data = data
    BY ReportedIs
  <1>3. inbox' = [inbox EXCEPT ![s] = Append(@, e)] /\ subs' = [subs EXCEPT ![s] = data]
    BY <1>2 DEF Report, Reported
  <1>4. e \in Events
    BY DEF Events
  <1>5. /\ inbox' \in [Stream -> Seq(Events)]
        /\ inbox'[s] = Append(inbox[s], e)
        /\ \A k \in Stream \ {s} : inbox'[k] = inbox[k]
    BY <1>1, <1>3, <1>4
  <1>6. Tells(s, e)
    BY <1>2, <1>3, <1>5 DEF Tells, Stream
  <1> QED
    BY <1>1, <1>2, <1>5, <1>6, SubAssumption

(* A webhook is removed from its stream, or stays to be delivered again. *)
Removes(k, e) ==
    \E i \in 1 .. Len(inbox[k]) :
        /\ inbox[k][i] = e
        /\ \A j \in 1 .. i - 1 : inbox[k][j] # e
        /\ inbox' = [inbox EXCEPT ![k] = RemoveAt(@, i)]

LEMMA RemovesIs ==
    ASSUME BillingTypeOK, NEW k \in Stream, NEW e, Removes(k, e)
    PROVE  /\ inbox' \in [Stream -> Seq(Events)]
           /\ \A x \in Stream \ {k} : inbox'[x] = inbox[x]
           /\ \A i \in 1 .. Len(inbox'[k]) :
                  \E j \in 1 .. Len(inbox[k]) : inbox'[k][i] = inbox[k][j]
           /\ \A j \in 1 .. Len(inbox[k]) : inbox[k][j] # e =>
                  \E i \in 1 .. Len(inbox'[k]) : inbox'[k][i] = inbox[k][j]
           /\ \A x : Twice(inbox[k], x) =>
                  Occurs(inbox'[k], x) /\ (x # e => Twice(inbox'[k], x))
  <1>1. inbox \in [Stream -> Seq(Events)]
    BY DEF BillingTypeOK
  <1>2. PICK q \in Seq(Events) : q = inbox[k]
    BY <1>1
  <1>3. PICK i \in 1 .. Len(q) :
          q[i] = e /\ inbox' = [inbox EXCEPT ![k] = RemoveAt(q, i)]
    BY <1>2 DEF Removes
  <1>4. PICK r : r = RemoveAt(q, i)
    OBVIOUS
  <1>5. r \in Seq(Events)
    BY <1>4, RemoveAtIs
  <1>6. inbox' \in [Stream -> Seq(Events)] /\ inbox'[k] = r
        /\ \A x \in Stream \ {k} : inbox'[x] = inbox[x]
    BY <1>1, <1>3, <1>4, <1>5
  <1>7. KeepsOthers(RemoveAt(q, i), q, i)
    BY RemoveAtKeeps
  <1>8. KeepsOthers(inbox'[k], inbox[k], i) /\ inbox[k][i] = e
    BY <1>2, <1>3, <1>4, <1>6, <1>7
  <1>9. \A j \in 1 .. Len(inbox'[k]) :
            \E m \in 1 .. Len(inbox[k]) : inbox'[k][j] = inbox[k][m]
    BY <1>8 DEF KeepsOthers
  <1>10. \A j \in 1 .. Len(inbox[k]) : inbox[k][j] # e =>
            \E m \in 1 .. Len(inbox'[k]) : inbox'[k][m] = inbox[k][j]
    BY <1>8 DEF KeepsOthers
  <1>11. \A x : Twice(inbox[k], x) =>
             Occurs(inbox'[k], x) /\ (x # e => Twice(inbox'[k], x))
    BY <1>2, <1>3, <1>4, <1>6, RemoveAtTwice
  <1> QED
    BY <1>6, <1>9, <1>10, <1>11

-----------------------------------------------------------------------------
(* Types, streams and handlers *)

(* The types of what a handler's steps change. *)
LEMMA HandlerTypes ==
    ASSUME BillingTypeOK, NEW h \in Handler
    PROVE  /\ \A label \in Labels : Goto(h, label) => at' \in [Handler -> Labels]
           /\ \A e \in Events \cup {NoEvent} :
                  [ev EXCEPT ![h] = e] \in [Handler -> Events \cup {NoEvent}]
           /\ \A r \in Rows : [row EXCEPT ![h] = r] \in [Handler -> Rows]
           /\ \A S \in SUBSET Sub : [old EXCEPT ![h] = S] \in [Handler -> SUBSET Sub]
           /\ NewOrg \in Rows
  <1>1. NewOrg \in Rows
    BY DEF NewOrg, Rows
  <1>2. \A label \in Labels : Goto(h, label) => at' \in [Handler -> Labels]
    BY DEF BillingTypeOK, Goto
  <1>3. /\ \A e \in Events \cup {NoEvent} :
               [ev EXCEPT ![h] = e] \in [Handler -> Events \cup {NoEvent}]
        /\ \A r \in Rows : [row EXCEPT ![h] = r] \in [Handler -> Rows]
        /\ \A S \in SUBSET Sub : [old EXCEPT ![h] = S] \in [Handler -> SUBSET Sub]
    BY DEF BillingTypeOK
  <1> QED
    BY <1>1, <1>2, <1>3

(* Acknowledging removes the handler's webhook or leaves it to be          *)
(* delivered again.                                                        *)
LEMMA AcknowledgeIs ==
    ASSUME WebhookInv, NEW h \in Handler, at[h] # "idle", Acknowledge(h)
    PROVE  /\ \/ inbox' = inbox
              \/ /\ at[h] = "card"
                 /\ Removes(Customer, ev[h])
              \/ /\ at[h] # "card"
                 /\ Removes(ev[h].sub, ev[h])
           /\ inbox' \in [Stream -> Seq(Events)]
           /\ at' = [at EXCEPT ![h] = "idle"]
           /\ at' \in [Handler -> Labels]
           /\ ev' = [ev EXCEPT ![h] = NoEvent]
           /\ ev' \in [Handler -> Events \cup {NoEvent}]
           /\ row' = [row EXCEPT ![h] = NewOrg]
           /\ row' \in [Handler -> Rows]
  <1>0. BillingTypeOK /\ Handles(h)
    BY DEF WebhookInv, HandlersFit
  <1>1. /\ at' = [at EXCEPT ![h] = "idle"] /\ ev' = [ev EXCEPT ![h] = NoEvent]
        /\ row' = [row EXCEPT ![h] = NewOrg]
    BY DEF Acknowledge, Goto
  <1>2. /\ at' \in [Handler -> Labels] /\ ev' \in [Handler -> Events \cup {NoEvent}]
        /\ row' \in [Handler -> Rows]
    BY <1>0, <1>1, HandlerTypes DEF Goto, Labels
  <1>3. \/ inbox' = inbox
        \/ Removes(IF ev[h].kind \in SubKinds THEN ev[h].sub
                   ELSE Customer, ev[h])
    BY DEF Acknowledge, Removes
  <1>4. CASE at[h] = "card"
    <2>1. ev[h].kind \notin SubKinds
      BY <1>0, <1>4, EventKinds DEF Handles
    <2>2. inbox' = inbox \/ Removes(Customer, ev[h])
      BY <1>3, <2>1
    <2>3. inbox' \in [Stream -> Seq(Events)]
      BY <1>0, <2>2, RemovesIs DEF BillingTypeOK, Stream
    <2> QED
      BY <1>1, <1>2, <1>4, <2>2, <2>3
  <1>5. CASE at[h] # "card"
    <2>1. ev[h] \in SubEvents
      BY <1>0, <1>5 DEF Handles, TellsOf
    <2>2. ev[h].kind \in SubKinds /\ ev[h].sub \in Sub
      BY <2>1, EventKinds
    <2>3. inbox' = inbox \/ Removes(ev[h].sub, ev[h])
      BY <1>3, <2>2
    <2>4. inbox' \in [Stream -> Seq(Events)]
      BY <1>0, <2>2, <2>3, RemovesIs DEF BillingTypeOK, Stream
    <2> QED
      BY <1>1, <1>2, <1>5, <2>3, <2>4
  <1> QED
    BY <1>4, <1>5

(* What is told, and who handles it, after a step that says no more than   *)
(* the hypotheses.                                                         *)
LEMMA WebhookKept ==
    ASSUME WebhookInv, BillingTypeOK',
           \A s \in Sub :
               /\ subs[s].status # "none" => subs'[s].status # "none"
               /\ subs[s].status = "canceled" => subs'[s].status = "canceled"
               /\ subs'[s] = subs[s] \/ UnpaidRenews(s)',
           \A s \in Sub : \A i \in 1 .. Len(inbox'[s]) :
               \/ \E j \in 1 .. Len(inbox[s]) : inbox'[s][i] = inbox[s][j]
               \/ TellsOf(inbox[s][i], s)',
           \A i \in 1 .. Len(inbox'[Customer]) : inbox'[Customer][i] \in CardEvents,
           \A h \in Handler : \/ at'[h] = at[h] /\ ev'[h] = ev[h]
                              \/ Handles(h)'
    PROVE  WebhookInv'
  <1>1. \A s \in Sub : \A i \in 1 .. Len(inbox'[s]) : TellsOf(inbox[s][i], s)'
    BY DEF WebhookInv, StreamsTold, TellsOf
  <1>2. ASSUME NEW h \in Handler, at'[h] = at[h], ev'[h] = ev[h]
        PROVE  Handles(h)'
    <2>1. Handles(h)
      BY DEF WebhookInv, HandlersFit
    <2>2. at[h] \notin {"idle", "card"} =>
            TellsOf(ev[h], ev[h].sub) /\ ev[h].sub \in Sub
      BY <2>1, EventKinds DEF Handles, TellsOf
    <2>3. at'[h] \notin {"idle", "card"} => TellsOf(ev[h], ev[h].sub)'
      BY <1>2, <2>2 DEF TellsOf
    <2> QED
      BY <1>2, <2>1, <2>3 DEF Handles, Cancels
  <1>3. \A s \in Sub : UnpaidRenews(s)'
    BY DEF WebhookInv, UnpaidRenews
  <1> QED
    BY <1>1, <1>2, <1>3 DEF WebhookInv, StreamsTold, HandlersFit

LEMMA TellsWebhook ==
    ASSUME WebhookInv, BillingTypeOK', NEW s \in Sub, NEW e,
           Change(s, e), Tells(s, e),
           \A i \in 1 .. Len(inbox'[Customer]) : inbox'[Customer][i] \in CardEvents,
           \A h \in Handler : \/ at'[h] = at[h] /\ ev'[h] = ev[h]
                              \/ Handles(h)'
    PROVE  WebhookInv'
  <1>0. BillingTypeOK /\ e \in SubEvents
    BY DEF WebhookInv, Change
  <1>1. /\ subs'[s] = e.data
        /\ \A x \in Sub \ {s} : subs'[x] = subs[x] /\ inbox'[x] = inbox[x]
        /\ Len(inbox[s]) \in Nat
        /\ Len(inbox'[s]) = Len(inbox[s]) + 1
        /\ \A i \in 1 .. Len(inbox[s]) : inbox'[s][i] = inbox[s][i]
        /\ inbox'[s][Len(inbox[s]) + 1] = e
    BY <1>0, TellsIs
  <1>2. /\ e.data.status # "none" /\ (e.kind = "deleted" => e.data.status = "canceled")
        /\ subs[s].status # "canceled" /\ e.sub = s
        /\ e.data.status = "unpaid" => ~e.data.ending
    BY DEF Change, IsKept
  <1>3. \A x \in Sub :
            /\ subs[x].status # "none" => subs'[x].status # "none"
            /\ subs[x].status = "canceled" => subs'[x].status = "canceled"
            /\ subs'[x] = subs[x] \/ UnpaidRenews(x)'
    BY <1>1, <1>2 DEF UnpaidRenews
  <1>4. \A i \in 1 .. Len(inbox'[s]) :
            \/ \E j \in 1 .. Len(inbox[s]) : inbox'[s][i] = inbox[s][j]
            \/ TellsOf(inbox[s][i], s)'
    <2>1. TellsOf(e, s)'
      BY <1>0, <1>1, <1>2 DEF TellsOf
    <2>2. \A i \in 1 .. Len(inbox'[s]) : i \in 1 .. Len(inbox[s]) \/ i = Len(inbox[s]) + 1
      BY <1>1
    <2> QED
      BY <1>1, <2>1, <2>2 DEF TellsOf
  <1>5. \A x \in Sub : \A i \in 1 .. Len(inbox'[x]) :
            \/ \E j \in 1 .. Len(inbox[x]) : inbox'[x][i] = inbox[x][j]
            \/ TellsOf(inbox[x][i], x)'
    <2>1. \A x \in Sub \ {s} : inbox'[x] = inbox[x]
      BY <1>1
    <2>2. ASSUME NEW x \in Sub \ {s}, NEW i \in 1 .. Len(inbox'[x])
          PROVE  \E j \in 1 .. Len(inbox[x]) : inbox'[x][i] = inbox[x][j]
      BY <2>1
    <2> QED
      BY <1>4, <2>2
  <1> QED
    BY <1>3, <1>5, WebhookKept

(* A change to s that fits is told. *)
Told(s, cancelling) ==
    \E e : /\ Change(s, e) /\ Tells(s, e)
           /\ cancelling => e.kind = "deleted"
           /\ inbox' \in [Stream -> Seq(Events)]
           /\ inbox'[Customer] = inbox[Customer]

LEMMA ReportIsTold ==
    ASSUME BillingTypeOK, NEW s \in Sub, NEW data \in Subscriptions, NEW kind,
           kind \in SubKinds, Report(s, data, kind), Change(s, Reported(s, data, kind)),
           NEW cancelling \in BOOLEAN, cancelling => kind = "deleted"
    PROVE  Told(s, cancelling)
  <1>1. PICK e : e = Reported(s, data, kind)
    OBVIOUS
  <1>2. e.kind = kind
    BY <1>1, ReportedIs
  <1>3. /\ Tells(s, e) /\ inbox' \in [Stream -> Seq(Events)]
        /\ inbox'[Customer] = inbox[Customer]
    BY <1>1, ReportIs
  <1> QED
    BY <1>1, <1>2, <1>3 DEF Told

(* The changes that are Stripe's or the owner's. *)
LEMMA OwnChangeTells ==
    ASSUME WebhookInv, NEW s \in Sub,
           \/ (\E p \in Plan : ChangePlan(s, p)) \/ ScheduleDowngrade(s)
           \/ Renew(s) \/ FallBehind(s) \/ Expire(s)
    PROVE  Told(s, FALSE)
  <1>0. /\ BillingTypeOK /\ subs[s] \in Subscriptions
        /\ subs[s].status = "unpaid" => subs[s].ending = FALSE
    BY DEF WebhookInv, BillingTypeOK, UnpaidRenews, Subscriptions
  <1>1. \A data \in Subscriptions : \A kind \in SubKinds :
            Report(s, data, kind) /\ Change(s, Reported(s, data, kind))
                => Told(s, FALSE)
    BY <1>0, ReportIsTold
  <1>2. \A data \in Subscriptions : \A kind \in SubKinds :
            /\ Reported(s, data, kind) \in SubEvents
            /\ Reported(s, data, kind).kind = kind
            /\ Reported(s, data, kind).sub = s
            /\ Reported(s, data, kind).data = data
    BY ReportedIs
  <1>3. "updated" \in SubKinds /\ "deleted" \in SubKinds /\ "paused" \in SubKinds
    BY DEF SubKinds
  <1>4. ASSUME NEW p \in Plan, ChangePlan(s, p) PROVE Told(s, FALSE)
    <2>1. PICK data : data = [subs[s] EXCEPT !.plan = p, !.ending = FALSE]
      OBVIOUS
    <2>2. data \in Subscriptions /\ data.status = subs[s].status
      BY <1>0, <2>1 DEF Subscriptions
    <2>3. subs[s].status = "live" /\ Report(s, data, "updated")
      BY <1>4, <2>1 DEF ChangePlan, IsLive
    <2>4. Change(s, Reported(s, data, "updated"))
      BY <1>2, <1>3, <2>2, <2>3 DEF Change
    <2> QED
      BY <1>1, <1>3, <2>2, <2>3, <2>4
  <1>5. CASE ScheduleDowngrade(s)
    <2>1. PICK data : data = [subs[s] EXCEPT !.ending = TRUE]
      OBVIOUS
    <2>2. data \in Subscriptions /\ data.status = subs[s].status
      BY <1>0, <2>1 DEF Subscriptions
    <2>3. subs[s].status = "live" /\ Report(s, data, "updated")
      BY <1>5, <2>1 DEF ScheduleDowngrade, IsLive
    <2>4. Change(s, Reported(s, data, "updated"))
      BY <1>2, <1>3, <2>2, <2>3 DEF Change
    <2> QED
      BY <1>1, <1>3, <2>2, <2>3, <2>4
  <1>6. CASE Renew(s)
    <2>1. PICK data : data = [subs[s] EXCEPT !.status = "live"]
      OBVIOUS
    <2>2. data \in Subscriptions /\ data.status = "live" /\ data.ending = subs[s].ending
      BY <1>0, <2>1 DEF Subscriptions
    <2>3. subs[s].status \in {"live", "unpaid"} /\ Report(s, data, "updated")
      BY <1>6, <2>1 DEF Renew, IsKept
    <2>4. Change(s, Reported(s, data, "updated"))
      BY <1>0, <1>2, <1>3, <2>2, <2>3 DEF Change
    <2> QED
      BY <1>1, <1>3, <2>2, <2>3, <2>4
  <1>7. CASE FallBehind(s)
    <2>1. PICK data : data = [subs[s] EXCEPT !.status = "unpaid"]
      OBVIOUS
    <2>2. data \in Subscriptions /\ data.status = "unpaid" /\ data.ending = subs[s].ending
      BY <1>0, <2>1 DEF Subscriptions
    <2>3. PICK kind \in {"updated", "paused"} : Report(s, data, kind)
      BY <1>7, <2>1 DEF FallBehind
    <2>4. IsKept(s) /\ ~subs[s].ending
      BY <1>7 DEF FallBehind
    <2>5. Change(s, Reported(s, data, kind))
      BY <1>2, <1>3, <2>2, <2>3, <2>4 DEF Change
    <2> QED
      BY <1>1, <1>3, <2>2, <2>3, <2>5
  <1>8. CASE Expire(s)
    <2>1. Ended \in Subscriptions /\ Ended.status = "canceled"
      BY DEF Ended, Subscriptions, Plan
    <2>2. IsKept(s) /\ Report(s, Ended, "deleted")
      BY <1>8 DEF Expire
    <2>3. Change(s, Reported(s, Ended, "deleted"))
      BY <1>2, <1>3, <2>1, <2>2 DEF Change
    <2> QED
      BY <1>1, <1>3, <2>1, <2>2, <2>3
  <1> QED
    BY <1>4, <1>5, <1>6, <1>7, <1>8

(* The changes that a handler's calls make. *)
LEMMA CallTells ==
    ASSUME WebhookInv, NEW s \in Sub, NEW h,
           CancelDuplicate(h, s) \/ CreateFree(h, s)
    PROVE  Told(s, CancelDuplicate(h, s))
  <1>0. BillingTypeOK
    BY DEF WebhookInv
  <1>1. CancelDuplicate(h, s) \in BOOLEAN
    BY DEF CancelDuplicate
  <1>2. "updated" \in SubKinds /\ "deleted" \in SubKinds
    BY DEF SubKinds
  <1>3. CASE CancelDuplicate(h, s)
    <2>1. Ended \in Subscriptions /\ Ended.status = "canceled"
      BY DEF Ended, Subscriptions, Plan
    <2>2. IsKept(s) /\ Report(s, Ended, "deleted")
      BY <1>3 DEF CancelDuplicate
    <2>3. Change(s, Reported(s, Ended, "deleted"))
      BY <1>2, <2>1, <2>2, ReportedIs DEF Change
    <2> QED
      BY <1>0, <1>1, <1>2, <2>1, <2>2, <2>3, ReportIsTold
  <1>4. CASE CreateFree(h, s)
    <2>1. PICK data : data = [plan |-> "free", status |-> "live", ending |-> FALSE,
                              trial |-> FALSE]
      OBVIOUS
    <2>2. /\ subs[s].status = "none" /\ Report(s, data, "updated")
          /\ ~CancelDuplicate(h, s)
      BY <1>4, <2>1 DEF CreateFree, CancelDuplicate
    <2>3. data \in Subscriptions /\ data.status = "live" /\ data.ending = FALSE
      BY <2>1 DEF Subscriptions, Plan
    <2>4. Change(s, Reported(s, data, "updated"))
      BY <1>2, <2>2, <2>3, ReportedIs DEF Change
    <2> QED
      BY <1>0, <1>1, <1>2, <2>2, <2>3, <2>4, ReportIsTold
  <1> QED
    BY <1>3, <1>4

(* So is the completion of a checkout. *)
LEMMA CheckoutTells ==
    ASSUME WebhookInv, NEW s \in Sub, NEW c \in checkouts, CompleteCheckout(c, s)
    PROVE  \E e : /\ Change(s, e) /\ Tells(s, e)
                  /\ inbox' \in [Stream -> Seq(Events)]
                  /\ \A i \in 1 .. Len(inbox'[Customer]) :
                         inbox'[Customer][i] \in CardEvents
  <1> DEFINE data == [plan |-> c.plan, status |-> "live", ending |-> FALSE,
                      trial |-> c.trial]
             paying == c.plan = "paid" /\ ~c.trial
             attached == [kind |-> "attached"]
  <1>0. /\ c \in [plan : Plan, trial : BOOLEAN]
        /\ inbox \in [Stream -> Seq(Events)] /\ s \in Stream /\ s # Customer
        /\ Customer \in Stream
    BY SubAssumption DEF WebhookInv, BillingTypeOK, Stream
  <1>1. data \in Subscriptions /\ data.status = "live" /\ data.ending = FALSE
    BY <1>0 DEF Subscriptions
  <1>2. PICK e : e = Reported(s, data, "updated")
    OBVIOUS
  <1>3. e \in SubEvents /\ e.kind = "updated" /\ e.sub = s /\ e.data = data
    BY <1>1, <1>2, ReportedIs DEF SubKinds
  <1>4. /\ subs[s].status = "none"
        /\ subs' = [subs EXCEPT ![s] = data]
        /\ inbox' = [k \in Stream |->
                       IF k = s THEN <<e>>
                       ELSE IF k = Customer /\ paying THEN <<attached>>
                       ELSE inbox[k]]
    BY <1>2 DEF CompleteCheckout, Reported
  <1>5. attached \in CardEvents /\ attached \in Events /\ e \in Events
    BY <1>3 DEF CardEvents, Events
  <1> HIDE DEF data, paying, attached
  <1>6. inbox[s] = <<>>
    <2>1. inbox[s] \in Seq(Events)
      BY <1>0
    <2>2. ~(1 \in 1 .. Len(inbox[s]))
      BY <1>4 DEF WebhookInv, StreamsTold, TellsOf
    <2> QED
      BY <2>1, <2>2
  <1>7. /\ inbox'[s] = <<e>>
        /\ inbox'[Customer] = IF paying THEN <<attached>> ELSE inbox[Customer]
        /\ \A x \in Sub \ {s} : inbox'[x] = inbox[x]
    BY <1>0, <1>4, SubAssumption DEF Stream
  <1>8. Append(inbox[s], e) = <<e>>
    BY <1>3, <1>6
  <1>9. Tells(s, e)
    BY <1>3, <1>4, <1>7, <1>8 DEF Tells
  <1>10. Change(s, e)
    BY <1>1, <1>3, <1>4 DEF Change
  <1>11. inbox' \in [Stream -> Seq(Events)]
    <2>1. <<e>> \in Seq(Events) /\ <<attached>> \in Seq(Events)
      BY <1>5
    <2> QED
      BY <1>0, <1>4, <2>1
  <1>12. \A i \in 1 .. Len(inbox'[Customer]) : inbox'[Customer][i] \in CardEvents
    <2>1. CASE paying
      BY <1>5, <1>7, <2>1
    <2>2. CASE ~paying
      BY <1>7, <2>2 DEF WebhookInv, StreamsTold
    <2> QED
      BY <2>1, <2>2
  <1> QED
    BY <1>9, <1>10, <1>11, <1>12

(* A handler goes on with the webhook it has. *)
LEMMA GotoHandles ==
    ASSUME WebhookInv, NEW h \in Handler, NEW label \in Labels, Goto(h, label),
           ev' = ev,
           TellsOf(ev[h], ev[h].sub)',
           label \in {"write", "list", "cancel", "create", "created"},
           label = "write" => ev[h].kind \in Endings \/ Cancels(ev[h]),
           label \in {"list", "cancel"} => Cancels(ev[h]),
           label \in {"create", "created"} => ev[h].kind \in Endings
    PROVE  /\ at' \in [Handler -> Labels]
           /\ at'[h] = label
           /\ \A g \in Handler : \/ at'[g] = at[g] /\ ev'[g] = ev[g]
                                 \/ Handles(g)'
  <1>1. at \in [Handler -> Labels]
    BY DEF WebhookInv, BillingTypeOK
  <1>2. /\ at' \in [Handler -> Labels] /\ at'[h] = label
        /\ \A g \in Handler \ {h} : at'[g] = at[g]
    BY <1>1 DEF Goto
  <1>3. Handles(h)'
    BY <1>2 DEF Handles, Cancels
  <1> QED
    BY <1>2, <1>3

LEMMA StripeWebhook ==
    ASSUME WebhookInv, Owner \/ Stripe
    PROVE  WebhookInv'
  <1>0. BillingTypeOK
    BY DEF WebhookInv
  <1>1. UNCHANGED <<server, handler>>
    BY DEF Owner, Stripe, Checkout, ChangePlan, ScheduleDowngrade, CompleteCheckout,
           Renew, FallBehind, Expire, ChangeCard
  <1>2. /\ UNCHANGED <<org, standby, at, ev, row, old>>
    BY <1>1 DEF server, handler
  <1>3. \A i \in 1 .. Len(inbox[Customer]) : inbox[Customer][i] \in CardEvents
    BY DEF WebhookInv, StreamsTold
  <1>4. ASSUME NEW p \in Plan, NEW trial \in BOOLEAN, Checkout(p, trial)
        PROVE  WebhookInv'
    <2>1. /\ UNCHANGED <<subs, cards, inbox>>
          /\ checkouts' \subseteq checkouts \cup {[plan |-> p, trial |-> trial]}
      BY <1>4 DEF Checkout
    <2>2. checkouts' \subseteq [plan : Plan, trial : BOOLEAN]
      BY <1>0, <2>1 DEF BillingTypeOK
    <2>3. BillingTypeOK'
      BY <1>0, <1>2, <2>1, <2>2 DEF BillingTypeOK
    <2> QED
      BY <1>2, <1>3, <2>1, <2>3, WebhookKept
  <1>5. ASSUME NEW s \in Sub,
               \/ (\E p \in Plan : ChangePlan(s, p)) \/ ScheduleDowngrade(s)
               \/ Renew(s) \/ FallBehind(s) \/ Expire(s)
        PROVE  WebhookInv'
    <2>1. PICK e : /\ Change(s, e) /\ Tells(s, e)
                   /\ inbox' \in [Stream -> Seq(Events)]
                   /\ inbox'[Customer] = inbox[Customer]
      BY <1>5, OwnChangeTells DEF Told
    <2>2. subs' \in [Sub -> Subscriptions]
      BY <1>0, <2>1, TellsIs DEF Change
    <2>3. UNCHANGED <<cards, checkouts>>
      BY <1>5 DEF ChangePlan, ScheduleDowngrade, Renew, FallBehind, Expire
    <2>4. BillingTypeOK'
      BY <1>0, <1>2, <2>1, <2>2, <2>3 DEF BillingTypeOK
    <2> QED
      BY <1>2, <1>3, <2>1, <2>4, TellsWebhook
  <1>6. ASSUME NEW s \in Sub, NEW c \in checkouts, CompleteCheckout(c, s)
        PROVE  WebhookInv'
    <2>1. PICK e : /\ Change(s, e) /\ Tells(s, e)
                   /\ inbox' \in [Stream -> Seq(Events)]
                   /\ \A i \in 1 .. Len(inbox'[Customer]) :
                          inbox'[Customer][i] \in CardEvents
      BY <1>6, CheckoutTells
    <2>2. subs' \in [Sub -> Subscriptions]
      BY <1>0, <2>1, TellsIs DEF Change
    <2>3. cards' \in BOOLEAN /\ checkouts' \subseteq checkouts
      BY <1>0, <1>6 DEF CompleteCheckout, BillingTypeOK
    <2>4. BillingTypeOK'
      BY <1>0, <1>2, <2>1, <2>2, <2>3 DEF BillingTypeOK
    <2> QED
      BY <1>2, <2>1, <2>4, TellsWebhook
  <1>7. CASE ChangeCard
    <2>0. PICK e : e = [kind |-> IF cards THEN "detached" ELSE "attached"]
      OBVIOUS
    <2>1. /\ inbox' = [inbox EXCEPT ![Customer] = <<e>>]
          /\ UNCHANGED <<subs, checkouts>>
      BY <1>7, <2>0 DEF ChangeCard
    <2>7. e \in CardEvents
      <3>1. (IF cards THEN "detached" ELSE "attached") \in {"attached", "detached"}
        OBVIOUS
      <3> QED
        BY <2>0, <3>1 DEF CardEvents
    <2>2. inbox \in [Stream -> Seq(Events)] /\ e \in Events /\ Customer \in Stream
      BY <1>0, <2>7 DEF BillingTypeOK, Events, Stream
    <2>3. /\ inbox' \in [Stream -> Seq(Events)] /\ inbox'[Customer] = <<e>>
          /\ \A x \in Sub : inbox'[x] = inbox[x]
      BY <2>1, <2>2, SubAssumption DEF Stream
    <2>4. cards' \in BOOLEAN
      <3>1. cards' = ~cards
        BY <1>7 DEF ChangeCard
      <3> QED
        BY <3>1
    <2>5. BillingTypeOK'
      BY <1>0, <1>2, <2>1, <2>3, <2>4 DEF BillingTypeOK
    <2>6. \A i \in 1 .. Len(inbox'[Customer]) : inbox'[Customer][i] \in CardEvents
      BY <2>3, <2>7
    <2> QED
      BY <1>2, <2>1, <2>3, <2>5, <2>6, WebhookKept
  <1> QED
    BY <1>4, <1>5, <1>6, <1>7 DEF Owner, Stripe

(* A handler takes up a webhook, or an acknowledgement leaves it idle. *)
LEMMA BeginWebhook ==
    ASSUME WebhookInv, NEW h \in Handler, NEW k \in Stream,
           NEW i \in 1 .. Len(inbox[k]),
           NEW label \in Labels, Begin(h, inbox[k][i], label),
           \/ k = Customer /\ label = "card"
           \/ /\ k \in Sub
              /\ \/ /\ label = "pending"
                    /\ inbox[k][i].kind = "updated" /\ ~Cancels(inbox[k][i])
                 \/ /\ label = "daemons"
                    /\ inbox[k][i].kind \in Endings \/ Cancels(inbox[k][i])
    PROVE  WebhookInv'
  <1>0. BillingTypeOK
    BY DEF WebhookInv
  <1>1. PICK e : e = inbox[k][i]
    OBVIOUS
  <1>2. /\ Goto(h, label) /\ ev' = [ev EXCEPT ![h] = e] /\ row' = [row EXCEPT ![h] = org]
        /\ UNCHANGED <<subs, cards, checkouts, inbox, org, standby, old>>
    BY <1>1 DEF Begin, stripe, server
  <1>3. e \in Events
    <2>1. inbox[k] \in Seq(Events)
      BY <1>0 DEF BillingTypeOK
    <2> QED
      BY <1>1, <2>1
  <1>4. /\ at' \in [Handler -> Labels] /\ ev' \in [Handler -> Events \cup {NoEvent}]
        /\ row' \in [Handler -> Rows]
    BY <1>0, <1>2, <1>3, HandlerTypes DEF BillingTypeOK
  <1>5. BillingTypeOK'
    BY <1>0, <1>2, <1>4 DEF BillingTypeOK
  <1>6. /\ at'[h] = label /\ ev'[h] = e
        /\ \A g \in Handler \ {h} : at'[g] = at[g] /\ ev'[g] = ev[g]
    BY <1>0, <1>2 DEF BillingTypeOK, Goto
  <1>7. CASE k = Customer /\ label = "card"
    <2>1. e \in CardEvents
      BY <1>1, <1>7 DEF WebhookInv, StreamsTold
    <2>2. Handles(h)'
      BY <1>6, <1>7, <2>1 DEF Handles
    <2>3. \A j \in 1 .. Len(inbox'[Customer]) : inbox'[Customer][j] \in CardEvents
      BY <1>2 DEF WebhookInv, StreamsTold
    <2> QED
      BY <1>2, <1>5, <1>6, <2>2, <2>3, WebhookKept
  <1>8. CASE k \in Sub /\ label \in {"pending", "daemons"}
    <2>1. TellsOf(e, k)
      BY <1>1, <1>8 DEF WebhookInv, StreamsTold
    <2>2. TellsOf(e, e.sub)
      BY <2>1 DEF TellsOf
    <2>3. TellsOf(ev[h], ev[h].sub)'
      BY <1>2, <1>6, <2>2 DEF TellsOf
    <2>4. \/ label = "pending" /\ e.kind = "updated" /\ ~Cancels(e)
          \/ label = "daemons" /\ (e.kind \in Endings \/ Cancels(e))
      BY <1>1, <1>8, SubAssumption
    <2>5. Handles(h)'
      BY <1>6, <1>8, <2>3, <2>4 DEF Handles, Cancels
    <2>6. \A j \in 1 .. Len(inbox'[Customer]) : inbox'[Customer][j] \in CardEvents
      BY <1>2 DEF WebhookInv, StreamsTold
    <2> QED
      BY <1>2, <1>5, <1>6, <2>5, <2>6, WebhookKept
  <1> QED
    BY <1>7, <1>8

(* Webhooks disappear and a handler may become idle. *)
LEMMA RemoveWebhook ==
    ASSUME WebhookInv, BillingTypeOK', subs' = subs,
           inbox' = inbox \/ (\E k \in Stream : \E e : Removes(k, e)),
           \A h \in Handler : \/ at'[h] = at[h] /\ ev'[h] = ev[h]
                              \/ at'[h] = "idle"
    PROVE  WebhookInv'
  <1>0. BillingTypeOK
    BY DEF WebhookInv
  <1>1. \A k \in Stream : \A i \in 1 .. Len(inbox'[k]) :
            \E j \in 1 .. Len(inbox[k]) : inbox'[k][i] = inbox[k][j]
    <2>1. CASE inbox' = inbox
      BY <2>1
    <2>2. ASSUME NEW k \in Stream, NEW e, Removes(k, e)
          PROVE  \A x \in Stream : \A i \in 1 .. Len(inbox'[x]) :
                     \E j \in 1 .. Len(inbox[x]) : inbox'[x][i] = inbox[x][j]
      <3>1. /\ \A x \in Stream \ {k} : inbox'[x] = inbox[x]
            /\ \A i \in 1 .. Len(inbox'[k]) :
                   \E j \in 1 .. Len(inbox[k]) : inbox'[k][i] = inbox[k][j]
        BY <1>0, <2>2, RemovesIs
      <3> QED
        BY <3>1
    <2> QED
      BY <2>1, <2>2
  <1>2. \A i \in 1 .. Len(inbox'[Customer]) : inbox'[Customer][i] \in CardEvents
    BY <1>1 DEF WebhookInv, StreamsTold, Stream
  <1>3. \A h \in Handler : at'[h] = "idle" => Handles(h)'
    BY DEF Handles
  <1> QED
    BY <1>1, <1>2, <1>3, WebhookKept DEF Stream

LEMMA AcknowledgeWebhook ==
    ASSUME WebhookInv, NEW h \in Handler, at[h] # "idle", Acknowledge(h),
           UNCHANGED <<subs, cards, checkouts, standby, old>>, org' \in Rows
    PROVE  WebhookInv'
  <1>0. BillingTypeOK /\ Handles(h)
    BY DEF WebhookInv, HandlersFit
  <1>1. /\ inbox' \in [Stream -> Seq(Events)]
        /\ at' = [at EXCEPT ![h] = "idle"] /\ at' \in [Handler -> Labels]
        /\ ev' = [ev EXCEPT ![h] = NoEvent] /\ ev' \in [Handler -> Events \cup {NoEvent}]
        /\ row' \in [Handler -> Rows]
    BY AcknowledgeIs
  <1>2. BillingTypeOK'
    BY <1>0, <1>1 DEF BillingTypeOK
  <1>3. inbox' = inbox \/ (\E k \in Stream : \E e : Removes(k, e))
    <2>1. at[h] # "card" => ev[h].sub \in Stream
      BY <1>0, EventKinds DEF Handles, TellsOf, Stream
    <2>2. Customer \in Stream
      BY DEF Stream
    <2> QED
      BY <2>1, <2>2, AcknowledgeIs
  <1>4. /\ at'[h] = "idle"
        /\ \A g \in Handler \ {h} : at'[g] = at[g] /\ ev'[g] = ev[g]
    BY <1>0, <1>1 DEF BillingTypeOK
  <1> QED
    BY <1>2, <1>3, <1>4, RemoveWebhook

LEMMA HandlerWebhook ==
    ASSUME WebhookInv, NEW h \in Handler, Handle(h) \/ Fail(h)
    PROVE  WebhookInv'
  <1>0. /\ BillingTypeOK /\ Handles(h) /\ row[h] \in Rows
        /\ \A i \in 1 .. Len(inbox[Customer]) : inbox[Customer][i] \in CardEvents
    BY DEF WebhookInv, HandlersFit, BillingTypeOK, StreamsTold
  <1>1. at[h] \notin {"idle", "card"} => ev[h] \in SubEvents /\ TellsOf(ev[h], ev[h].sub)
    BY <1>0 DEF Handles, TellsOf
  <1>2. \A r \in Rows : r.plan \in Plan \cup {"none"} /\ r.trialed \in BOOLEAN
                        /\ r.card \in BOOLEAN
    BY DEF Rows
  <1>3. ASSUME NEW s \in Sub, NEW i \in 1 .. Len(inbox[s]),
               \/ HandleSubscriptionUpdate(h, s, i) \/ HandleSubscriptionDeleted(h, s, i)
        PROVE  WebhookInv'
    <2>1. PICK label \in {"pending", "daemons"} :
            /\ Begin(h, inbox[s][i], label)
            /\ \/ /\ label = "pending"
                  /\ inbox[s][i].kind = "updated" /\ ~Cancels(inbox[s][i])
               \/ /\ label = "daemons"
                  /\ inbox[s][i].kind \in Endings \/ Cancels(inbox[s][i])
      BY <1>3 DEF HandleSubscriptionUpdate, HandleSubscriptionDeleted, Cancels, Endings
    <2>2. label \in Labels /\ s \in Stream
      BY DEF Labels, Stream
    <2> QED
      BY <2>1, <2>2, BeginWebhook
  <1>4. CASE HandlePaymentMethod(h)
    <2>1. Begin(h, inbox[Customer][1], "card") /\ 1 \in 1 .. Len(inbox[Customer])
      BY <1>4 DEF HandlePaymentMethod, Deliverable
    <2>2. "card" \in Labels /\ Customer \in Stream
      BY DEF Labels, Stream
    <2> QED
      BY <2>1, <2>2, BeginWebhook
  <1>5. ASSUME NEW s \in Sub, NEW i \in 1 .. Len(inbox[s]),
               IgnoreSubscriptionDeleted(h, s, i)
        PROVE  WebhookInv'
    <2>1. /\ inbox' = [inbox EXCEPT ![s] = RemoveAt(@, i)]
          /\ UNCHANGED <<subs, cards, checkouts, org, standby, at, ev, row, old>>
      BY <1>5 DEF IgnoreSubscriptionDeleted, server, handler
    <2>2. inbox \in [Stream -> Seq(Events)] /\ s \in Stream
      BY <1>0 DEF BillingTypeOK, Stream
    <2>3. PICK q \in Seq(Events) : q = inbox[s]
      BY <2>2
    <2>4. RemoveAt(q, i) \in Seq(Events)
      BY <2>3, RemoveAtIs
    <2>5. /\ inbox' \in [Stream -> Seq(Events)] /\ inbox'[s] = RemoveAt(q, i)
          /\ \A x \in Stream \ {s} : inbox'[x] = inbox[x]
      BY <2>1, <2>2, <2>3, <2>4
    <2>6. \A j \in 1 .. Len(inbox'[s]) :
              \E m \in 1 .. Len(inbox[s]) : inbox'[s][j] = inbox[s][m]
      <3>1. KeepsOthers(RemoveAt(q, i), q, i)
        BY <2>3, RemoveAtKeeps
      <3>2. KeepsOthers(inbox'[s], inbox[s], i)
        BY <2>3, <2>5, <3>1
      <3> QED
        BY <3>2 DEF KeepsOthers
    <2>7. BillingTypeOK'
      BY <1>0, <2>1, <2>5 DEF BillingTypeOK
    <2>8. \A x \in Sub : \A j \in 1 .. Len(inbox'[x]) :
              \E m \in 1 .. Len(inbox[x]) : inbox'[x][j] = inbox[x][m]
      BY <2>5, <2>6 DEF Stream
    <2>9. \A j \in 1 .. Len(inbox'[Customer]) : inbox'[Customer][j] \in CardEvents
      BY <1>0, <2>5, SubAssumption DEF Stream
    <2> QED
      BY <2>1, <2>7, <2>8, <2>9, WebhookKept
  <1>6. CASE WriteCard(h) \/ MarkPending(h) \/ FinishUpdate(h) \/ FinishDelete(h)
    <2>1. /\ at[h] # "idle" /\ Acknowledge(h)
          /\ UNCHANGED <<subs, cards, checkouts, standby, old>>
      BY <1>6 DEF WriteCard, MarkPending, FinishUpdate, FinishDelete, server
    <2>2. /\ [row[h] EXCEPT !.card = TRUE] \in Rows
          /\ [row[h] EXCEPT !.card = FALSE] \in Rows
      BY <1>0 DEF Rows
    <2>3. org' \in Rows
      BY <1>0, <1>6, <2>2 DEF WriteCard, MarkPending, FinishUpdate, FinishDelete, server,
                              BillingTypeOK, Stored
    <2> QED
      BY <2>1, <2>3, AcknowledgeWebhook
  <1>7. CASE SetStandby(h)
    <2>1. /\ at[h] = "daemons" /\ Goto(h, "write") /\ standby' \in BOOLEAN
          /\ UNCHANGED <<subs, cards, checkouts, inbox, org, ev, row, old>>
      <3>1. (Target(h) = "free") \in BOOLEAN /\ standby \in BOOLEAN
        BY <1>0 DEF BillingTypeOK
      <3>2. standby' \in BOOLEAN
        BY <1>7, <3>1 DEF SetStandby, Stored
      <3> QED
        BY <1>7, <3>2 DEF SetStandby, stripe
    <2>2. /\ TellsOf(ev[h], ev[h].sub)'
          /\ ev[h].kind \in Endings \/ Cancels(ev[h])
      BY <1>0, <1>1, <2>1 DEF Handles, TellsOf
    <2>3. /\ at' \in [Handler -> Labels]
          /\ \A g \in Handler : \/ at'[g] = at[g] /\ ev'[g] = ev[g]
                                \/ Handles(g)'
      BY <2>1, <2>2, GotoHandles DEF Labels
    <2>4. BillingTypeOK'
      BY <1>0, <2>1, <2>3 DEF BillingTypeOK
    <2> QED
      BY <1>0, <2>1, <2>3, <2>4, WebhookKept
  <1>8. CASE WriteUpdated(h) \/ WriteDeleted(h)
    <2>1. PICK label \in {"list", "create"} :
            /\ at[h] = "write" /\ Goto(h, label)
            /\ label = "list" => ev[h].kind = "updated"
            /\ label = "create" => ev[h].kind \in Endings
            /\ UNCHANGED <<subs, cards, checkouts, inbox, standby, ev, row, old>>
      BY <1>8 DEF WriteUpdated, WriteDeleted, stripe, Endings
    <2>2. /\ TellsOf(ev[h], ev[h].sub)'
          /\ ev[h].kind \in Endings \/ Cancels(ev[h])
          /\ ev[h].data.trial \in BOOLEAN
      BY <1>0, <1>1, <2>1, EventKinds DEF Handles, TellsOf, Subscriptions
    <2>3. /\ at' \in [Handler -> Labels]
          /\ \A g \in Handler : \/ at'[g] = at[g] /\ ev'[g] = ev[g]
                                \/ Handles(g)'
      <3>1. label \in Labels
        BY DEF Labels
      <3> QED
        BY <2>1, <2>2, <3>1, GotoHandles DEF Cancels, Endings
    <2>4. org' \in Rows
      <3>1. /\ [row[h] EXCEPT !.plan = "free"] \in Rows
            /\ [row[h] EXCEPT !.plan = "paid", !.trialed = ev[h].data.trial] \in Rows
            /\ [row[h] EXCEPT !.plan = "free", !.card = FALSE] \in Rows
        BY <1>0, <2>2 DEF Rows, Plan
      <3> QED
        BY <1>0, <1>8, <3>1 DEF WriteUpdated, WriteDeleted, Stored, BillingTypeOK
    <2>5. BillingTypeOK'
      BY <1>0, <2>1, <2>3, <2>4 DEF BillingTypeOK
    <2> QED
      BY <1>0, <2>1, <2>3, <2>5, WebhookKept
  <1>9. CASE ListDuplicates(h)
    <2>1. /\ at[h] = "list" /\ Goto(h, "cancel")
          /\ old' = [old EXCEPT ![h] = OtherLive(ev[h].sub)]
          /\ UNCHANGED <<subs, cards, checkouts, inbox, org, standby, ev, row>>
      BY <1>9 DEF ListDuplicates, stripe, server
    <2>2. TellsOf(ev[h], ev[h].sub)' /\ Cancels(ev[h])
      BY <1>0, <1>1, <2>1 DEF Handles, TellsOf
    <2>3. /\ at' \in [Handler -> Labels]
          /\ \A g \in Handler : \/ at'[g] = at[g] /\ ev'[g] = ev[g]
                                \/ Handles(g)'
      BY <2>1, <2>2, GotoHandles DEF Labels
    <2>4. old' \in [Handler -> SUBSET Sub]
      BY <1>0, <2>1, HandlerTypes DEF OtherLive
    <2>5. BillingTypeOK'
      BY <1>0, <2>1, <2>3, <2>4 DEF BillingTypeOK
    <2> QED
      BY <1>0, <2>1, <2>3, <2>5, WebhookKept
  <1>10. ASSUME NEW s \in Sub, CancelDuplicate(h, s)
         PROVE  WebhookInv'
    <2>1. /\ UNCHANGED <<cards, checkouts, org, standby, at, ev, row>>
          /\ old' = [old EXCEPT ![h] = old[h] \ {s}]
      BY <1>10 DEF CancelDuplicate, server
    <2>2. PICK e : /\ Change(s, e) /\ Tells(s, e)
                   /\ inbox' \in [Stream -> Seq(Events)]
                   /\ inbox'[Customer] = inbox[Customer]
      BY <1>0, <1>10, CallTells DEF Told
    <2>3. subs' \in [Sub -> Subscriptions]
      BY <1>0, <2>2, TellsIs DEF Change
    <2>4. old' \in [Handler -> SUBSET Sub]
      BY <1>0, <2>1, HandlerTypes DEF BillingTypeOK
    <2>5. BillingTypeOK'
      BY <1>0, <2>1, <2>2, <2>3, <2>4 DEF BillingTypeOK
    <2> QED
      BY <1>0, <2>1, <2>2, <2>5, TellsWebhook
  <1>11. ASSUME NEW s \in Sub, CreateFree(h, s)
         PROVE  WebhookInv'
    <2>1. /\ UNCHANGED <<cards, checkouts, org, standby, ev, row, old>>
          /\ at[h] = "create" /\ Goto(h, "created")
      BY <1>11 DEF CreateFree, server
    <2>2. PICK e : /\ Change(s, e) /\ Tells(s, e)
                   /\ inbox' \in [Stream -> Seq(Events)]
                   /\ inbox'[Customer] = inbox[Customer]
      BY <1>0, <1>11, CallTells DEF Told
    <2>3. /\ subs' \in [Sub -> Subscriptions] /\ subs'[s] = e.data
          /\ \A x \in Sub \ {s} : subs'[x] = subs[x]
      BY <1>0, <2>2, TellsIs DEF Change
    <2>4. ev[h].kind \in Endings /\ ev[h] \in SubEvents /\ ev[h].sub \in Sub
          /\ subs[ev[h].sub].status # "none" /\ TellsOf(ev[h], ev[h].sub)
      BY <1>0, <1>1, <2>1, EventKinds DEF Handles, TellsOf
    <2>5. ev[h].sub # s
      BY <1>11, <2>4 DEF CreateFree
    <2>6. TellsOf(ev[h], ev[h].sub)'
      BY <2>1, <2>3, <2>4, <2>5 DEF TellsOf
    <2>7. /\ at' \in [Handler -> Labels]
          /\ \A g \in Handler : \/ at'[g] = at[g] /\ ev'[g] = ev[g]
                                \/ Handles(g)'
      BY <2>1, <2>4, <2>6, GotoHandles DEF Labels
    <2>8. BillingTypeOK'
      BY <1>0, <2>1, <2>2, <2>3, <2>7 DEF BillingTypeOK
    <2> QED
      BY <1>0, <2>2, <2>7, <2>8, TellsWebhook
  <1>12. CASE Fail(h)
    <2>1. /\ Goto(h, "idle") /\ ev' = [ev EXCEPT ![h] = NoEvent]
          /\ row' = [row EXCEPT ![h] = NewOrg] /\ old' = [old EXCEPT ![h] = {}]
          /\ UNCHANGED <<subs, cards, checkouts, inbox, org, standby>>
      BY <1>12 DEF Fail, stripe, server
    <2>2. /\ at' \in [Handler -> Labels] /\ ev' \in [Handler -> Events \cup {NoEvent}]
          /\ row' \in [Handler -> Rows] /\ old' \in [Handler -> SUBSET Sub]
      BY <1>0, <2>1, HandlerTypes DEF Labels
    <2>3. BillingTypeOK'
      BY <1>0, <2>1, <2>2 DEF BillingTypeOK
    <2>4. /\ at'[h] = "idle"
          /\ \A g \in Handler \ {h} : at'[g] = at[g] /\ ev'[g] = ev[g]
      BY <1>0, <2>1 DEF BillingTypeOK, Goto
    <2> QED
      BY <2>1, <2>3, <2>4, RemoveWebhook
  <1> QED
    BY <1>3, <1>4, <1>5, <1>6, <1>7, <1>8, <1>9, <1>10, <1>11, <1>12 DEF Handle

LEMMA WebhookStep ==
    ASSUME WebhookInv, [Next]_vars
    PROVE  WebhookInv'
  <1>1. CASE UNCHANGED vars
    BY <1>1 DEF vars, stripe, server, handler, WebhookInv, BillingTypeOK, StreamsTold,
                HandlersFit, Handles, TellsOf, Cancels, UnpaidRenews
  <1> QED
    BY <1>1, StripeWebhook, HandlerWebhook DEF Next

LEMMA WebhookInit == Init => WebhookInv
  <1> SUFFICES ASSUME Init PROVE WebhookInv
    OBVIOUS
  <1>1. BillingTypeOK
    <2>1. /\ [plan |-> "free", status |-> "none", ending |-> FALSE, trial |-> FALSE]
                 \in Subscriptions
          /\ NewOrg \in Rows
          /\ "idle" \in Labels
      BY DEF Subscriptions, Plan, Rows, NewOrg, Labels
    <2>2. <<>> \in Seq(Events)
      OBVIOUS
    <2>3. /\ subs \in [Sub -> Subscriptions] /\ cards \in BOOLEAN /\ checkouts = {}
          /\ inbox \in [Stream -> Seq(Events)]
      BY <2>1, <2>2 DEF Init
    <2>4. org \in Rows /\ standby \in BOOLEAN
      BY <2>1 DEF Init
    <2>5. /\ at \in [Handler -> Labels] /\ ev \in [Handler -> Events \cup {NoEvent}]
          /\ row \in [Handler -> Rows] /\ old \in [Handler -> SUBSET Sub]
      BY <2>1 DEF Init
    <2> QED
      BY <2>3, <2>4, <2>5 DEF BillingTypeOK
  <1>2. StreamsTold
    BY DEF Init, StreamsTold, Stream
  <1>3. HandlersFit /\ \A s \in Sub : UnpaidRenews(s)
    BY DEF Init, HandlersFit, Handles, UnpaidRenews
  <1> QED
    BY <1>1, <1>2, <1>3 DEF WebhookInv

(* Webhooks and the handlers' positions tell of subscriptions that were    *)
(* made: the checkouts, reports and acknowledgements keep WebhookInv.      *)
THEOREM WebhookInvariance == Spec => []WebhookInv
  <1>1. WebhookInv /\ [Next]_vars => WebhookInv'
    BY WebhookStep
  <1> QED
    BY <1>1, WebhookInit, PTL DEF Spec

(* The state of Stripe, the organization and the webhook handlers keeps    *)
(* its types.                                                              *)
THEOREM BillingTyped == Spec => []BillingTypeOK
  <1>1. WebhookInv => BillingTypeOK
    BY DEF WebhookInv
  <1> QED
    BY <1>1, WebhookInvariance, PTL

-----------------------------------------------------------------------------
(* A webhook is handled once at a time *)

LEMMA ApartKept ==
    ASSUME WebhookInv, Apart, Held,
           \A g \in Handler :
               \/ at'[g] = "idle"
               \/ at[g] # "idle" /\ ev'[g] = ev[g] /\ (at[g] = "card" => at'[g] = "card"),
           \A g \in Handler :
               at'[g] # "idle" /\ at[g] \notin {"idle", "card"} =>
                   \/ ~Occurs(inbox[ev[g].sub], ev[g])
                   \/ Occurs(inbox'[ev[g].sub], ev[g])
    PROVE  Apart' /\ Held'
  <1>1. Apart'
    BY DEF Apart
  <1>2. Held'
    <2>1. ASSUME NEW g \in Handler, at'[g] \notin {"idle", "card"}
          PROVE  Occurs(inbox'[ev'[g].sub], ev'[g])
      <3>1. at[g] \notin {"idle", "card"} /\ ev'[g] = ev[g]
        BY <2>1
      <3>2. Occurs(inbox[ev[g].sub], ev[g])
        BY <3>1 DEF Held
      <3> QED
        BY <2>1, <3>1, <3>2
    <2> QED
      BY <2>1 DEF Held, Occurs
  <1> QED
    BY <1>1, <1>2

(* What is appended takes nothing away. *)
LEMMA TellsKeeps ==
    ASSUME WebhookInv, NEW s \in Sub, NEW e, Change(s, e), Tells(s, e)
    PROVE  /\ \A y \in Sub : \A x : Occurs(inbox[y], x) => Occurs(inbox'[y], x)
           /\ \A y \in Sub : \A x : Twice(inbox[y], x) => Twice(inbox'[y], x)
           /\ Occurs(inbox'[s], e)
           /\ Occurs(inbox[s], e) => Twice(inbox'[s], e)
  <1>0. BillingTypeOK /\ e \in SubEvents
    BY DEF WebhookInv, Change
  <1>1. /\ \A x \in Sub \ {s} : inbox'[x] = inbox[x]
        /\ Len(inbox[s]) \in Nat
        /\ Len(inbox'[s]) = Len(inbox[s]) + 1
        /\ \A i \in 1 .. Len(inbox[s]) : inbox'[s][i] = inbox[s][i]
        /\ inbox'[s][Len(inbox[s]) + 1] = e
    BY <1>0, TellsIs
  <1>2. PICK n \in Nat : n = Len(inbox[s])
    BY <1>1
  <1>3. /\ \A i \in 1 .. n : i \in 1 .. n + 1
        /\ n + 1 \in 1 .. n + 1
        /\ n + 1 \notin 1 .. n
    OBVIOUS
  <1>4. \A x : Occurs(inbox[s], x) => Occurs(inbox'[s], x)
    BY <1>1, <1>2, <1>3 DEF Occurs
  <1>5. \A x : Twice(inbox[s], x) => Twice(inbox'[s], x)
    BY <1>1, <1>2, <1>3 DEF Twice
  <1>6. Occurs(inbox'[s], e)
    BY <1>1, <1>2, <1>3 DEF Occurs
  <1>7. Occurs(inbox[s], e) => Twice(inbox'[s], e)
    BY <1>1, <1>2, <1>3 DEF Occurs, Twice
  <1>8. \A y \in Sub : y = s \/ inbox'[y] = inbox[y]
    BY <1>1
  <1> QED
    BY <1>4, <1>5, <1>6, <1>7, <1>8

(* An acknowledgement takes away no webhook but the handler's own. *)
LEMMA AcknowledgeKeeps ==
    ASSUME WebhookInv, NEW h \in Handler, at[h] # "idle", Acknowledge(h)
    PROVE  /\ \A y \in Sub : \A x : Occurs(inbox[y], x) =>
                  Occurs(inbox'[y], x) \/ (at[h] # "card" /\ x = ev[h])
           /\ \A y \in Sub : \A x : Twice(inbox[y], x) =>
                  /\ Occurs(inbox'[y], x)
                  /\ Twice(inbox'[y], x) \/ (at[h] # "card" /\ x = ev[h])
  <1>0. BillingTypeOK /\ Handles(h)
    BY DEF WebhookInv, HandlersFit
  <1>1. \A y \in Sub : \A x : Twice(inbox[y], x) => Occurs(inbox[y], x)
    BY DEF Twice, Occurs
  <1>2. \/ inbox' = inbox
        \/ at[h] = "card" /\ Removes(Customer, ev[h])
        \/ at[h] # "card" /\ Removes(ev[h].sub, ev[h])
    BY AcknowledgeIs
  <1>3. CASE inbox' = inbox
    BY <1>1, <1>3
  <1>4. CASE at[h] = "card" /\ Removes(Customer, ev[h])
    <2>1. \A y \in Sub : inbox'[y] = inbox[y]
      BY <1>0, <1>4, RemovesIs, SubAssumption DEF Stream
    <2> QED
      BY <1>1, <2>1
  <1>5. CASE at[h] # "card" /\ Removes(ev[h].sub, ev[h])
    <2>1. PICK k \in Stream : k = ev[h].sub
      BY <1>0, <1>5, EventKinds DEF Handles, TellsOf, Stream
    <2>2. Removes(k, ev[h])
      BY <1>5, <2>1
    <2>3. /\ \A x \in Stream \ {k} : inbox'[x] = inbox[x]
          /\ \A j \in 1 .. Len(inbox[k]) : inbox[k][j] # ev[h] =>
                 \E i \in 1 .. Len(inbox'[k]) : inbox'[k][i] = inbox[k][j]
          /\ \A x : Twice(inbox[k], x) =>
                 Occurs(inbox'[k], x) /\ (x # ev[h] => Twice(inbox'[k], x))
      BY <1>0, <2>2, RemovesIs
    <2>4. \A x : Occurs(inbox[k], x) => Occurs(inbox'[k], x) \/ x = ev[h]
      BY <2>3 DEF Occurs
    <2>5. \A y \in Sub : y = k \/ inbox'[y] = inbox[y]
      BY <2>3 DEF Stream
    <2> QED
      BY <1>1, <1>5, <2>3, <2>4, <2>5
  <1> QED
    BY <1>2, <1>3, <1>4, <1>5

(* A webhook that is ignored is nobody's. *)
LEMMA IgnoreKeeps ==
    ASSUME WebhookInv, NEW h \in Handler, NEW s \in Sub, NEW i \in 1 .. Len(inbox[s]),
           IgnoreSubscriptionDeleted(h, s, i)
    PROVE  \E e : /\ e.kind \in Endings
                  /\ \A g \in Handler : ev[g] # e
                  /\ \A y \in Sub : \A x : Occurs(inbox[y], x) =>
                         Occurs(inbox'[y], x) \/ x = e
                  /\ \A y \in Sub : \A x : Twice(inbox[y], x) =>
                         Occurs(inbox'[y], x) /\ (Twice(inbox'[y], x) \/ x = e)
  <1>1. /\ inbox' = [inbox EXCEPT ![s] = RemoveAt(@, i)]
        /\ inbox[s][i].kind \in Endings
        /\ \A g \in Handler : ev[g] # inbox[s][i]
    BY DEF IgnoreSubscriptionDeleted, Deliverable, Endings
  <1>2. inbox \in [Stream -> Seq(Events)] /\ s \in Stream /\ \A y \in Sub : y \in Stream
    BY DEF WebhookInv, BillingTypeOK, Stream
  <1>3. PICK q \in Seq(Events) : q = inbox[s]
    BY <1>2
  <1>4. inbox'[s] = RemoveAt(q, i) /\ \A y \in Sub \ {s} : inbox'[y] = inbox[y]
    BY <1>1, <1>2, <1>3
  <1>5. \A x : Occurs(inbox[s], x) => Occurs(inbox'[s], x) \/ x = inbox[s][i]
    <2>1. KeepsOthers(RemoveAt(q, i), q, i)
      BY <1>3, RemoveAtKeeps
    <2>2. KeepsOthers(inbox'[s], inbox[s], i)
      BY <1>3, <1>4, <2>1
    <2> QED
      BY <2>2 DEF KeepsOthers, Occurs
  <1>6. \A x : Twice(inbox[s], x) =>
            Occurs(inbox'[s], x) /\ (x # inbox[s][i] => Twice(inbox'[s], x))
    BY <1>3, <1>4, RemoveAtTwice
  <1>7. \A y \in Sub \ {s} : \A x : Twice(inbox[y], x) => Occurs(inbox[y], x)
    BY DEF Twice, Occurs
  <1>8. \A y \in Sub : \A x : Occurs(inbox[y], x) => Occurs(inbox'[y], x) \/ x = inbox[s][i]
    BY <1>4, <1>5
  <1>9. \A y \in Sub : \A x : Twice(inbox[y], x) =>
            Occurs(inbox'[y], x) /\ (Twice(inbox'[y], x) \/ x = inbox[s][i])
    BY <1>4, <1>6, <1>7
  <1> QED
    BY <1>1, <1>8, <1>9

LEMMA ApartStep ==
    ASSUME WebhookInv, Apart, Held, [Next]_vars
    PROVE  Apart' /\ Held'
  <1>0. /\ BillingTypeOK
        /\ at \in [Handler -> Labels] /\ ev \in [Handler -> Events \cup {NoEvent}]
        /\ \A g \in Handler : at[g] \notin {"idle", "card"} => ev[g].sub \in Sub
    BY EventKinds DEF WebhookInv, BillingTypeOK, HandlersFit, Handles, TellsOf
  <1>1. ASSUME UNCHANGED <<at, ev>>,
               \A y \in Sub : \A x : Occurs(inbox[y], x) => Occurs(inbox'[y], x)
        PROVE  Apart' /\ Held'
    BY <1>0, <1>1, ApartKept
  <1>2. CASE UNCHANGED vars
    BY <1>1, <1>2 DEF vars, stripe, handler
  <1>3. CASE Owner \/ Stripe
    <2>1. UNCHANGED <<at, ev>>
      BY <1>3 DEF Owner, Stripe, Checkout, ChangePlan, ScheduleDowngrade, CompleteCheckout,
                  Renew, FallBehind, Expire, ChangeCard, handler
    <2>2. \/ \A y \in Sub : inbox'[y] = inbox[y]
          \/ \E s \in Sub : \E e : Change(s, e) /\ Tells(s, e)
      <3>1. CASE ChangeCard
        BY <1>0, <3>1, SubAssumption DEF ChangeCard, BillingTypeOK, Stream
      <3>2. ASSUME NEW s \in Sub,
                   \/ (\E p \in Plan : ChangePlan(s, p)) \/ ScheduleDowngrade(s)
                   \/ Renew(s) \/ FallBehind(s) \/ Expire(s)
            PROVE  \E e : Change(s, e) /\ Tells(s, e)
        BY <3>2, OwnChangeTells DEF Told
      <3>3. ASSUME NEW s \in Sub, NEW c \in checkouts, CompleteCheckout(c, s)
            PROVE  \E e : Change(s, e) /\ Tells(s, e)
        BY <3>3, CheckoutTells
      <3>4. ASSUME NEW p \in Plan, NEW trial \in BOOLEAN, Checkout(p, trial)
            PROVE  inbox' = inbox
        BY <3>4 DEF Checkout
      <3> QED
        BY <1>3, <3>1, <3>2, <3>3, <3>4 DEF Owner, Stripe
    <2> QED
      BY <1>1, <2>1, <2>2, TellsKeeps
  <1>4. ASSUME NEW h \in Handler, NEW k \in Stream, NEW i \in 1 .. Len(inbox[k]),
               NEW label, Begin(h, inbox[k][i], label), Deliverable(k, i),
               label = "card" \/ (k \in Sub /\ inbox[k][i].sub = k)
        PROVE  Apart' /\ Held'
    <2>1. PICK e : e = inbox[k][i]
      OBVIOUS
    <2>2. e \in Events /\ \A g \in Handler : ev[g] # e
      BY <1>0, <1>4, <2>1 DEF Deliverable, BillingTypeOK
    <2>3. /\ at'[h] = label /\ ev'[h] = e /\ inbox' = inbox
          /\ \A g \in Handler \ {h} : at'[g] = at[g] /\ ev'[g] = ev[g]
      BY <1>0, <1>4, <2>1 DEF Begin, Goto, stripe
    <2>4. Apart'
      <3>1. ASSUME NEW f \in Handler, NEW g \in Handler, f # g,
                   at'[f] # "idle", at'[g] # "idle"
            PROVE  ev'[f] # ev'[g]
        BY <2>2, <2>3, <3>1 DEF Apart
      <3> QED
        BY <3>1 DEF Apart
    <2>5. label # "card" => Occurs(inbox'[e.sub], e)
      BY <1>4, <2>1, <2>3 DEF Occurs
    <2>6. Held'
      <3>1. ASSUME NEW g \in Handler, at'[g] \notin {"idle", "card"}
            PROVE  Occurs(inbox'[ev'[g].sub], ev'[g])
        <4>1. CASE g = h
          BY <2>3, <2>5, <3>1, <4>1
        <4>2. CASE g # h
          BY <2>3, <3>1, <4>2 DEF Held
        <4> QED
          BY <4>1, <4>2
      <3> QED
        BY <3>1 DEF Held, Occurs
    <2> QED
      BY <2>4, <2>6
  <1>5. ASSUME NEW h \in Handler, NEW s \in Sub, NEW i \in 1 .. Len(inbox[s]),
               HandleSubscriptionUpdate(h, s, i) \/ HandleSubscriptionDeleted(h, s, i)
        PROVE  Apart' /\ Held'
    <2>1. Deliverable(s, i) /\ \E label : Begin(h, inbox[s][i], label)
      BY <1>5 DEF HandleSubscriptionUpdate, HandleSubscriptionDeleted
    <2>2. inbox[s][i].sub = s /\ s \in Stream
      BY DEF WebhookInv, StreamsTold, TellsOf, Stream
    <2> QED
      BY <1>4, <2>1, <2>2
  <1>6. ASSUME NEW h \in Handler, HandlePaymentMethod(h) PROVE Apart' /\ Held'
    <2>1. /\ Begin(h, inbox[Customer][1], "card") /\ Deliverable(Customer, 1)
          /\ 1 \in 1 .. Len(inbox[Customer]) /\ Customer \in Stream
      BY <1>6 DEF HandlePaymentMethod, Deliverable, Stream
    <2> QED
      BY <1>4, <2>1
  <1>7. ASSUME NEW h \in Handler, NEW s \in Sub, NEW i \in 1 .. Len(inbox[s]),
               IgnoreSubscriptionDeleted(h, s, i)
        PROVE  Apart' /\ Held'
    <2>1. UNCHANGED <<at, ev>>
      BY <1>7 DEF IgnoreSubscriptionDeleted, handler
    <2>2. \A g \in Handler : at[g] \notin {"idle", "card"} =>
              \/ ~Occurs(inbox[ev[g].sub], ev[g])
              \/ Occurs(inbox'[ev[g].sub], ev[g])
      BY <1>0, <1>7, IgnoreKeeps
    <2> QED
      BY <2>1, <2>2, ApartKept
  <1>8. ASSUME NEW h \in Handler,
               WriteCard(h) \/ MarkPending(h) \/ FinishUpdate(h) \/ FinishDelete(h)
        PROVE  Apart' /\ Held'
    <2>1. at[h] # "idle" /\ Acknowledge(h)
      BY <1>8 DEF WriteCard, MarkPending, FinishUpdate, FinishDelete
    <2>2. /\ at'[h] = "idle"
          /\ \A g \in Handler \ {h} : at'[g] = at[g] /\ ev'[g] = ev[g]
      BY <1>0, <2>1 DEF Acknowledge, Goto
    <2>3. \A g \in Handler \ {h} : at[g] \notin {"idle", "card"} =>
              \/ ~Occurs(inbox[ev[g].sub], ev[g])
              \/ Occurs(inbox'[ev[g].sub], ev[g])
      BY <1>0, <2>1, AcknowledgeKeeps DEF Apart
    <2> QED
      BY <2>2, <2>3, ApartKept
  <1>9. ASSUME NEW h \in Handler,
               \/ SetStandby(h) \/ WriteUpdated(h) \/ WriteDeleted(h)
               \/ ListDuplicates(h) \/ Fail(h)
        PROVE  Apart' /\ Held'
    <2>1. /\ inbox' = inbox
          /\ \/ at'[h] = "idle"
             \/ at[h] \notin {"idle", "card"} /\ ev'[h] = ev[h]
          /\ \A g \in Handler \ {h} : at'[g] = at[g] /\ ev'[g] = ev[g]
      BY <1>0, <1>9 DEF SetStandby, WriteUpdated, WriteDeleted, ListDuplicates, Fail, Goto,
                        stripe
    <2> QED
      BY <2>1, ApartKept
  <1>10. ASSUME NEW h \in Handler, NEW s \in Sub, CancelDuplicate(h, s) \/ CreateFree(h, s)
         PROVE  Apart' /\ Held'
    <2>1. PICK e : Change(s, e) /\ Tells(s, e)
      BY <1>10, CallTells DEF Told
    <2>2. /\ at[h] \notin {"idle", "card"} /\ ev' = ev
          /\ \A g \in Handler \ {h} : at'[g] = at[g]
      BY <1>0, <1>10 DEF CancelDuplicate, CreateFree, Goto
    <2> QED
      BY <1>0, <2>1, <2>2, TellsKeeps, ApartKept
  <1> QED
    BY <1>2, <1>3, <1>5, <1>6, <1>7, <1>8, <1>9, <1>10 DEF Next, Handle

-----------------------------------------------------------------------------
(* One subscription, for any number of handlers and every fault *)

LEMMA DoomsKept ==
    ASSUME WebhookInv, NEW y \in Sub, NEW s \in Sub, Dooms(y, s),
           \A x : Cancels(x) /\ Awaits(x, s) /\ Occurs(inbox[y], x) =>
               Occurs(inbox'[y], x),
           \A x : Cancels(x) /\ Twice(inbox[y], x) =>
               Occurs(inbox'[y], x) /\ (Twice(inbox'[y], x) \/ Awaits(x, s)'),
           \A h \in Handler : at'[h] = "cancel" /\ ev'[h].sub = y /\ s \notin old'[h] =>
               at[h] = "cancel" /\ ev[h] = ev'[h] /\ s \notin old[h]
    PROVE  Dooms(y, s)'
  <1>1. PICK j \in 1 .. Len(inbox[y]) :
            /\ Cancels(inbox[y][j])
            /\ Awaits(inbox[y][j], s) \/ Twice(inbox[y], inbox[y][j])
    BY DEF Dooms
  <1>2. PICK e : e = inbox[y][j] /\ Cancels(e) /\ (Awaits(e, s) \/ Twice(inbox[y], e))
    BY <1>1
  <1>3. e.sub = y /\ Occurs(inbox[y], e)
    BY <1>2 DEF WebhookInv, StreamsTold, TellsOf, Occurs
  <1>4. Awaits(e, s) => Awaits(e, s)'
    BY <1>3 DEF Awaits
  <1>5. Occurs(inbox'[y], e) /\ (Twice(inbox'[y], e) \/ Awaits(e, s)')
    BY <1>2, <1>3, <1>4
  <1>6. PICK i \in 1 .. Len(inbox'[y]) : inbox'[y][i] = e
    BY <1>5 DEF Occurs
  <1> QED
    BY <1>2, <1>5, <1>6 DEF Dooms, Awaits, Twice

(* A step that changes no subscription. *)
LEMMA HandlingKept ==
    ASSUME SubscriptionInv, subs' = subs,
           \A y \in Sub : \A x : Cancels(x) /\ Occurs(inbox[y], x) =>
               Occurs(inbox'[y], x) \/ \A s \in Sub : ~Awaits(x, s),
           \A y \in Sub : \A x : Cancels(x) /\ Twice(inbox[y], x) =>
               /\ Occurs(inbox'[y], x)
               /\ Twice(inbox'[y], x) \/ \A s \in Sub : Awaits(x, s)',
           \A y, s \in Sub : IsLive(s) /\ s # y =>
               \A h \in Handler :
                   at'[h] = "cancel" /\ ev'[h].sub = y /\ s \notin old'[h] =>
                       at[h] = "cancel" /\ ev[h] = ev'[h] /\ s \notin old[h],
           \/ \E s \in Sub : IsKept(s)
           \/ \A s \in Sub : Unreplaced(s) => Unreplaced(s)'
    PROVE  DuplicatesGo' /\ OneComes'
  <1>0. WebhookInv /\ DuplicatesGo /\ OneComes
    BY DEF SubscriptionInv
  <1>1. \A s \in Sub : (IsLive(s)' <=> IsLive(s)) /\ (IsKept(s)' <=> IsKept(s))
    BY DEF IsLive, IsKept
  <1>2. ASSUME NEW y \in Sub, NEW s \in Sub, IsLive(s), s # y, Dooms(y, s)
        PROVE  Dooms(y, s)'
    BY <1>0, <1>2, DoomsKept
  <1>3. DuplicatesGo'
    BY <1>0, <1>1, <1>2 DEF DuplicatesGo
  <1>4. OneComes'
    BY <1>0, <1>1 DEF OneComes
  <1> QED
    BY <1>3, <1>4

(* A subscription changes, ends or is made. *)
LEMMA TellingKept ==
    ASSUME SubscriptionInv, NEW s \in Sub, NEW e, Change(s, e), Tells(s, e),
           \A h \in Handler : at'[h] = "cancel" =>
               /\ at[h] = "cancel" /\ ev'[h] = ev[h]
               /\ \A x \in old[h] \ old'[h] : x = s /\ e.data.status = "canceled",
           \A h \in Handler : at'[h] = "created" =>
               /\ ev'[h] = ev[h]
               /\ at[h] = "created" \/ e.data.status = "live"
    PROVE  DuplicatesGo' /\ OneComes'
  <1>0. WebhookInv /\ Held /\ DuplicatesGo /\ OneComes /\ BillingTypeOK /\ e \in SubEvents
    BY DEF SubscriptionInv, WebhookInv, Change
  <1>1. /\ subs'[s] = e.data
        /\ \A x \in Sub \ {s} : subs'[x] = subs[x]
    BY <1>0, TellsIs
  <1>2. /\ \A y \in Sub : \A x : Occurs(inbox[y], x) => Occurs(inbox'[y], x)
        /\ \A y \in Sub : \A x : Twice(inbox[y], x) => Twice(inbox'[y], x)
        /\ Occurs(inbox'[s], e)
        /\ Occurs(inbox[s], e) => Twice(inbox'[s], e)
    BY <1>0, TellsKeeps
  <1>3. \A y \in Sub : \A x : Twice(inbox[y], x) => Occurs(inbox[y], x)
    BY DEF Twice, Occurs
  <1>4. ASSUME NEW y \in Sub, NEW x \in Sub, IsLive(x)', Dooms(y, x)
        PROVE  Dooms(y, x)'
    <2>1. ~(x = s /\ e.data.status = "canceled")
      BY <1>1, <1>4 DEF IsLive
    <2>2. \A h \in Handler : at'[h] = "cancel" /\ ev'[h].sub = y /\ x \notin old'[h] =>
              at[h] = "cancel" /\ ev[h] = ev'[h] /\ x \notin old[h]
      BY <2>1
    <2> QED
      BY <1>0, <1>2, <1>3, <1>4, <2>2, DoomsKept
  <1>5. ASSUME NEW x \in Sub, Cancels(e)
        PROVE  Dooms(s, x)'
    <2>1. e.sub = s
      BY DEF Change
    <2>2. Awaits(e, x)' \/ Twice(inbox'[s], e)
      <3>1. ASSUME NEW h \in Handler, at'[h] = "cancel", ev'[h] = e
            PROVE  Twice(inbox'[s], e)
        <4>1. at[h] = "cancel" /\ ev[h] = e
          BY <3>1
        <4>2. Occurs(inbox[s], e)
          BY <1>0, <2>1, <4>1 DEF Held
        <4> QED
          BY <1>2, <4>2
      <3> QED
        BY <3>1 DEF Awaits
    <2>3. PICK i \in 1 .. Len(inbox'[s]) : inbox'[s][i] = e
      BY <1>2 DEF Occurs
    <2> QED
      BY <1>5, <2>2, <2>3 DEF Dooms, Awaits, Twice
  <1>6. DuplicatesGo'
    <2>1. ASSUME NEW x \in Sub, NEW z \in Sub, x # z, IsLive(x)', IsLive(z)'
          PROVE  Dooms(x, z)' \/ Dooms(z, x)'
      <3>1. CASE ~IsLive(s) /\ (x = s \/ z = s)
        <4>1. e.data.status = "live"
          BY <1>1, <2>1, <3>1 DEF IsLive
        <4>2. Cancels(e)
          BY <3>1, <4>1 DEF Change, Cancels, IsLive
        <4> QED
          BY <1>5, <3>1, <4>2
      <3>2. CASE ~(~IsLive(s) /\ (x = s \/ z = s))
        <4>1. IsLive(x) /\ IsLive(z)
          BY <1>1, <2>1, <3>2 DEF IsLive
        <4>2. Dooms(x, z) \/ Dooms(z, x)
          BY <1>0, <2>1, <4>1 DEF DuplicatesGo
        <4> QED
          BY <1>4, <2>1, <4>2
      <3> QED
        BY <3>1, <3>2
    <2> QED
      BY <2>1 DEF DuplicatesGo
  <1>7. OneComes'
    <2>1. ASSUME \A x \in Sub : ~IsKept(x)'
          PROVE  Unreplaced(s)'
      <3>1. e.data.status \notin {"live", "unpaid"}
        BY <1>1, <2>1 DEF IsKept
      <3>2. e.kind = "deleted" /\ IsKept(s)
        BY <3>1 DEF Change
      <3>3. \A h \in Handler :
                at'[h] = "created" => ~(ev'[h].sub = s /\ ev'[h].kind = "deleted")
        <4>1. ASSUME NEW h \in Handler, at'[h] = "created"
              PROVE  ~(ev[h].sub = s /\ ev[h].kind = "deleted")
          <5>1. at[h] = "created"
            BY <3>1, <4>1
          <5>2. Handles(h)
            BY <1>0 DEF WebhookInv, HandlersFit
          <5> QED
            BY <3>2, <5>1, <5>2 DEF Handles, TellsOf, IsKept
        <4> QED
          BY <4>1
      <3> QED
        BY <1>2, <3>2, <3>3 DEF Unreplaced, Occurs
    <2> QED
      BY <2>1 DEF OneComes
  <1> QED
    BY <1>6, <1>7

(* A handler moves within its webhook, or starts one, or gives it up. *)
LEMMA LocalKept ==
    ASSUME SubscriptionInv, NEW h \in Handler, subs' = subs,
           \A y \in Sub : inbox'[y] = inbox[y],
           \A g \in Handler \ {h} :
               at'[g] = at[g] /\ ev'[g] = ev[g] /\ old'[g] = old[g],
           at'[h] # "created",
           at'[h] = "cancel" => old'[h] = OtherLive(ev'[h].sub)
    PROVE  DuplicatesGo' /\ OneComes'
  <1>1. \A y, s \in Sub : IsLive(s) /\ s # y =>
            \A g \in Handler :
                at'[g] = "cancel" /\ ev'[g].sub = y /\ s \notin old'[g] =>
                    at[g] = "cancel" /\ ev[g] = ev'[g] /\ s \notin old[g]
    BY DEF OtherLive
  <1>2. \A s \in Sub : Unreplaced(s) => Unreplaced(s)'
    BY DEF Unreplaced
  <1>3. \A y \in Sub : \A x : Twice(inbox[y], x) => Occurs(inbox[y], x)
    BY DEF Twice, Occurs
  <1> QED
    BY <1>1, <1>2, <1>3, HandlingKept

(* A handler is done with its webhook. *)
LEMMA AcknowledgeKept ==
    ASSUME SubscriptionInv, NEW h \in Handler, Acknowledge(h),
           UNCHANGED <<subs, old>>,
           \/ at[h] \in {"card", "pending", "created"}
           \/ at[h] = "cancel" /\ old[h] = {}
    PROVE  DuplicatesGo' /\ OneComes'
  <1>0. WebhookInv /\ Apart /\ BillingTypeOK /\ Handles(h)
    BY DEF SubscriptionInv, WebhookInv, HandlersFit
  <1>1. at' = [at EXCEPT ![h] = "idle"] /\ ev' = [ev EXCEPT ![h] = NoEvent]
    BY <1>0, AcknowledgeIs
  <1>2. /\ at'[h] = "idle"
        /\ \A g \in Handler \ {h} : at'[g] = at[g] /\ ev'[g] = ev[g] /\ old'[g] = old[g]
    BY <1>0, <1>1 DEF BillingTypeOK
  <1>3. /\ \A y \in Sub : \A x : Occurs(inbox[y], x) =>
               Occurs(inbox'[y], x) \/ (at[h] # "card" /\ x = ev[h])
        /\ \A y \in Sub : \A x : Twice(inbox[y], x) =>
               /\ Occurs(inbox'[y], x)
               /\ Twice(inbox'[y], x) \/ (at[h] # "card" /\ x = ev[h])
    BY <1>0, AcknowledgeKeeps
  <1>4. \A s \in Sub : at[h] # "card" => ~(Cancels(ev[h]) /\ Awaits(ev[h], s))
    BY <1>0 DEF Handles, Cancels, Awaits, Endings
  <1>5. ASSUME NEW e, e = ev[h]
        PROVE  \A s \in Sub : Awaits(e, s)'
    <2>1. \A g \in Handler : at'[g] = "cancel" => ev'[g] # e
      BY <1>0, <1>2, <1>5 DEF Apart
    <2> QED
      BY <2>1 DEF Awaits
  <1>6. ASSUME NEW s \in Sub, Unreplaced(s)
        PROVE  Unreplaced(s)'
    <2>1. PICK j \in 1 .. Len(inbox[s]) : inbox[s][j].kind = "deleted"
      BY <1>6 DEF Unreplaced
    <2>2. inbox[s][j].sub = s /\ Occurs(inbox[s], inbox[s][j])
      BY <1>0 DEF WebhookInv, StreamsTold, TellsOf, Occurs
    <2>3. ~(at[h] # "card" /\ inbox[s][j] = ev[h])
      BY <1>0, <1>6, <2>1, <2>2 DEF Unreplaced, Handles, Cancels
    <2>4. PICK i \in 1 .. Len(inbox'[s]) : inbox'[s][i] = inbox[s][j]
      BY <1>3, <2>2, <2>3 DEF Occurs
    <2> QED
      BY <1>2, <1>6, <2>1, <2>4 DEF Unreplaced
  <1>7. \A y, s \in Sub : IsLive(s) /\ s # y =>
            \A g \in Handler :
                at'[g] = "cancel" /\ ev'[g].sub = y /\ s \notin old'[g] =>
                    at[g] = "cancel" /\ ev[g] = ev'[g] /\ s \notin old[g]
    BY <1>2
  <1>8. \A y \in Sub : \A x : Cancels(x) /\ Occurs(inbox[y], x) =>
            Occurs(inbox'[y], x) \/ \A s \in Sub : ~Awaits(x, s)
    BY <1>3, <1>4
  <1>9. \A y \in Sub : \A x : Cancels(x) /\ Twice(inbox[y], x) =>
            /\ Occurs(inbox'[y], x)
            /\ Twice(inbox'[y], x) \/ \A s \in Sub : Awaits(x, s)'
    <2>1. ASSUME NEW y \in Sub, NEW x, Cancels(x), Twice(inbox[y], x)
          PROVE  /\ Occurs(inbox'[y], x)
                 /\ Twice(inbox'[y], x) \/ \A s \in Sub : Awaits(x, s)'
      <3>1. CASE x = ev[h]
        BY <1>3, <1>5, <2>1, <3>1
      <3>2. CASE x # ev[h]
        BY <1>3, <2>1, <3>2
      <3> QED
        BY <3>1, <3>2
    <2> QED
      BY <2>1
  <1> QED
    BY <1>6, <1>7, <1>8, <1>9, HandlingKept

LEMMA StripeKept ==
    ASSUME SubscriptionInv, Owner \/ Stripe
    PROVE  DuplicatesGo' /\ OneComes'
  <1>0. WebhookInv /\ BillingTypeOK
    BY DEF SubscriptionInv, WebhookInv
  <1>1. UNCHANGED <<server, handler>>
    BY DEF Owner, Stripe, Checkout, ChangePlan, ScheduleDowngrade, CompleteCheckout,
           Renew, FallBehind, Expire, ChangeCard
  <1>2. UNCHANGED <<at, ev, old>>
    BY <1>1 DEF handler
  <1>3. ASSUME subs' = subs, \A y \in Sub : inbox'[y] = inbox[y]
        PROVE  DuplicatesGo' /\ OneComes'
    <2>1. \A s \in Sub : Unreplaced(s) => Unreplaced(s)'
      BY <1>2, <1>3 DEF Unreplaced
    <2>2. \A y \in Sub : \A x : Twice(inbox[y], x) => Occurs(inbox[y], x)
      BY DEF Twice, Occurs
    <2> QED
      BY <1>2, <1>3, <2>1, <2>2, HandlingKept
  <1>4. ASSUME NEW p \in Plan, NEW trial \in BOOLEAN, Checkout(p, trial)
        PROVE  DuplicatesGo' /\ OneComes'
    BY <1>3, <1>4 DEF Checkout
  <1>5. CASE ChangeCard
    <2>1. subs' = subs /\ \A y \in Sub : inbox'[y] = inbox[y]
      BY <1>0, <1>5, SubAssumption DEF ChangeCard, BillingTypeOK, Stream
    <2> QED
      BY <1>3, <2>1
  <1>6. ASSUME NEW s \in Sub, NEW e, Change(s, e), Tells(s, e)
        PROVE  DuplicatesGo' /\ OneComes'
    BY <1>2, <1>6, TellingKept
  <1>7. ASSUME NEW s \in Sub,
               \/ (\E p \in Plan : ChangePlan(s, p)) \/ ScheduleDowngrade(s)
               \/ Renew(s) \/ FallBehind(s) \/ Expire(s)
        PROVE  DuplicatesGo' /\ OneComes'
    BY <1>0, <1>6, <1>7, OwnChangeTells DEF Told
  <1>8. ASSUME NEW s \in Sub, NEW c \in checkouts, CompleteCheckout(c, s)
        PROVE  DuplicatesGo' /\ OneComes'
    BY <1>0, <1>6, <1>8, CheckoutTells
  <1> QED
    BY <1>4, <1>5, <1>7, <1>8 DEF Owner, Stripe

LEMMA HandlerStepKept ==
    ASSUME SubscriptionInv, NEW h \in Handler, Handle(h) \/ Fail(h)
    PROVE  DuplicatesGo' /\ OneComes'
  <1>0. WebhookInv /\ BillingTypeOK
    BY DEF SubscriptionInv, WebhookInv
  <1>1. /\ at \in [Handler -> Labels] /\ ev \in [Handler -> Events \cup {NoEvent}]
        /\ old \in [Handler -> SUBSET Sub]
    BY <1>0 DEF BillingTypeOK
  <1>2. ASSUME NEW e, NEW label \in {"pending", "daemons", "card"}, Begin(h, e, label)
        PROVE  DuplicatesGo' /\ OneComes'
    <2>1. /\ at'[h] = label
          /\ \A g \in Handler \ {h} : at'[g] = at[g] /\ ev'[g] = ev[g] /\ old'[g] = old[g]
          /\ subs' = subs /\ inbox' = inbox
      BY <1>1, <1>2 DEF Begin, Goto, stripe
    <2> QED
      BY <2>1, LocalKept
  <1>3. ASSUME NEW s \in Sub, NEW i \in 1 .. Len(inbox[s]),
               \/ HandleSubscriptionUpdate(h, s, i) \/ HandleSubscriptionDeleted(h, s, i)
        PROVE  DuplicatesGo' /\ OneComes'
    <2>1. PICK label \in {"pending", "daemons"} : Begin(h, inbox[s][i], label)
      BY <1>3 DEF HandleSubscriptionUpdate, HandleSubscriptionDeleted
    <2> QED
      BY <1>2, <2>1
  <1>4. CASE HandlePaymentMethod(h)
    BY <1>2, <1>4 DEF HandlePaymentMethod
  <1>5. ASSUME NEW s \in Sub, NEW i \in 1 .. Len(inbox[s]),
               IgnoreSubscriptionDeleted(h, s, i)
        PROVE  DuplicatesGo' /\ OneComes'
    <2>1. OtherLive(s) # {} /\ UNCHANGED <<subs, at, ev, old>>
      BY <1>5 DEF IgnoreSubscriptionDeleted, SkipAutoFree, handler
    <2>2. PICK e : /\ e.kind \in Endings
                   /\ \A y \in Sub : \A x : Occurs(inbox[y], x) =>
                          Occurs(inbox'[y], x) \/ x = e
                   /\ \A y \in Sub : \A x : Twice(inbox[y], x) =>
                          Occurs(inbox'[y], x) /\ (Twice(inbox'[y], x) \/ x = e)
      BY <1>0, <1>5, IgnoreKeeps
    <2>3. ~Cancels(e)
      BY <2>2 DEF Cancels, Endings
    <2>4. \E x \in Sub : IsKept(x)
      BY <2>1 DEF OtherLive, IsLive, IsKept
    <2> QED
      BY <2>1, <2>2, <2>3, <2>4, HandlingKept
  <1>6. CASE WriteCard(h) \/ MarkPending(h) \/ FinishUpdate(h) \/ FinishDelete(h)
    <2>1. Acknowledge(h) /\ UNCHANGED <<subs, old>>
      BY <1>6 DEF WriteCard, MarkPending, FinishUpdate, FinishDelete
    <2>2. \/ at[h] \in {"card", "pending", "created"}
          \/ at[h] = "cancel" /\ old[h] = {}
      BY <1>6 DEF WriteCard, MarkPending, FinishUpdate, FinishDelete
    <2> QED
      BY <2>1, <2>2, AcknowledgeKept
  <1>7. CASE SetStandby(h) \/ WriteUpdated(h) \/ WriteDeleted(h)
    <2>1. /\ subs' = subs /\ inbox' = inbox /\ ev' = ev /\ old' = old
          /\ \E label \in {"write", "list", "create"} : Goto(h, label)
      BY <1>7 DEF SetStandby, WriteUpdated, WriteDeleted, stripe
    <2>2. /\ at'[h] \in {"write", "list", "create"}
          /\ \A g \in Handler \ {h} : at'[g] = at[g]
      BY <1>1, <2>1 DEF Goto
    <2> QED
      BY <2>1, <2>2, LocalKept
  <1>8. CASE ListDuplicates(h)
    <2>1. /\ subs' = subs /\ inbox' = inbox /\ ev' = ev
          /\ old' = [old EXCEPT ![h] = OtherLive(ev[h].sub)]
          /\ at' = [at EXCEPT ![h] = "cancel"]
      BY <1>8 DEF ListDuplicates, stripe, Goto
    <2>2. /\ at'[h] = "cancel" /\ old'[h] = OtherLive(ev'[h].sub)
          /\ \A g \in Handler \ {h} : at'[g] = at[g] /\ old'[g] = old[g]
      BY <1>1, <2>1
    <2> QED
      BY <2>1, <2>2, LocalKept
  <1>9. CASE Fail(h)
    <2>1. /\ at'[h] = "idle" /\ subs' = subs /\ inbox' = inbox
          /\ \A g \in Handler \ {h} : at'[g] = at[g] /\ ev'[g] = ev[g] /\ old'[g] = old[g]
      BY <1>1, <1>9 DEF Fail, Goto, stripe
    <2> QED
      BY <2>1, LocalKept
  <1>10. ASSUME NEW s \in Sub, CancelDuplicate(h, s)
         PROVE  DuplicatesGo' /\ OneComes'
    <2>1. PICK e : Change(s, e) /\ Tells(s, e) /\ e.kind = "deleted"
      BY <1>0, <1>10, CallTells DEF Told
    <2>2. e.data.status = "canceled"
      BY <2>1 DEF Change
    <2>3. UNCHANGED <<at, ev>> /\ old' = [old EXCEPT ![h] = old[h] \ {s}]
      BY <1>10 DEF CancelDuplicate
    <2>4. \A g \in Handler : \A x \in old[g] \ old'[g] : x = s
      BY <1>1, <2>3
    <2> QED
      BY <2>1, <2>2, <2>3, <2>4, TellingKept
  <1>11. ASSUME NEW s \in Sub, CreateFree(h, s)
         PROVE  DuplicatesGo' /\ OneComes'
    <2>1. PICK e : Change(s, e) /\ Tells(s, e)
      BY <1>0, <1>11, CallTells DEF Told
    <2>2. /\ UNCHANGED <<ev, old>> /\ at' = [at EXCEPT ![h] = "created"]
          /\ subs[s].status = "none"
      BY <1>11 DEF CreateFree, Goto
    <2>3. e.data.status = "live"
      BY <2>1, <2>2 DEF Change, IsKept
    <2>4. \A g \in Handler : at'[g] = "cancel" => at[g] = "cancel"
      BY <1>1, <2>2
    <2> QED
      BY <2>1, <2>2, <2>3, <2>4, TellingKept
  <1> QED
    BY <1>3, <1>4, <1>5, <1>6, <1>7, <1>8, <1>9, <1>10, <1>11 DEF Handle

LEMMA SubscriptionStep ==
    ASSUME SubscriptionInv, [Next]_vars
    PROVE  SubscriptionInv'
  <1>1. WebhookInv' /\ Apart' /\ Held'
    BY WebhookStep, ApartStep DEF SubscriptionInv
  <1>2. CASE UNCHANGED vars
    <2>1. UNCHANGED <<subs, inbox, at, ev, old>>
      BY <1>2 DEF vars, stripe, handler
    <2>2. \A s \in Sub : Unreplaced(s) => Unreplaced(s)'
      BY <2>1 DEF Unreplaced
    <2>3. \A y \in Sub : \A x : Twice(inbox[y], x) => Occurs(inbox[y], x)
      BY DEF Twice, Occurs
    <2>4. DuplicatesGo' /\ OneComes'
      BY <2>1, <2>2, <2>3, HandlingKept
    <2> QED
      BY <1>1, <2>4 DEF SubscriptionInv
  <1>3. CASE Next
    <2>1. DuplicatesGo' /\ OneComes'
      BY <1>3, StripeKept, HandlerStepKept DEF Next
    <2> QED
      BY <1>1, <2>1 DEF SubscriptionInv
  <1> QED
    BY <1>2, <1>3

LEMMA SubscriptionInit == Init => SubscriptionInv
  <1> SUFFICES ASSUME Init PROVE SubscriptionInv
    OBVIOUS
  <1>1. /\ \A s \in Sub : subs[s].status = "none"
        /\ \A h \in Handler : at[h] = "idle"
    BY DEF Init
  <1>2. DuplicatesGo /\ OneComes /\ Apart /\ Held
    BY <1>1 DEF DuplicatesGo, OneComes, IsLive, Apart, Held
  <1> QED
    BY <1>2, WebhookInit DEF SubscriptionInv

(* Every step of Stripe, the routes and the webhook handlers keeps the     *)
(* invariant behind OneSubscription.                                       *)
THEOREM SubscriptionInvariance == Spec => []SubscriptionInv
  <1>1. SubscriptionInv /\ [Next]_vars => SubscriptionInv'
    BY SubscriptionStep
  <1> QED
    BY <1>1, SubscriptionInit, PTL DEF Spec

(***************************************************************************)
(* When every webhook has been handled a customer has at most one active   *)
(* or trialing subscription and is not left without any, however many      *)
(* webhooks were handled at once and whichever failed, were repeated or    *)
(* came out of order, and however subscriptions fell behind and were paid  *)
(* late: of two live subscriptions one has a webhook to come that cancels  *)
(* the other, and the deletion of the last one is not acknowledged before  *)
(* a Free one takes its place.                                             *)
(***************************************************************************)
THEOREM NoDoubleSubscription == Spec => []OneSubscription
  <1>1. ASSUME SubscriptionInv PROVE OneSubscription
    <2> SUFFICES ASSUME Quiet, \E s \in Sub : subs[s].status # "none"
                 PROVE  /\ \A s, x \in Sub : IsLive(s) /\ IsLive(x) => s = x
                        /\ \E s \in Sub : IsKept(s)
      BY DEF OneSubscription
    <2>1. \A s \in Sub : Len(inbox[s]) = 0
      BY DEF Quiet, Stream
    <2>2. \A y, s \in Sub : ~Dooms(y, s) /\ ~Unreplaced(s)
      BY <2>1 DEF Dooms, Unreplaced
    <2> QED
      BY <1>1, <2>2 DEF SubscriptionInv, OneComes, DuplicatesGo
  <1>2. SubscriptionInv => OneSubscription
    BY <1>1
  <1> QED
    BY <1>2, SubscriptionInvariance, PTL
=============================================================================
