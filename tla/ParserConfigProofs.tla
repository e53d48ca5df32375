------------------------- MODULE ParserConfigProofs -------------------------
(* Isolation of parsers whose registries are not shared, for any number of     *)
(* parsers, goroutines and groups.                                             *)
EXTENDS ParserConfig, TLAPS

(* Group data is read back as an attribute or Nil, also through a nil map.     *)
LEMMA LookupType ==
  ASSUME NEW data \in Data, NEW id \in GroupIds
  PROVE  Lookup(data, id) \in Attributes \cup {Nil}
BY ConfigAssumption DEF Data, Lookup

(* Before any call every instance is as its maker left it.                     *)
LEMMA InitInv == Init => IInv
<1> SUFFICES ASSUME Init PROVE IInv
  OBVIOUS
<1> USE ConfigAssumption DEF Init
<1>1. TypeOK
  BY DEF TypeOK, ParserType, CallTyped, Unbuilt, Idle, NoGroups, Data
<1>2. OneOwner
  BY DEF OneOwner, Unbuilt
<1>3. HeapOwned
  BY DEF HeapOwned, Unbuilt, Original
<1>4. CallsFit
  BY DEF CallsFit, CallFits, Idle
<1>5. Isolated
  BY DEF Isolated, AnswersOwn, Idle
<1>6. QED
  BY <1>1, <1>2, <1>3, <1>4, <1>5 DEF IInv

(* New allocates: the new instance has no owner yet, and the registry a caller *)
(* passes belongs to no other parser.                                          *)
LEMMA ConfigureInv ==
  ASSUME Disjoint, IInv, NEW c \in Callers, NEW p \in Parsers, Configure(c, p)
  PROVE  IInv'
<1> USE ConfigAssumption
<1>1. PICK data \in Data, groups \in Supplied[p] \cup {Len(heap) + 1} :
        parsers' = [parsers EXCEPT ![p] =
                      [built |-> "configured", data |-> data, groups |-> groups]]
  BY DEF Configure
<1>2. /\ calls[c] = Idle
      /\ parsers[p].built = "no"
      /\ heap' = Append(heap, Nil)
      /\ calls' = [calls EXCEPT ![c] = [op |-> "New", p |-> p]]
  BY DEF Configure, Becomes
<1>3. TypeOK /\ OneOwner /\ HeapOwned /\ CallsFit /\ Isolated
  BY DEF IInv
<1>4. /\ heap \in Seq(Data) /\ heap' \in Seq(Data)
      /\ Len(heap') = Len(heap) + 1
      /\ \A g \in 1..Len(heap) : heap'[g] = heap[g]
      /\ heap'[Len(heap) + 1] = Nil
  BY <1>2, <1>3 DEF TypeOK, Data
<1>5. Len(CallerData) \in Nat /\ Len(heap) \in Nat /\ Len(heap) >= Len(CallerData)
  BY <1>3, <1>4 DEF OneOwner
<1>6. groups \in 0..Len(heap')
  <2>1. Supplied[p] \subseteq 0..Len(CallerData)
    OBVIOUS
  <2>2. QED
    BY <1>1, <1>4, <1>5, <2>1
<1>7. parsers' \in [Parsers -> ParserType']
  BY <1>1, <1>3, <1>4, <1>5, <1>6 DEF TypeOK, ParserType
<1>8. \A q \in Parsers : q # p => parsers'[q] = parsers[q]
  BY <1>1, <1>3 DEF TypeOK
<1>9. parsers'[p] = [built |-> "configured", data |-> data, groups |-> groups]
  BY <1>1, <1>3 DEF TypeOK
<1>10. \A d \in Callers : d # c => calls'[d] = calls[d]
  BY <1>2, <1>3 DEF TypeOK
<1>11. calls'[c] = [op |-> "New", p |-> p] /\ DOMAIN calls' = Callers
  BY <1>2, <1>3 DEF TypeOK
<1>12. TypeOK'
  <2>1. ASSUME NEW d \in Callers PROVE CallTyped(calls[d])'
    <3>1. CASE d = c
      BY <3>1, <1>11 DEF CallTyped
    <3>2. CASE d # c
      <4>1. CallTyped(calls[d])
        BY <1>3 DEF TypeOK
      <4>2. 1..Len(heap) \subseteq 1..Len(heap')
        BY <1>4, <1>5
      <4>3. QED
        BY <4>1, <4>2, <1>10, <3>2 DEF CallTyped
    <3>3. QED
      BY <3>1, <3>2
  <2>2. QED
    BY <2>1, <1>4, <1>7, <1>11 DEF TypeOK
<1>13. OneOwner'
  <2>1. \A q \in Parsers : (parsers'[q].built # "no" =>
          parsers'[q].groups \in Supplied[q] \cup (Len(CallerData) + 1)..Len(heap'))
    <3>1. ASSUME NEW q \in Parsers, parsers'[q].built # "no"
          PROVE  parsers'[q].groups \in Supplied[q] \cup (Len(CallerData) + 1)..Len(heap')
      <4>1. CASE q = p
        BY <4>1, <1>4, <1>5, <1>9
      <4>2. CASE q # p
        <5>1. parsers[q].groups \in Supplied[q] \cup (Len(CallerData) + 1)..Len(heap)
          BY <3>1, <4>2, <1>3, <1>8 DEF OneOwner
        <5>2. QED
          BY <5>1, <4>2, <1>4, <1>5, <1>8
      <4>3. QED
        BY <4>1, <4>2
    <3>2. QED
      BY <3>1
  <2>2. ASSUME NEW q \in Parsers, q # p, parsers[q].built # "no", parsers[q].groups = groups
        PROVE  groups = NoGroups
    <3>1. parsers[q].groups \in Supplied[q] \cup (Len(CallerData) + 1)..Len(heap)
      BY <2>2, <1>3 DEF OneOwner
    <3>2. Supplied[p] \subseteq 0..Len(CallerData) /\ Supplied[q] \subseteq 0..Len(CallerData)
      OBVIOUS
    <3>3. groups # Len(heap) + 1
      BY <3>1, <3>2, <2>2, <1>5
    <3>4. groups \in Supplied[p] /\ groups \in Supplied[q]
      BY <3>1, <3>2, <3>3, <2>2, <1>5
    <3>5. QED
      BY <3>4, <2>2 DEF Disjoint
  <2>3. \A q, r \in Parsers :
          q # r /\ parsers'[q].built # "no" /\ parsers'[r].built # "no"
            /\ parsers'[q].groups = parsers'[r].groups => parsers'[q].groups = NoGroups
    BY <2>2, <1>3, <1>8, <1>9 DEF OneOwner
  <2>4. QED
    BY <2>1, <2>3, <1>4, <1>5 DEF OneOwner
<1>14. \A q \in Parsers : parsers[q].built # "no" => parsers'[q] = parsers[q]
  BY <1>2, <1>8
<1>15. HeapOwned'
  <2>1. ASSUME NEW g \in 1..Len(heap')
        PROVE  \/ \E q \in Parsers :
                    parsers'[q].built = "yes" /\ parsers'[q].groups = g /\ heap'[g] = Own(q)'
               \/ /\ \A q \in Parsers : ~(parsers'[q].built = "yes" /\ parsers'[q].groups = g)
                  /\ heap'[g] = Original(g)
    <3>1. CASE g = Len(heap) + 1
      <4>1. heap'[g] = Original(g)
        BY <3>1, <1>4, <1>5 DEF Original
      <4>2. ASSUME NEW q \in Parsers, parsers'[q].built = "yes" PROVE parsers'[q].groups # g
        <5>1. q # p
          BY <4>2, <1>9
        <5>2. parsers'[q] = parsers[q] /\ parsers[q].groups \in 0..Len(heap)
          BY <5>1, <1>8, <1>3 DEF TypeOK, ParserType
        <5>3. QED
          BY <5>2, <3>1, <1>5
      <4>3. QED
        BY <4>1, <4>2
    <3>2. CASE g \in 1..Len(heap)
      <4>1. heap'[g] = heap[g]
        BY <3>2, <1>4
      <4>2. \A q \in Parsers : parsers[q].built = "yes" => Own(q)' = Own(q)
        BY <1>14 DEF Own
      <4>3. CASE \E q \in Parsers :
                   parsers[q].built = "yes" /\ parsers[q].groups = g /\ heap[g] = Own(q)
        BY <4>1, <4>2, <4>3, <1>14
      <4>4. CASE /\ \A q \in Parsers : ~(parsers[q].built = "yes" /\ parsers[q].groups = g)
                 /\ heap[g] = Original(g)
        BY <4>1, <4>4, <1>8, <1>9
      <4>5. QED
        BY <3>2, <4>3, <4>4, <1>3 DEF HeapOwned
    <3>3. QED
      BY <3>1, <3>2, <1>4, <1>5
  <2>2. QED
    BY <2>1 DEF HeapOwned, Original
<1>16. CallsFit'
  <2>1. ASSUME NEW d \in Callers PROVE CallFits(calls[d])'
    <3>1. CASE d = c
      BY <3>1, <1>9, <1>11 DEF CallFits
    <3>2. CASE d # c
      <4>1. CallFits(calls[d]) /\ CallTyped(calls[d]) /\ calls'[d] = calls[d]
        BY <3>2, <1>3, <1>10 DEF CallsFit, TypeOK
      <4>2. CASE calls[d].op = "New"
        BY <4>1, <4>2, <1>14 DEF CallFits, CallTyped, Idle
      <4>3. CASE calls[d].op \in {"Filter", "Returned", "Panicked"}
        <5>1. calls[d].p \in Parsers /\ parsers[calls[d].p].built = "yes"
          BY <4>1, <4>3 DEF CallFits, CallTyped, Idle
        <5>2. Own(calls[d].p)' = Own(calls'[d].p)
          BY <4>1, <5>1, <1>14 DEF Own
        <5>3. QED
          BY <4>1, <4>3, <5>1, <1>14 DEF CallFits, Own
      <4>4. CASE calls[d].op \notin {"New", "Filter", "Returned", "Panicked"}
        BY <4>1, <4>4 DEF CallFits
      <4>5. QED
        BY <4>2, <4>3, <4>4
    <3>3. QED
      BY <3>1, <3>2
  <2>2. QED
    BY <2>1 DEF CallsFit
<1>17. Isolated'
  <2>1. ASSUME NEW d \in Callers PROVE AnswersOwn(calls[d])'
    <3>1. CASE d = c
      BY <3>1, <1>11 DEF AnswersOwn
    <3>2. CASE d # c
      <4>1. AnswersOwn(calls[d]) /\ CallFits(calls[d]) /\ CallTyped(calls[d])
              /\ calls'[d] = calls[d]
        BY <3>2, <1>3, <1>10 DEF Isolated, CallsFit, TypeOK
      <4>2. CASE calls[d].op = "Returned"
        <5>1. calls[d].p \in Parsers /\ parsers[calls[d].p].built = "yes"
          BY <4>1, <4>2 DEF CallFits, CallTyped, Idle
        <5>2. QED
          BY <4>1, <4>2, <5>1, <1>14 DEF AnswersOwn, Own
      <4>3. QED
        BY <4>1, <4>2 DEF AnswersOwn
    <3>3. QED
      BY <3>1, <3>2
  <2>2. QED
    BY <2>1 DEF Isolated
<1>18. QED
  BY <1>12, <1>13, <1>15, <1>16, <1>17 DEF IInv

(* A step that only moves one goroutine on needs to be looked at there alone.  *)
LEMMA CallChange ==
  ASSUME IInv, NEW c \in Callers, NEW x, UNCHANGED <<parsers, heap>>, Becomes(c, x),
         CallTyped(x), CallFits(x), AnswersOwn(x)
  PROVE  IInv'
<1>1. TypeOK /\ OneOwner /\ HeapOwned /\ CallsFit /\ Isolated
  BY DEF IInv
<1>2. /\ DOMAIN calls' = Callers
      /\ calls'[c] = x
      /\ \A d \in Callers : d # c => calls'[d] = calls[d]
  BY <1>1 DEF TypeOK, Becomes
<1>3. ASSUME NEW d \in Callers
      PROVE  CallTyped(calls[d])' /\ CallFits(calls[d])' /\ AnswersOwn(calls[d])'
  <2>1. CASE d = c
    BY <2>1, <1>2 DEF CallTyped, CallFits, AnswersOwn, Own
  <2>2. CASE d # c
    <3>1. CallTyped(calls[d]) /\ CallFits(calls[d]) /\ AnswersOwn(calls[d])
      BY <1>1 DEF TypeOK, CallsFit, Isolated
    <3>2. QED
      BY SMTT(30), <2>2, <3>1, <1>2 DEF CallTyped, CallFits, AnswersOwn, Own
  <2>3. QED
    BY <2>1, <2>2
<1>4. TypeOK' /\ CallsFit' /\ Isolated'
  BY <1>1, <1>2, <1>3 DEF TypeOK, ParserType, CallsFit, Isolated
<1>5. OneOwner' /\ HeapOwned'
  BY <1>1 DEF OneOwner, HeapOwned, Own
<1>6. QED
  BY <1>4, <1>5 DEF IInv

(* The write at the end of New: it hits the parser's own instance, which no    *)
(* built parser and therefore no running call uses.                            *)
LEMMA InjectInv ==
  ASSUME IInv, NEW c \in Callers, Inject(c)
  PROVE  IInv'
<1> USE ConfigAssumption
<1> DEFINE p == calls[c].p
           g == parsers[p].groups
           data == parsers[p].data
<1>1. TypeOK /\ OneOwner /\ HeapOwned /\ CallsFit /\ Isolated
  BY DEF IInv
<1>2. /\ calls[c].op = "New"
      /\ heap' = IF g # NoGroups /\ data # Nil THEN [heap EXCEPT ![g] = data] ELSE heap
      /\ parsers' = [parsers EXCEPT ![p].built = "yes"]
      /\ calls' = [calls EXCEPT ![c] = Idle]
  BY DEF Inject, Becomes
<1>3. p \in Parsers /\ parsers[p].built # "no"
  BY <1>1, <1>2 DEF TypeOK, CallTyped, CallsFit, CallFits, Idle
<1>4. g \in 0..Len(heap) /\ data \in Data
  BY <1>1, <1>3 DEF TypeOK, ParserType
<1>5. /\ heap' \in Seq(Data) /\ Len(heap') = Len(heap) /\ Len(heap) \in Nat
      /\ \A h \in 1..Len(heap) : h # g => heap'[h] = heap[h]
      /\ g # NoGroups /\ data # Nil => heap'[g] = data
      /\ ~(g # NoGroups /\ data # Nil) => heap' = heap
  BY <1>1, <1>2, <1>4 DEF TypeOK, NoGroups
<1>6. /\ parsers' \in [Parsers -> ParserType']
      /\ parsers'[p].built = "yes" /\ parsers'[p].groups = g /\ parsers'[p].data = data
      /\ \A q \in Parsers : q # p => parsers'[q] = parsers[q]
  BY <1>1, <1>2, <1>3, <1>5 DEF TypeOK, ParserType
<1>7. \A q \in Parsers : parsers'[q].data = parsers[q].data
                       /\ parsers'[q].groups = parsers[q].groups
                       /\ (parsers'[q].built # "no" <=> parsers[q].built # "no")
                       /\ (parsers[q].built = "yes" => parsers'[q].built = "yes")
  BY <1>3, <1>6
<1>8. \A q \in Parsers : Own(q)' = Own(q)
  BY <1>7 DEF Own
<1>9. /\ DOMAIN calls' = Callers /\ calls'[c] = Idle
      /\ \A d \in Callers : d # c => calls'[d] = calls[d]
  BY <1>1, <1>2 DEF TypeOK
<1>10. OneOwner'
  BY <1>1, <1>5, <1>7 DEF OneOwner
<1>11. HeapOwned'
  <2>1. ASSUME NEW h \in 1..Len(heap)
        PROVE  \/ \E q \in Parsers :
                    parsers'[q].built = "yes" /\ parsers'[q].groups = h /\ heap'[h] = Own(q)
               \/ /\ \A q \in Parsers : ~(parsers'[q].built = "yes" /\ parsers'[q].groups = h)
                  /\ heap'[h] = Original(h)
    <3>1. CASE h = g
      <4>1. CASE data # Nil
        <5>1. heap'[g] = Own(p)
          BY <3>1, <4>1, <1>5 DEF Own, NoGroups
        <5>2. QED
          BY <5>1, <3>1, <1>3, <1>6
      <4>2. CASE data = Nil
        <5>1. heap' = heap /\ Own(p) = Original(g)
          BY <4>2, <1>5 DEF Own
        <5>2. CASE parsers[p].built = "yes"
          <6>1. \E q \in Parsers :
                  parsers[q].built = "yes" /\ parsers[q].groups = h /\ heap[h] = Own(q)
            BY <5>2, <3>1, <1>1, <1>3 DEF HeapOwned
          <6>2. QED
            BY <6>1, <5>1, <1>7
        <5>3. CASE parsers[p].built # "yes"
          <6>1. \A q \in Parsers : q # p /\ parsers[q].built = "yes" => parsers[q].groups # h
            BY <3>1, <1>1, <1>3 DEF OneOwner, NoGroups
          <6>2. heap[h] = Original(h)
            BY <5>3, <6>1, <1>1 DEF HeapOwned
          <6>3. QED
            BY <6>2, <5>1, <3>1, <1>3, <1>6
        <5>4. QED
          BY <5>2, <5>3
      <4>3. QED
        BY <4>1, <4>2
    <3>2. CASE h # g
      <4>1. heap'[h] = heap[h]
        BY <3>2, <1>5
      <4>2. \A q \in Parsers : parsers[q].groups = h =>
              q # p /\ parsers'[q] = parsers[q]
        BY <3>2, <1>6
      <4>3. CASE \E q \in Parsers :
                   parsers[q].built = "yes" /\ parsers[q].groups = h /\ heap[h] = Own(q)
        BY <4>1, <4>2, <4>3
      <4>4. CASE /\ \A q \in Parsers : ~(parsers[q].built = "yes" /\ parsers[q].groups = h)
                 /\ heap[h] = Original(h)
        BY <4>1, <4>2, <4>4, <1>7
      <4>5. QED
        BY <4>3, <4>4, <1>1 DEF HeapOwned
    <3>3. QED
      BY <3>1, <3>2
  <2>2. QED
    BY <2>1, <1>5, <1>8 DEF HeapOwned, Original
<1>12. ASSUME NEW d \in Callers
       PROVE  CallTyped(calls[d])' /\ CallFits(calls[d])' /\ AnswersOwn(calls[d])'
  <2>1. CASE d = c
    BY <2>1, <1>9 DEF CallTyped, CallFits, AnswersOwn, Idle
  <2>2. CASE d # c
    <3>1. CallTyped(calls[d]) /\ CallFits(calls[d]) /\ AnswersOwn(calls[d])
            /\ calls'[d] = calls[d]
      BY <2>2, <1>1, <1>9 DEF TypeOK, CallsFit, Isolated
    <3>2. CallTyped(calls[d])'
      BY <3>1, <1>5 DEF CallTyped
    <3>3. CASE calls[d] = Idle
      <4>1. calls'[d].op = "Idle"
        BY <3>1, <3>3 DEF Idle
      <4>2. QED
        BY <4>1, <3>2 DEF CallFits, AnswersOwn
    <3>4. CASE calls[d] # Idle
      <4>1. calls[d].p \in Parsers
        BY <3>1, <3>4 DEF CallTyped
      <4>2. Own(calls[d].p)' = Own(calls[d].p)
        BY <4>1, <3>1, <1>7 DEF Own
      <4>3. CallFits(calls[d])'
        BY <3>1, <4>1, <4>2, <1>7 DEF CallFits
      <4>4. AnswersOwn(calls[d])'
        BY <3>1, <4>1, <4>2 DEF AnswersOwn
      <4>5. QED
        BY <3>2, <4>3, <4>4
    <3>5. QED
      BY <3>2, <3>3, <3>4
  <2>3. QED
    BY <2>1, <2>2
<1>13. TypeOK' /\ CallsFit' /\ Isolated'
  BY <1>5, <1>6, <1>9, <1>12 DEF TypeOK, CallsFit, Isolated
<1>14. QED
  BY <1>10, <1>11, <1>13 DEF IInv

(* The loop of getFilteredGroups and what surrounds it: the instance it reads  *)
(* is the parser's own, so every round finds the parser's own data.            *)
LEMMA EvalInv ==
  ASSUME IInv, NEW c \in Callers,
         \/ \E p \in Parsers : Call(c, p)
         \/ ReadGroup(c) \/ Return(c) \/ Resume(c)
  PROVE  IInv'
<1> USE ConfigAssumption
<1>1. TypeOK /\ OneOwner /\ HeapOwned /\ CallsFit /\ Isolated
  BY DEF IInv
<1>2. ASSUME NEW p \in Parsers, Call(c, p) PROVE IInv'
  <2>1. PICK list \in AllowLists, limit \in Bounds :
          Becomes(c, [op |-> "Filter", p |-> p, groups |-> parsers[p].groups,
                      list |-> list, limit |-> limit, res |-> <<>>])
    BY <1>2 DEF Call
  <2>2. parsers[p].groups \in 1..Len(heap)
    BY <1>1, <1>2 DEF Call, TypeOK, ParserType, NoGroups
  <2> DEFINE x == [op |-> "Filter", p |-> p, groups |-> parsers[p].groups,
                   list |-> list, limit |-> limit, res |-> <<>>]
  <2>3. CallTyped(x) /\ CallFits(x) /\ AnswersOwn(x)
    BY <2>2, <1>2 DEF CallTyped, CallFits, AnswersOwn, Call
  <2>4. QED
    BY <2>1, <2>3, <1>2, CallChange DEF Call
<1>3. ASSUME Filtering(c)
      PROVE  /\ calls[c] \in [op : {"Filter"}, p : Parsers, groups : 1..Len(heap),
                              list : AllowLists, limit : Bounds,
                              res : Seq(Attributes \cup {Nil})]
             /\ parsers[calls[c].p].built = "yes"
             /\ calls[c].groups = parsers[calls[c].p].groups
             /\ Len(calls[c].res) <= Len(calls[c].list)
             /\ \A k \in 1..Len(calls[c].res) :
                  calls[c].res[k] = Lookup(Own(calls[c].p), calls[c].list[k])
  BY <1>1, <1>3 DEF Filtering, TypeOK, CallTyped, CallsFit, CallFits, Idle
<1>4. ASSUME ReadGroup(c) PROVE IInv'
  <2> DEFINE call == calls[c]
             k == Len(call.res) + 1
             v == Lookup(heap[call.groups], call.list[k])
             x == [call EXCEPT !.res = Append(@, v)]
  <2>1. Filtering(c) /\ k <= Len(call.list) /\ Becomes(c, x) /\ UNCHANGED <<parsers, heap>>
    BY <1>4 DEF ReadGroup
  <2>2. heap[call.groups] = Own(call.p)
    <3>1. call.p \in Parsers /\ call.groups \in 1..Len(heap)
            /\ parsers[call.p].built = "yes" /\ parsers[call.p].groups = call.groups
      BY <2>1, <1>3
    <3>2. ASSUME NEW q \in Parsers, parsers[q].built = "yes", parsers[q].groups = call.groups
          PROVE  q = call.p
      BY <3>1, <3>2, <1>1 DEF OneOwner, NoGroups
    <3>3. QED
      BY <3>1, <3>2, <1>1 DEF HeapOwned
  <2>3. call.list \in Seq(GroupIds) /\ k \in 1..Len(call.list)
    BY <2>1, <1>3
  <2>4. v \in Attributes \cup {Nil} /\ v = Lookup(Own(call.p), call.list[k])
    <3>1. heap[call.groups] \in Data
      BY <2>1, <1>1, <1>3 DEF TypeOK
    <3>2. call.list[k] \in GroupIds
      BY <2>3
    <3>3. QED
      BY <3>1, <3>2, <2>2, LookupType
  <2>5. /\ x \in [op : {"Filter"}, p : Parsers, groups : 1..Len(heap), list : AllowLists,
                   limit : Bounds, res : Seq(Attributes \cup {Nil})]
        /\ x.op = "Filter" /\ x.p = call.p /\ x.groups = call.groups /\ x.list = call.list
        /\ x.res = Append(call.res, v)
    <3> DEFINE N == 1..Len(heap)
               R == Seq(Attributes \cup {Nil})
               res == Append(call.res, v)
    <3>1. call \in [op : {"Filter"}, p : Parsers, groups : N, list : AllowLists,
                    limit : Bounds, res : R]
      BY <2>1, <1>3
    <3>2. res \in R
      BY <2>4, <3>1
    <3>3. x = [call EXCEPT !.res = res]
      OBVIOUS
    <3> HIDE DEF N, R, res, x, call
    <3>4. x \in [op : {"Filter"}, p : Parsers, groups : N, list : AllowLists,
                 limit : Bounds, res : R]
          /\ x.op = "Filter" /\ x.p = call.p /\ x.groups = call.groups
          /\ x.list = call.list /\ x.res = res
      BY <3>1, <3>2, <3>3
    <3>5. QED
      BY <3>4 DEF N, R, res
  <2>6. CallTyped(x)
    BY <2>5 DEF CallTyped
  <2>7. Len(x.res) = k /\ \A l \in 1..k : x.res[l] = Lookup(Own(call.p), call.list[l])
    <3>1. call.res \in Seq(Attributes \cup {Nil})
      BY <2>1, <1>3
    <3>2. Len(x.res) = k /\ x.res[k] = v /\ \A l \in 1..Len(call.res) : x.res[l] = call.res[l]
      BY SMTT(30), <2>5, <3>1
    <3>3. \A l \in 1..Len(call.res) : call.res[l] = Lookup(Own(call.p), call.list[l])
      BY <2>1, <1>3
    <3>4. QED
      BY <2>4, <3>1, <3>2, <3>3
  <2>8. CallFits(x)
    BY <2>1, <2>3, <2>5, <2>7, <1>3 DEF CallFits
  <2>9. AnswersOwn(x)
    BY <2>5 DEF AnswersOwn
  <2>10. QED
    BY <2>1, <2>6, <2>8, <2>9, CallChange
<1>5. ASSUME Return(c) PROVE IInv'
  <2> DEFINE call == calls[c]
             panicked == [call EXCEPT !.op = "Panicked"]
             returned == [call EXCEPT !.op = "Returned", !.res = Answer(@, call.limit)]
  <2>1. Filtering(c) /\ Len(call.res) = Len(call.list) /\ UNCHANGED <<parsers, heap>>
        /\ (Becomes(c, panicked) \/ Becomes(c, returned))
    BY <1>5 DEF Return
  <2>2. CallTyped(panicked) /\ CallFits(panicked) /\ AnswersOwn(panicked)
    <3>1. panicked.op = "Panicked" /\ panicked.p = call.p /\ panicked.groups = call.groups
      BY <2>1, <1>3
    <3>2. QED
      BY <3>1, <2>1, <1>3 DEF CallTyped, CallFits, AnswersOwn
  <2>3. /\ returned.op = "Returned" /\ returned.p = call.p /\ returned.groups = call.groups
        /\ returned.list = call.list /\ returned.limit = call.limit
        /\ returned.res = Answer(call.res, call.limit)
    BY <2>1, <1>3
  <2>4. CallTyped(returned) /\ CallFits(returned)
    BY <2>1, <2>3, <1>3 DEF CallTyped, CallFits
  <2>5. call.res = [k \in 1..Len(call.list) |-> Lookup(Own(call.p), call.list[k])]
    <3>1. call.res \in Seq(Attributes \cup {Nil}) /\ Len(call.res) = Len(call.list)
      BY <2>1, <1>3
    <3>2. call.res \in [1..Len(call.list) -> Attributes \cup {Nil}]
      BY <3>1
    <3>3. \A k \in 1..Len(call.list) : call.res[k] = Lookup(Own(call.p), call.list[k])
      BY <2>1, <1>3
    <3>4. QED
      BY <3>2, <3>3
  <2>6. AnswersOwn(returned)
    BY <2>3, <2>5 DEF AnswersOwn
  <2>7. QED
    BY <2>1, <2>2, <2>4, <2>6, CallChange
<1>6. ASSUME Resume(c) PROVE IInv'
  <2>1. CallTyped(Idle) /\ CallFits(Idle) /\ AnswersOwn(Idle)
    BY DEF CallTyped, CallFits, AnswersOwn, Idle
  <2>2. QED
    BY <2>1, <1>6, CallChange DEF Resume
<1>7. QED
  BY <1>2, <1>4, <1>5, <1>6

(* The invariant is inductive when no registry is shared.                      *)
LEMMA NextInv ==
  ASSUME Disjoint, IInv, [Next]_vars
  PROVE  IInv'
<1>1. ASSUME NEW c \in Callers, NEW p \in Parsers, Configure(c, p) PROVE IInv'
  BY <1>1, ConfigureInv
<1>2. ASSUME NEW c \in Callers, Inject(c) PROVE IInv'
  BY <1>2, InjectInv
<1>3. ASSUME NEW c \in Callers,
             (\E p \in Parsers : Call(c, p)) \/ ReadGroup(c) \/ Return(c) \/ Resume(c)
      PROVE  IInv'
  BY <1>3, EvalInv
<1>4. ASSUME UNCHANGED vars PROVE IInv'
  BY <1>4 DEF vars, IInv, TypeOK, CallTyped, ParserType, OneOwner, HeapOwned, CallsFit,
              CallFits, Isolated, AnswersOwn, Own
<1>5. QED
  BY <1>1, <1>2, <1>3, <1>4 DEF Next, CallRefused

(* Without shared registries the heap stays divided among the parsers: every   *)
(* instance has one owner, holds what its owner injected, and no call is left  *)
(* with another's answer.                                                      *)
THEOREM Invariance ==
  ASSUME Disjoint
  PROVE  Spec => []IInv
<1>1. Init => IInv
  BY InitInv
<1>2. IInv /\ [Next]_vars => IInv'
  BY NextInv
<1>3. QED
  BY <1>1, <1>2, PTL DEF Spec

(* Without shared registries the configuration of every parser stays its own:  *)
(* each of its getFilteredGroups calls answers from the data it was built with.*)
THEOREM Isolation ==
  ASSUME Disjoint
  PROVE  Spec => []Isolated
<1>1. Init => IInv
  BY InitInv
<1>2. IInv /\ [Next]_vars => IInv'
  BY NextInv
<1>3. IInv => Isolated
  BY DEF IInv
<1>4. QED
  BY <1>1, <1>2, <1>3, PTL DEF Spec

(* Under the same condition a built parser's view of the heap never changes.   *)
THEOREM Settled ==
  ASSUME Disjoint
  PROVE  Spec => SettledOnceBuilt
<1> DEFINE Kept(p) ==
      parsers[p].built = "yes" =>
        /\ parsers'[p] = parsers[p]
        /\ parsers[p].groups # NoGroups =>
             heap'[parsers[p].groups] = heap[parsers[p].groups]
<1>1. Init => IInv
  BY InitInv
<1>2. IInv /\ [Next]_vars => IInv'
  BY NextInv
<1>3. IInv /\ IInv' /\ [Next]_vars => [\A p \in Parsers : Kept(p)]_vars
  <2> SUFFICES ASSUME IInv, IInv', Next, NEW p \in Parsers, parsers[p].built = "yes"
               PROVE  Kept(p)
    BY DEF vars
  <2>1. parsers'[p] = parsers[p]
    <3>1. ASSUME NEW c \in Callers, NEW q \in Parsers, Configure(c, q)
          PROVE  parsers'[p] = parsers[p]
      BY <3>1 DEF Configure, IInv, TypeOK
    <3>2. ASSUME NEW c \in Callers, Inject(c) PROVE parsers'[p] = parsers[p]
      BY <3>2 DEF Inject, IInv, TypeOK, ParserType
    <3>3. QED
      BY <3>1, <3>2 DEF Next, Call, CallRefused, ReadGroup, Return, Resume, vars
  <2>2. ASSUME parsers[p].groups # NoGroups
        PROVE  heap'[parsers[p].groups] = heap[parsers[p].groups]
    <3> DEFINE g == parsers[p].groups
    <3>1. Own(p)' = Own(p)
      BY <2>1 DEF Own
    <3>2. g \in 1..Len(heap) /\ g \in 1..Len(heap')
      BY <2>1, <2>2 DEF IInv, TypeOK, ParserType, NoGroups
    <3>3. heap[g] = Own(p)
      BY <3>2, <2>2 DEF IInv, HeapOwned, OneOwner
    <3>4. heap'[g] = Own(p)'
      BY <3>2, <2>1, <2>2 DEF IInv, HeapOwned, OneOwner
    <3>5. QED
      BY <3>1, <3>3, <3>4
  <2>3. QED
    BY <2>1, <2>2
<1>4. QED
  BY <1>1, <1>2, <1>3, PTL DEF Spec, SettledOnceBuilt
=============================================================================
