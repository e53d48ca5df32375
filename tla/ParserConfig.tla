---------------------------- MODULE ParserConfig ----------------------------
(* parser.go with registry.go and groups.go: several goroutines build parsers  *)
(* with New and call Groups.getFilteredGroups through Eval.  The registry's    *)
(* Groups instance is memory that New writes and getFilteredGroups reads in a  *)
(* loop, so both are several steps.  The instances are the heap: the first     *)
(* ones belong to the registries callers made, New appends Default()'s.        *)
EXTENDS Integers, Sequences, SequencesExt

CONSTANTS
  Parsers,     \* the parsers that get built, each once
  Callers,     \* goroutines
  Nil,         \* Go's nil: no group data, no attribute
  GroupIds,    \* group ids and whatever else an allow list may hold
  Attributes,  \* what a group may hold under the key asked for
  GroupMaps,   \* the group data callers pass: an attribute, or Nil, per id
  Supplied,    \* parser -> the instances of the registries passed to its New
  CallerData,  \* the GroupData of the callers' instances, as they made them
  AllowLists,  \* the first arguments of getFilteredGroups
  Limits       \* the third ones, after toInt

NoGroups == 0      \* a registry without a *Groups under "Groups"
DefaultLimit == 5  \* getFilteredGroups without a third argument

Bounds == Limits \cup {DefaultLimit}

ASSUME ConfigAssumption ==
  /\ GroupMaps \subseteq [GroupIds -> Attributes \cup {Nil}]
  /\ Nil \notin GroupMaps
  /\ CallerData \in Seq(GroupMaps \cup {Nil})
  /\ Supplied \in [Parsers -> SUBSET (0..Len(CallerData))]
  /\ AllowLists \subseteq Seq(GroupIds)
  /\ Limits \subseteq Int

VARIABLES
  parsers,  \* Parser values: where their New is, groupData, registry's Groups
  heap,     \* GroupData of every Groups instance made so far
  calls     \* what each goroutine is doing

vars == <<parsers, heap, calls>>

Data == GroupMaps \cup {Nil}

(* Indexing a nil map is allowed and finds nothing.                            *)
Lookup(data, id) == IF data = Nil THEN Nil ELSE data[id]

Unbuilt == [built |-> "no", data |-> Nil, groups |-> NoGroups]
Idle == [op |-> "Idle"]

ParserType == [built : {"no", "configured", "yes"}, data : Data, groups : 0..Len(heap)]

(* What a call has returned is the business of Isolated below.                 *)
CallTyped(call) ==
  \/ call = Idle
  \/ call \in [op : {"New"}, p : Parsers]
  \/ call \in [op : {"Filter"}, p : Parsers, groups : 1..Len(heap), list : AllowLists,
                limit : Bounds, res : Seq(Attributes \cup {Nil})]
  \/ call.op \in {"Returned", "Panicked"} /\ call.p \in Parsers

TypeOK ==
  /\ heap \in Seq(Data)
  /\ parsers \in [Parsers -> ParserType]
  /\ DOMAIN calls = Callers
  /\ \A c \in Callers : CallTyped(calls[c])

Init ==
  /\ parsers = [p \in Parsers |-> Unbuilt]
  /\ heap = CallerData
  /\ calls = [c \in Callers |-> Idle]

-----------------------------------------------------------------------------
Becomes(c, call) == calls' = [calls EXCEPT ![c] = call]

(* Slips the properties must notice: a Default() that hands every caller one   *)
(* package-level registry, and a New without the test for nil.                 *)
ConfigureOneDefault(c, p) ==
  /\ calls[c] = Idle
  /\ parsers[p].built = "no"
  /\ heap' = Append(heap, Nil)
  /\ \E data \in Data, groups \in Supplied[p] \cup {Len(CallerData) + 1} :
       parsers' = [parsers EXCEPT ![p] =
                     [built |-> "configured", data |-> data, groups |-> groups]]
  /\ Becomes(c, [op |-> "New", p |-> p])

InjectUnchecked(c) ==
  /\ calls[c].op = "New"
  /\ LET p == calls[c].p
         me == parsers[p]
     IN /\ heap' = IF me.groups # NoGroups
                     THEN [heap EXCEPT ![me.groups] = me.data] ELSE heap
        /\ parsers' = [parsers EXCEPT ![p].built = "yes"]
  /\ Becomes(c, Idle)

(* New up to its last option.  Default() runs first whatever the options are.  *)
Configure(c, p) ==
  /\ calls[c] = Idle
  /\ parsers[p].built = "no"
  /\ heap' = Append(heap, Nil)
  /\ \E data \in Data, groups \in Supplied[p] \cup {Len(heap) + 1} :
       parsers' = [parsers EXCEPT ![p] =
                     [built |-> "configured", data |-> data, groups |-> groups]]
  /\ Becomes(c, [op |-> "New", p |-> p])

(* The last lines of New, which write to the instance, and its return.         *)
Inject(c) ==
  /\ calls[c].op = "New"
  /\ LET p == calls[c].p
         me == parsers[p]
     IN /\ heap' = IF me.groups # NoGroups /\ me.data # Nil
                     THEN [heap EXCEPT ![me.groups] = me.data] ELSE heap
        /\ parsers' = [parsers EXCEPT ![p].built = "yes"]
  /\ Becomes(c, Idle)

(* Eval of Groups.getFilteredGroups(list, key, limit): newEvalContext copies   *)
(* the registry and evalClassCall finds the instance in it; the arguments are  *)
(* looked at before the loop starts.                                           *)
Call(c, p) ==
  /\ calls[c] = Idle
  /\ parsers[p].built = "yes"
  /\ parsers[p].groups # NoGroups
  /\ \E list \in AllowLists, limit \in Bounds :
       Becomes(c, [op |-> "Filter", p |-> p, groups |-> parsers[p].groups,
                   list |-> list, limit |-> limit, res |-> <<>>])
  /\ UNCHANGED <<parsers, heap>>

(* There is no such class, or the number or the type of an argument is wrong:  *)
(* an error, and nothing is read.                                              *)
CallRefused(c, p) ==
  /\ calls[c] = Idle
  /\ parsers[p].built = "yes"
  /\ UNCHANGED vars

Filtering(c) == calls[c].op = "Filter"

(* One round of the loop over the allow list: g.GroupData is read again.       *)
ReadGroup(c) ==
  /\ Filtering(c)
  /\ LET call == calls[c]
         k == Len(call.res) + 1
     IN /\ k <= Len(call.list)
        /\ Becomes(c, [call EXCEPT !.res =
             Append(@, Lookup(heap[call.groups], call.list[k]))])
  /\ UNCHANGED <<parsers, heap>>

(* res[:limit] panics for a negative limit; else nil results are dropped.      *)
Truncate(s, limit) == IF Len(s) > limit THEN SubSeq(s, 1, limit) ELSE s
NotNil(v) == v # Nil
Answer(s, limit) == SelectSeq(Truncate(s, limit), NotNil)

Return(c) ==
  /\ Filtering(c)
  /\ LET call == calls[c]
     IN /\ Len(call.res) = Len(call.list)
        /\ Becomes(c, IF call.limit < 0 THEN [call EXCEPT !.op = "Panicked"]
                      ELSE [call EXCEPT !.op = "Returned",
                                        !.res = Answer(@, call.limit)])
  /\ UNCHANGED <<parsers, heap>>

(* The goroutine has used the result, or recovered, and goes on.               *)
Resume(c) ==
  /\ calls[c].op \in {"Returned", "Panicked"}
  /\ Becomes(c, Idle)
  /\ UNCHANGED <<parsers, heap>>

Next ==
  \E c \in Callers :
    \/ \E p \in Parsers : Configure(c, p) \/ Call(c, p) \/ CallRefused(c, p)
    \/ Inject(c) \/ ReadGroup(c) \/ Return(c) \/ Resume(c)

Spec == Init /\ [][Next]_vars

-----------------------------------------------------------------------------
(* Properties.                                                                 *)

(* Callers give no *Groups to more than one parser.                            *)
Disjoint ==
  \A p, q \in Parsers : p # q => Supplied[p] \cap Supplied[q] \subseteq {NoGroups}

(* What an instance was made with, and what parser p was configured with.      *)
Original(g) == IF g \in 1..Len(CallerData) THEN CallerData[g] ELSE Nil
Own(p) ==
  IF parsers[p].data # Nil THEN parsers[p].data ELSE Original(parsers[p].groups)

AnswersOwn(call) ==
  call.op = "Returned" =>
    LET found == [k \in 1..Len(call.list) |-> Lookup(Own(call.p), call.list[k])]
    IN call.res = Answer(found, call.limit)

(* getFilteredGroups answers from the group data its own parser was configured *)
(* with, from nothing else, and from one version of it, whatever other         *)
(* goroutines build or evaluate meanwhile ("nothing about one caller's         *)
(* configuration should leak into another's").                                 *)
Isolated == \A c \in Callers : AnswersOwn(calls[c])

(* No step of New, for this parser or another, changes what a parser already   *)
(* handed to its caller sees.                                                  *)
SettledOnceBuilt ==
  [][\A p \in Parsers : parsers[p].built = "yes" =>
       /\ parsers'[p] = parsers[p]
       /\ parsers[p].groups # NoGroups =>
            heap'[parsers[p].groups] = heap[parsers[p].groups]]_vars

(* "Never panic for expected failures": a bad limit is an error, not a panic.  *)
NeverPanics == \A c \in Callers : calls[c].op # "Panicked"

(* An instance nobody has been built with is as it was made, and one that a    *)
(* parser was built with holds that parser's data.                             *)
HeapOwned ==
  \A g \in 1..Len(heap) :
    \/ \E p \in Parsers :
         parsers[p].built = "yes" /\ parsers[p].groups = g /\ heap[g] = Own(p)
    \/ /\ \A p \in Parsers : ~(parsers[p].built = "yes" /\ parsers[p].groups = g)
       /\ heap[g] = Original(g)

(* No instance belongs to two parsers, and a new one to none of the callers'.  *)
OneOwner ==
  /\ Len(heap) >= Len(CallerData)
  /\ \A p \in Parsers : parsers[p].built # "no" =>
       parsers[p].groups \in Supplied[p] \cup (Len(CallerData) + 1)..Len(heap)
  /\ \A p, q \in Parsers :
       p # q /\ parsers[p].built # "no" /\ parsers[q].built # "no"
         /\ parsers[p].groups = parsers[q].groups => parsers[p].groups = NoGroups

(* A call holds the instance of a built parser and has read that parser's data *)
(* so far.                                                                     *)
CallFits(call) ==
  /\ call.op = "New" => parsers[call.p].built # "no"
  /\ call.op \in {"Filter", "Returned", "Panicked"} =>
       parsers[call.p].built = "yes" /\ call.groups = parsers[call.p].groups
  /\ call.op = "Filter" =>
       /\ Len(call.res) <= Len(call.list)
       /\ \A k \in 1..Len(call.res) : call.res[k] = Lookup(Own(call.p), call.list[k])

CallsFit == \A c \in Callers : CallFits(calls[c])

(* The inductive invariant behind Isolated.                                    *)
IInv == TypeOK /\ OneOwner /\ HeapOwned /\ CallsFit /\ Isolated
=============================================================================
