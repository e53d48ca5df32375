# A TLA+ model of okta-expression-parser

The library parses and evaluates expressions of the Okta Expression Language:
`Parse` turns text into an AST, `String` and `Format` turn an AST back into text,
`Eval` and its typed relatives compute the value of an AST for one user. This
directory models that program in TLA+: TLC checks the models on small
instances, TLAPS proves the most important results for every instance.
Line numbers refer to the Go files of this repository; `PROJECT.json` maps each
definition to the lines it stands for.

## 1. The system

```
 New(options) ──> Parser ──Parse──> tokenize ──tokens──> astParser ──> AST (Expr)
                    │                                                   │
                    │ profile, group ids, group data,                   ├─ String, Format ──> text
                    │ registry of classes, strict                       │
                    └────────── evalContext ──> Eval, EvalX, ParseX <───┘
                                                 │  evalClassCall
                                                 └─────────────> Arrays, Groups, String, Convert,
                                                                 Iso3166Convert, callers' classes
```

| Component | Code | State | Operations | Interacts with | What is hard | What makes it correct |
|---|---|---|---|---|---|---|
| Lexer | `lexer.go` | position, position of an inner loop, tokens | `tokenize` | gives the parser its tokens | look-ahead of two characters, escapes at the end of the text, keywords that are prefixes of names | longest match; tokens tile the text; one EOF token, at the end |
| Parser of expressions | `astparse.go` | position in the tokens, Go stack, nodes | `parseToAST` and fifteen `parse*` methods | builds the AST of `ast.go` | `isCond` passed through every method, checks made after the fact, comma lists that belong to the innermost branch, termination of nested loops | exactly the grammar's trees; no condition where an operand must stand; every node has one parent; it ends |
| AST and String | `ast.go` | none | `String` of every node, `maybeParen`, `quoteLiteral` | called by users and by `Format` | parentheses are gone from the AST and re-derived | what is written reads back as the same tree |
| Format | `print.go` | none | `Format`, `writeNode`, `unwrapCompound` | falls back to `String` below chains | two printers decide about parentheses | the same |
| Parser configuration | `parser.go`, `registry.go` | Parser values; the `*Groups` of the registry | `New`, its options, `Parse`, `Eval` | hands the registry to the evaluator | the registry may be shared between parsers and goroutines | parsers are independent of each other |
| Groups class | `groups.go` | `GroupData`, written by `New` | `getFilteredGroups` | reads what `New` writes | a loop over shared memory; truncation by a caller's number | a call answers from its own parser's data, in one version |
| Evaluator | `asteval.go`, `value.go` | Go stack, values held | `Eval` and one `eval*` method per node | calls classes, `values.go`, `regexp` | every operand is evaluated, errors in branches not taken included; tuples of tuples; strict mode | the value of short-circuit evaluation; no error lost, the first one reported; conditions are boolean |
| Values | `values/values.go` | none | `Truthy`, `MergeOperands`, `SpreadArgs`, `EqualOperands`, `CompareOperands`, `AddOperands` | used by evaluator and classes | mixed types, wrap-around | equality is reflexive, tuples stay flat |
| Typed accessors | `typed_parse.go` | none | `parseEval`, `EvalBool`, `ParseBool` and eight more | call `Parse`, hand its tree to `Eval` | each part indexes what the one before made; AND, OR and `?:` return an operand of any type | what is handed over fits, no text panics, errors point at their text, a rule is never `ErrUnexpectedType` |
| Arrays class | `expressionclasses/arrays.go` | none | nine methods | called by the evaluator | negative and out-of-range indices, numbers in strings | an element has two indices; membership agrees with String's; what remove leaves is all the rest |
| String and Convert classes | `string.go`, `convert.go`, `convert_helpers.go` | none | fifteen methods of String, two of Convert | called by the evaluator, with what other calls returned | slices with clamped bounds, overlapping and empty needles, two kinds of rounding, numerals no int holds | slices are Python's, searches agree, replacing can be undone, numbers survive |
| Iso3166Convert class | `iso3166convert.go` | a constant table | four lookups | called by the evaluator | the kind of an identifier is guessed from its length | a country keeps its identity |

All of it is sequential but for one place. The library starts no goroutines,
but a program that embeds it (a web service, say) calls `New` and `Eval` from
several, and the `*Groups` instance of a registry is memory they may share,
although no caller can see that `New` writes to it. Nothing is persisted, sent
or timed, so crashes, lost messages and timeouts do not occur.

## 2. The modules

| Module | Models | How state and actions correspond |
|---|---|---|
| `Syntax` | token types of `lexer.go`, node kinds of `ast.go` | A token is its type: its text is only ever copied into a node. Where text decides (a numeral `strconv` refuses) the type has a variant. |
| `LexSyntax`, `Lexer` | `lexer.go` | `mode` is the loop `tokenize` is in, `i` and `j` its variables. One action per case of the switch and per exit of an inner loop. |
| `LongestMatch` | abstract specification of `Lexer` | One step per token: the longest prefix that has the shape of a lexeme, no loops or look-ahead. |
| `AstParser` | `astparse.go` | `stack` is the Go call stack, `ctl` the method about to start or `Return`; `ret` and `cond` are a method's results; `nodes` is the arena of the nodes built. One action per return, look-ahead decision and failure of each method. |
| `Grammar` | reference for `AstParser` | The set of trees a nonterminal derives from a part `t[i..j]` of the token stream, a recursive function on nonterminals and parts; one production per level of precedence. |
| `ParsedTrees` | `AstParser` beside `Grammar` | The arena read as trees (`Unfolded`), and `MatchesGrammar`, which compares them with what the grammar derives. |
| `Printer` | `String`, `Format` | Recursive operators from a tree to the tokens written. |
| `Quoting` | `quoteLiteral`, `unquoteString` | Operators on the characters of a literal. |
| `ParserConfig` | `New`, `Default`, options, `getFilteredGroups` | `heap` holds the `GroupData` of each `*Groups`; `New` is two steps (reading options, writing the instance), `getFilteredGroups` one per element of its loop. Any number of goroutines. |
| `Values`, `Equality` | `values.go` | A value is its Go type and its contents. `EqualOperands` is recursive, so it has a module of its own (see section 5) and is a parameter of `Evaluator`. |
| `Conversions` | `convert.go`, `convert_helpers.go` | `toInt`, `pyStr`, `pySlice` and the Convert class. A text is a sequence of character codes, a float a number of quarters. |
| `Arrays`, `Strings`, `Countries` | `arrays.go`, `string.go`, `iso3166convert.go` | One operator per class from a method and its arguments to a value or an error, with the argument checks; the table of countries is a parameter. |
| `Registry` | `registry.go` | The classes of `Default()` by name. |
| `Classes` | nested calls of the default classes | `value` is what the calls so far have returned; `Nest` makes it the first argument of one more, or the first few if it is a tuple, `Fail` is a call that returns an error. |
| `Operations` | `asteval.go`, `value.go` | What one evaluation step computes from the values it is given: a path's lookup, the `isMemberOf` family, a comparison. |
| `Evaluator` | `asteval.go`, `typed_parse.go` | The tree is an arena as `AstParser` leaves it; `stack` is the Go call stack, a frame is an `eval*` call with the operand it is at and the values it holds. `evalLogical`'s loop is `Fold`, one round a step. `Require` is the last step of a typed accessor. |
| `Pipeline` | `parseEval` | The composition: `phase` says which of the instances `L` of `Lexer`, `P` of `AstParser` and `E` of `Evaluator` takes steps. `StartParsing` types the lexemes (`TokenType`), `StartEvaluating` gives nodes the text of their tokens (`Tree`); `Refuse` returns an error of the first two. |
| `LazyMeaning` | reference for `Evaluator` | The value of a node under short-circuit evaluation without strict mode, which nodes go wrong, and which of them comes first in the text. Its recursion is a function on the nodes in the order of the arena. |
| `LazyEvaluation` | `Evaluator` beside `LazyMeaning` | The properties that compare the two. |
| `MCAstParser`, `MCLexer`, `MCParserConfig`, `MCPrinter`, `MCEvaluator`, `MCRegistry`, `MCClasses`, `MCPipeline` | instances | Inputs, model values, and the properties that compare with a reference. `MCPrinter` composes parser, printer and grammar; `MCRegistry` holds what the classes take from Go's libraries, and two countries. |
| `SequenceLemmas`, `AstParserProofs`, `GrammarProofs`, `LexerProofs`, `ParserConfigProofs`, `EvaluatorProofs`, `PipelineProofs`, `ClassProofs` | proofs | Section 5. |

Definitions whose comment calls them a slip are single actions or operators
with one mistake in them; `PROJECT.json` uses them to show that each property
fails when the code it is about does.

The evaluator's trees are not only those of the parser. The node types are
exported, so a caller may build an empty list, a chain without operands, an
unknown `MemberOfKind` or a node of another type: they are in the model
(`CommaList` and `EmptyChain` on no operands, `Unsupported`, `Unanswerable`).

## 3. What each run shows

| Run | Instance | Properties |
|---|---|---|
| `ast_print` | every stream of at most 4 pieces (a piece is a few tokens) over literals, paths, ternaries, parentheses, arrays, commas, `==`, `+`, chains, NOT and `isMemberOfGroup`; of at most 5 logical ones; four expressions of 13 to 20 tokens and a nested chain, and every stream made from one of these by dropping or replacing one token | `WellTyped`: every node has children of the kinds its type promises. `CondTracksNode`: the `isCond` returned agrees with the node returned. `MatchesGrammar`: the parser accepts what the grammar derives and builds its only tree. `StringFaithful`, `FormatFaithful`: what is written of that tree reads back as the same tree, without the places named below. |
| `ast_lists` | every stream of at most 4 pieces over commas, ternaries, arrays, class calls, paths; the long expressions and their edits | `MatchesGrammar` again, the inductive invariant `IInv`, `HeldOnce` (no node is lost, shared or its own ancestor), `StackBound` (nesting grows with tokens consumed, 7 frames a token), `NoBacktracking` (one pass, in at most 22 steps a token), `Termination`. |
| `lex_texts` | every text of at most 5 characters over `" ' \ a` and space, or `n e - 1 .` and tab, and of at most 4 over `! = < > & \| ( @` and space | `Tiling`, `EofLast`; `LinearTime`: at most three steps a character; `ScansLongestMatch`: `Lexer` implements `LongestMatch`, which also says that a scan ends. `LiteralsReread`: the text of a literal, written by `quoteLiteral`, is one lexeme again, and reads as itself unless it holds a `"` or a backslash. |
| `config_own` | two parsers, two goroutines, two groups, two values for group data; registries are the default or the parser's own | `Isolated`: every answer comes from one version of the parser's own data. `SettledOnceBuilt`: nothing a built parser's calls see changes any more. |
| `config_shared` | both parsers are given one registry | `Isolated` fails: see section 4. |
| `config_limit` | limits -1, 0, 1 and 5 | `NeverPanics` fails: see section 4. |
| `print_string` | the pieces of `ast_print` | `StringIsValid` fails: see section 4. |
| `eval_logic` | chains, negations and ternaries, nested twice, over values, properties, a missing property and a failing call; strict and not; through `ParseBool` | `ValueIsLazy`: if there is a value it is the one short-circuit evaluation finds. `NoErrorLost`: the result is an error if and only if some node goes wrong, in a branch not taken too. `FirstErrorWins`: it is the first in the text. `RulesAreBool`: a rule put together from conditions is never `ErrUnexpectedType`. `IInv`: frames are a path from the root with one value per operand passed, booleans where a condition needs them; nothing but a chain without operands panics. |
| `eval_values` | comma lists, arrays, sums, comparisons, paths, calls of Arrays and the `isMemberOf` family over values of every type | `ValueIsLazy`; `TuplesFlat`: no tuple is in another, so arguments do not shift, as far down as `Depth` levels (5: the trees of the instance nest arrays and tuples less); `SumsRegroup`: `a + (b + c)` is `a + b + c` for ints that wrap, which the tree `String` and `Parse` make of it relies on; `Termination`. |
| `eval_equal` | the trees of `eval_values` | `EqualToItself` fails: see section 4. |
| `classes` | calls of the default classes nested to any depth, from sixteen values of every type, a map (a profile), a tuple and a list that holds both among them, with eighteen lists of other arguments, before which a tuple is spread; texts and lists of at most two members (and a country's) go on to the next call | `TypeOK`: no int the machine has not, and a tuple or a map (`String.toLowerCase(user)`, `Arrays.get({true ? 1,2 : 3}, 0)`) comes out only as it was given. `MembersAgree`: three methods agree on what a list holds, and `remove` leaves all other elements, in order. `SlicesLikePython`, `SearchesAgree`, `ReplaceUndone`, `IndexedTwice`, `NumbersKept`, `SameCountry`: what a rule that nests calls relies on, for every value other calls can return. |
| `parse_eval` | every text of at most 3 of 22 pieces, and 11 longer ones: every operator, both kinds of call, numerals out of range, escapes, missing properties, one strict user, `ParseBool` | `HandedOn`: what the lexer makes is what the parser takes for granted, and what the parser makes is what `Eval` takes for granted. `TextsNeverPanic`. `ErrorsPointAtTheirText`: the position an error quotes has the name, or the operator between the operands, that it is about. `Termination`: every expression is answered or refused. |

Why the bounds are enough. The parser decides on at most four tokens of
look-ahead and the kind of one node, so five logical pieces hold every pair of
nested levels of precedence; what needs more (a ternary inside a ternary inside
a call) is in the long expressions. The lexer looks two characters ahead; five
characters hold a token, its look-ahead and a neighbour. A tree of two levels
has every parent over every child in every position. Two parsers and two
goroutines are enough for one to write while the other is between two reads.
Ints have 11 bits (`IntBits`), so that the sums wrap and numerals of four
digits are out of range. The needle `aa` overlaps itself in the text `aaa a`;
slices take every bound from two below to two above the text. In `parse_eval` three pieces hold an operator with both
operands; the parts are checked on far more inputs by their own runs, and the
composition is proved for all of them.

The properties `ValueIsLazy` and `NoErrorLost` use the operators of `Values`
and `Arrays` in the reference too: they are about the order and the choice of
what is evaluated. What the classes' methods return is the subject of `classes`.
`SumsRegroup` is about ints: a sum of float64 values rounds, which a number of
quarters does not.

`StringFaithful` excludes what `print_string` is about and its relatives
(`LooseChild` of `MCPrinter`): a ternary in parentheses as a side of a
comparison or sum, as a ternary's condition or as an item that is not the last
of a list; a sum on the right of a sum (`1 + (2 + 3)` comes back as
`(1 + 2) + 3`); a whole float (`2.0` is written `2`). `FormatFaithful` also
excludes a ternary as an operand of a chain: `writeNode` does not call
`maybeParen`, so `1 AND (1 ? 1 : 1)` is formatted as another expression
(`print.go:36`).

Fairness. A parse, a scan and an evaluation are sequential calls that run in
the goroutine of their caller and wait for nothing, so each of them keeps
taking steps: `WF_vars(Next)` and no more. So does `Pipeline`, which is those
three calls one after the other. `ParserConfig` states no fairness:
it has no liveness property, because nothing in it waits. Nor does `Classes`:
how many calls a rule nests is its author's choice.

Deadlock. `AstParser` and `Lexer` stutter when the call has returned
(`Done`, `Returned`), so TLC would report a state with no step as a deadlock.
`Evaluator` and `Pipeline` stop when `Eval` has returned, `Classes` when a call
has failed, and their runs say so.

## 4. Where the code and its documents disagree

1. **Parsers share a registry** (`config_shared`). `New` writes the group data
   into the `*Groups` of the registry it was given (`parser.go:83`). Of two
   parsers built with one registry the later one changes the answers of the
   earlier, even half way through a call. `.github/copilot-instructions.md:32`
   says that parsers are independent.
2. **A negative limit panics** (`config_limit`). `getFilteredGroups` slices
   `res[:limit]` (`groups.go:77`); `.github/copilot-instructions.md:29` says
   that a bad argument is an ordinary error.
3. **String may not parse** (`print_string`). `maybeParen` is applied to the
   operands of chains and negations only, so `(1 ? 1 : 1) == 1` is written
   `1 ? 1 : 1==1`, which `Parse` refuses; `ast.go:19` promises valid text.
4. **`user == user` is false** (`eval_equal`). `EqualOperands` has no case for
   maps (`values.go:137`); `values.go:84` promises Python's `==`.

Noted on the way, without a run: a text with a `"` or a backslash in it does
not survive `String` and `Parse`, because `quoteLiteral` escapes them and
`unquoteString` only strips the quotes (`astparse.go:443`, the exception
`LiteralsReread` states); `pyStr` "mirrors Python's str() builtin"
(`convert_helpers.go:38`) but writes 2.0 as `2`; `README.md:205` calls `+` on different types
a parse-time error, it fails in `AddOperands` at evaluation (`asteval.go:331`);
`evalLogical` panics for a chain without operands, which only a caller can
build (`asteval.go:354`, action `EmptyChain`); `Format` and ternaries in chains
(section 3).

## 5. What is proved

`tlapm` checks every proof to its leaves. The assumptions are those the
modules state: `InputsAssumption`, `StreamsAssumption`, `KeywordsAssumption`,
`ConfigAssumption`, `ProgramsAssumption`, `ContextsAssumption`,
`IntBitsAssumption`, `DepthAssumption`, `UnfitAssumption`, `TableAssumption`,
`GivenAssumption`, `LengthAssumption`, `TextsAssumption`, `UsersAssumption`,
and TLC evaluates each of them in the runs. (`IntBitsAssumption` says that
`2 ^ IntBits > 0` because the provers know no powers.) Some theorems have a
hypothesis besides, named below.

* **Parser** (`AstParserProofs`): for every set of token streams that end in
  their only EOF token, `Spec => []WellTyped` and `Spec => []CondTracksNode`.
  Neither is inductive: that a comparison gets operands depends on what its
  method collected earlier and on which method runs below it. `IInv` adds
  `CallsOK` (adjacent frames are caller and callee), `FramesFit` (what a
  frame has collected has the kinds its method may hold) and `ReturnFits`
  (what is being returned suits who waits for it). The proof treats the actions
  by kind: those that enter a method, build a node, pass a result on, and end.
* **Parser, one pass** (`AstParserProofs`): `Spec => NoBacktracking`. That the
  parser needs no more than linear time is the variant `Work`: each token
  brings 22, a method that starts another one pays for it out of its `Duty`, its
  distance from `parseAtom`, and a return pays with the frame it leaves. Two steps
  neither consume a token nor return nor call (`TermDone`, `HopDone`); they are
  what a frame is `Owed`, once. Every step lowers `Work`, which is never negative,
  so no stream makes the parser run for ever; that it takes its next step at all
  is fairness, and `Termination` is left to TLC.
* **Parser, stack** (`AstParserProofs`): `Spec => []StackBound`. The bound is not inductive
  by counting frames alone, because a method that has consumed nothing calls
  the next one. Each method has a rank, its distance from `parseExpr` along the
  calls that consume nothing; the invariant is that a frame which began at
  token `at` is at most at depth `7 * (at - 1)` plus its rank. A call that
  consumes nothing raises depth and rank by one, one that
  starts at `parseExpr` again has consumed a token.
* **Parser, the tree** (`AstParserProofs`): `Spec => []HeldOnce`. The invariant
  `Held` does not count: the children of every node and of every waiting method
  are in rising order, no two nodes share one, what an outer method has
  collected is older than what an inner one has, and a node has a parent
  exactly if nobody waits with it. `Placed` says where nodes stand in the text:
  an operator behind its left operand and before its right one, a frame's
  collected operand before the token the frame began at; `PipelineProofs` needs it.
* **Parser and grammar** (`GrammarProofs`): `Spec => []MatchesGrammar`, for
  every set of token streams: the parser accepts a stream if and only if the
  grammar derives it, and builds the only tree the grammar derives. The proof
  does not follow the parser to its end. It says in every state which trees the
  parse may still end with, `Ends(T)`: a method about to start may return what
  its nonterminal derives from here, a node returned is that node; `Via` hands
  either through the waiting method (what it has collected, the operator or
  closer it looks for, the operands it insists on) to the next one, down
  to the outermost, for which every token must have been used. A loop is greedy:
  a method returns only where the next token is none it would go on with
  (`GoesOn`, `Left`), and what stops earlier does not count. `Complete` says that
  the trees of `Ends` are those the grammar derives. It holds when `parseToAST` is
  entered, where `Ends` is what the grammar derives from the whole stream, and
  no step changes `Ends` (`EndsKept`, a lemma per action), because a production
  read from left to right is what its method does: the lemmas from `ListFrom`
  to `PathDescends`, about the grammar alone. At the end the set is the one tree
  built, or empty. The invariant, `Strong`, is that of the parser (`Inv`, children
  before parents), `Held` (no two places share a node, so an array may take over a
  comma list) and `CommasTaken` (no list of branches is left with a comma
  behind it). Two things need care. `Additive` is left-recursive in the grammar and a loop in
  the code: `SumSteps` is the chain of terms both amount to. And the
  recursion of `Trees` is on pairs of a nonterminal and a part: `TreesAt` shows that the
  table exists and satisfies every production, by induction on the weight of a pair
  (tokens first, then the level of the nonterminal).
* **Lexer** (`LexerProofs`): for every set of texts and every keyword table,
  `Tiling` and `EofLast`. The strengthening is `InLoop`: an inner loop is ahead
  of `i`, so the lexeme it ends has a character. `EofLast` says that a finished
  scan has its EOF token last, nowhere else, and hence at least one token.
  `LinearTime` is the variant `Work`: an inner loop is entered at `i` and has
  taken a character by its end, so three steps are enough for each.
* **Lexer, longest match** (`LexerProofs`): `ImplementsLongestMatch`, that
  initial states map to initial states of `LongestMatch` and every step to one
  of its steps or a stutter (the steps of an inner loop). `ReadSoFar` (in the
  invariant `RInv`) says what an inner loop has read: digits, characters of a
  name, or a string in which no quote has closed yet. A step that ends a loop
  then takes a lexeme, and no longer prefix is one: a lemma per kind of lexeme.
  Whether a character of a string is protected depends on all before it; the
  lemma `ProtectedIs` gets its defining equation. The fairness of
  `Match!Spec`, which makes `ScansLongestMatch` a property of liveness too,
  is left to TLC.
* **Literals** (`LexerProofs`): `LiteralsReread`, by an induction along what
  `quoteLiteral` writes: behind the piece written for a character nothing is
  protected, and nothing of the piece closes the literal.
* **Parser configuration** (`ParserConfigProofs`): for any number of parsers,
  goroutines, groups and values, if no `*Groups` is given to two parsers
  (`Disjoint`), `Isolated` and `SettledOnceBuilt`. The invariant adds
  `OneOwner` (no instance belongs to two parsers, not even one that `New` has
  yet to write to) and `HeapOwned` (an instance holds its built parser's data,
  or what it was made with); a call half way through its loop has read, so far,
  what its parser owns. `config_shared` shows that `Disjoint` is needed.
* **Evaluator, shape** (`EvaluatorProofs`): for every well-formed tree, parsed or
  built by hand, every profile, and whatever equality and the classes return,
  `IInv` and `RulesAreBool`. `Condition(i)` says that node `i` is in a set of nodes closed
  under the operands a chain or ternary may return; a set instead of a
  recursive definition, so that no induction over the tree is needed. The
  invariant (`IInv`, or `Fits` without the choice of inputs): frames are a path
  from the root, hold one value per operand passed, and hold booleans where a
  condition can only return booleans; and only a chain without operands panics
  (`PanicsNeedEmptyChain`), the conjunct that the composition below needs.
* **Evaluator, meaning** (`EvaluatorProofs`): for the same trees and inputs,
  `ValueIsLazy`, `NoErrorLost` and `FirstErrorWins`: strict evaluation is lazy
  evaluation that reports more errors. The invariant `Means` says of every
  frame what it has so far in terms of what the operands it has passed mean: a
  plain node their values, a path the value looked up, a comma list the
  operands spread, a chain the operand at which short-circuit evaluation would
  stop (`FrameMeans`); below an operand passed nothing is wrong. A failing step
  then needs that no node which is first in the text has an error: every node
  is on the path of frames or below an operand of one of them, to its left
  (passed, so not wrong) or to its right (`PathDown`, `AllAround`). What
  the reference's recursive functions compute (`Meanings`, `Spread`, `Walk`,
  `Below`) is unfolded one step at a time by `MeaningsAt`, `SpreadsAt`, `WalkAt` and `UnderAt`.
* **Evaluator, values** (`EvaluatorProofs`): `TuplesFlat` and `SumsRegroup`,
  with the hypothesis `InputsProper`: the literals of the trees, the profiles
  and what classes return on flat arguments are proper values. `Proper(v)` says
  that some set closed under elements, in which no tuple is an element of a tuple, holds
  `v`: it is flatness to every depth, without recursion. The invariant `Held`
  says it of every value of every frame. For the sum of ints the
  lemma is that wrapping a part of a sum around first changes nothing.
* **Composition** (`PipelineProofs`): for every set of texts, every profile and
  any classes, `HandedOn` and `TextsNeverPanic`. The instances' lemmas are used
  as they are proved in the modules above: with `Streams` and `Programs`
  empty their step lemmas need no assumption about inputs, so what the next part
  starts from is shown to satisfy its invariant at the moment it is handed over
  (`TokensFit`, `TreeFits`). `PInv` says which part's invariant holds in which
  phase. A tree the parser built is well-formed because `WellTyped` gives each
  kind its number of children, and has no chain without operands, so
  `PanicsNeedEmptyChain` leaves no panic of `Eval`'s own. A class is a function
  that returns here: what `getFilteredGroups` does with a negative limit
  (section 4) happens inside it, and is in `ParserConfig`.
* **Positions of errors** (`PipelineProofs`): `ErrorsPointAtTheirText`. `PInv`
  remembers that the parser's input is the stream of the text's tokens
  (`StreamIsTexts`) and the evaluator's tree the parser's (`TreeIsParsers`), so
  that `Placed` of the parser says where the operands of a failing operator are.
* **Class helpers** (`ClassProofs`): `pySlice` is Python's slice for all texts
  and bounds, where `IsSlice` states Python's rule without clamping; rounding
  goes to a nearest int and is symmetric; in a table of the source's shape
  every name and code finds its own country. The shape is `TableAssumption`,
  which holds of the 249 rows of `iso3166convert.go`.
* **Nested class calls** (`ClassProofs`): all properties of `classes`, for
  every source of values (scalars, arrays, tuples and maps, in one another),
  every list of arguments and every table. `TypeOK`
  is not inductive: `flatten` and `get` return what was inside an array, of
  whose own elements it says nothing, and the elements of a tuple become
  arguments. The invariant `CInv` says that a set of values closed
  under elements holds `value` (`Proper`, as above, but with the given tuples
  and maps and no others) and that its length is an int. Each method keeps it, and each property is a
  lemma about the methods for a value that has it: `NumbersKept` is an
  induction over the digits of a number, `MembersAgree` one over the list, `ReplaceUndone` one over what has been
  written. Hypotheses: `LibrariesFit` (`ParseFloat` returns a float or an error,
  `Sprintf` a text) and, for `SameCountry`, `CaseFolds` (`strings.ToLower` maps an
  upper-case and a lower-case ASCII letter to the same).
* `SequenceLemmas`: what pushing, replacing, popping and prepending do to a
  sequence; induction up to a bound as a statement about a set (`Induction`,
  from `Least`); that a function defined by recursion exists (`Recursion`,
  `Iteration`) and what `FlattenSeq` puts where (`Flattens`, `FlatPieces`).
  The provers cannot be given a theorem of induction that takes an operator, but
  these take sets and functions; it is why recursion in `LazyMeaning`,
  `Conversions` and `Strings` is by recursive functions.

Model-checked only: `StringFaithful` and `FormatFaithful`, which compare with
the `RECURSIVE` operators of `Printer` that no backend reads; the fairness of
`ScansLongestMatch`; and `Termination`, which is liveness and out of the provers'
reach (of the lexer and the parser, that no behaviour is infinite is proved:
`LinearTime`, `NoBacktracking`). `EqualOperands` is `RECURSIVE` as well:
what is proved of the evaluator and the classes is proved for every equality.

## 6. What is not modelled

* The characters of a token's text in `AstParser` and `Printer`: they copy it.
  Where it matters it is in `Lexer`, `Quoting` and `Pipeline`.
* Floats are a number of quarters: no rounding, NaN or infinities, and no
  exponent when they are written. What `int(float64)` makes of a float no int
  holds depends on the processor: the parameter `Unfit`. Values of types from
  outside the language (a caller's own Go types) do not occur.
* Letters beyond ASCII: a character is one code, so `len` of a text in bytes
  and in characters are the same, and case is ASCII's.
* `strconv.ParseFloat` and `Sprintf` of lists and maps are parameters.
* `regexp` is a parameter: where a pattern first matches, and which patterns it
  refuses. A caller's classes are the parameter `CallClass`.
* Wording and line numbers of errors; the indentation Format writes.
* The rows of the table of Iso3166Convert but for the two of the instance.
* The argument checks of `getFilteredGroups`, whose errors reach no state.
* Memory-model effects of the data race between `New` and `getFilteredGroups`
  on one map header: a read is of the old or the new map.

## 7. Plan

Done, in this order, the most important behaviour first: parser and grammar;
lexer; configuration and Groups; printers; evaluator, values and Arrays; their
proofs; quoting; the String, Convert and Iso3166Convert classes; the
composition of lexer, parser and evaluator and its proofs; longest match, lazy
evaluation, nested calls and the positions of errors, proved; the parser against
its grammar, proved. What is left:

1. `Printer` as recursive functions on the arena, so that `StringFaithful` can
   be proved: `GrammarProofs` has what the grammar makes of a text, what is
   missing is that each production derives what `String` writes for its node.
2. `Isolated` in a composition of `ParserConfig` and `Pipeline`, so that the
   goroutines of the first evaluate whole expressions.
3. Floats with rounding and NaN, for `CompareOperands` and `EqualOperands`.
