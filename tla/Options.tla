------------------------------ MODULE Options ------------------------------
(***************************************************************************)
(* The command line of the two pcap drivers: handle_options around         *)
(* getopt_long, which permutes argv while it goes and from which the loop  *)
(* takes an option back when the value of the one before it begins with a  *)
(* dash.  An element of the line is an operand, a short or a long option,  *)
(* which may have a value attached, or "--"; argv holds the positions of   *)
(* the elements in the line, so that a permutation can be told.  A value   *)
(* is the element it came from and whether it was attached to it.          *)
(* Clusters of short options and abbreviated long ones are left out.       *)
(***************************************************************************)
EXTENDS Integers, Sequences, FiniteSetsExt

CONSTANT Lines    \* the lines considered: sequences of elements

ASSUME LinesAssumption ==
  Lines \subseteq Seq([kind : {"operand", "short", "long", "--"},
                       text : STRING, attached : STRING])

VARIABLES
  line,             \* as typed
  getopt,           \* argv, optind, and the operands getopt_long skipped
  names,            \* by option letter: record, the five names and the file
  debugLevel,
  numOptErrs,
  outcome           \* "none" while handling, then "runs", "exit" or "crash"

vars == <<line, getopt, names, debugLevel, numOptErrs, outcome>>

Operand(text) == [kind |-> "operand", text |-> text, attached |-> "none"]
Short(letter, value) == [kind |-> "short", text |-> letter, attached |-> value]
Long(name, value) == [kind |-> "long", text |-> name, attached |-> value]
DashDash == [kind |-> "--", text |-> "--", attached |-> "none"]

NoValue == [at |-> 0, attached |-> FALSE]

argc == Len(line) + 1

-----------------------------------------------------------------------------
\* ":ehr:t:c:p:d:a:g:E:", the letters with and without a value.
optstring ==
  [letter \in {"e", "h", "r", "t", "c", "p", "d", "a", "g", "E"} |->
     letter \notin {"e", "h"}]

\* has_arg and val.
long_options ==
  [recordEnvironment |-> [has_arg |-> FALSE, val |-> "e"],
   envDir            |-> [has_arg |-> FALSE, val |-> "E"],
   traceFile         |-> [has_arg |-> TRUE,  val |-> "t"],
   traceFileCons     |-> [has_arg |-> TRUE,  val |-> "c"],
   appTraceFile      |-> [has_arg |-> TRUE,  val |-> "a"],
   appTraceFileCons  |-> [has_arg |-> TRUE,  val |-> "g"],
   debugLevel        |-> [has_arg |-> TRUE,  val |-> "d"],
   help              |-> [has_arg |-> FALSE, val |-> "h"]]

Known(e) == e.text \in IF e.kind = "short" THEN DOMAIN optstring
                       ELSE DOMAIN long_options

HasArg(e) == IF e.kind = "short" THEN optstring[e.text]
             ELSE long_options[e.text].has_arg

Val(e) == IF e.kind = "short" THEN e.text ELSE long_options[e.text].val

\* The options whose value is kept as a name.
FileNames == {"r", "E", "t", "c", "a", "g"}

BeginsWithDash(v) ==
  IF v.attached THEN line[v.at].attached \in {"-", "-x"}
  ELSE line[v.at].kind # "operand" \/ line[v.at].text = "-"

Text(v) == IF v.attached THEN line[v.at].attached ELSE line[v.at].text

TooLong(v) == Text(v) = "long"

\* The levels "2" and "9"; every other text gives 0, or -1 and less.
atoi(v) == CASE Text(v) = "2" -> 2 [] Text(v) = "9" -> 9 [] OTHER -> 0

-----------------------------------------------------------------------------
(***************************************************************************)
(* getopt_long of the C library.  The elements from first to last - 1 are  *)
(* operands that it has skipped; exchange moves them behind the options    *)
(* that it has read since.                                                 *)
(***************************************************************************)
Element(g, p) == line[g.argv[p]]

exchange(g) ==
  [g EXCEPT !.argv = SubSeq(@, 1, g.first - 1)
                     \o SubSeq(@, g.last, g.optind - 1)
                     \o SubSeq(@, g.first, g.last - 1)
                     \o SubSeq(@, g.optind, Len(@)),
            !.first = g.first + g.optind - g.last,
            !.last = g.optind]

\* The operands behind the options read, or an empty stretch of operands.
Gathered(g) ==
  IF g.first # g.last
  THEN IF g.last # g.optind THEN exchange(g) ELSE g
  ELSE [g EXCEPT !.first = g.optind]

\* Up to the next option; "--" makes operands of all that follow.
Skipped(g) ==
  LET clamped == [g EXCEPT !.last = Min({@, g.optind}),
                           !.first = Min({@, g.optind})]
      gathered == Gathered(clamped)
      next == Min({p \in g.optind..argc :
                     p = argc \/ Element(gathered, p).kind # "operand"})
      atOption == [gathered EXCEPT !.optind = next, !.last = next]
  IN IF next < argc /\ Element(atOption, next).kind = "--"
     THEN [Gathered([atOption EXCEPT !.optind = next + 1])
             EXCEPT !.last = argc, !.optind = argc]
     ELSE atOption

\* The option at optind, its value, and optind behind both.
Taken(g) ==
  LET p == g.optind
      e == Element(g, p)
      Result(n, option, optarg) ==
        [g |-> [g EXCEPT !.optind = p + n], option |-> option,
         optarg |-> optarg]
      attached == e.attached # "none"
  IN CASE ~Known(e) -> Result(1, "?", NoValue)
       [] Known(e) /\ ~HasArg(e) ->
            Result(1, IF attached THEN "?" ELSE Val(e), NoValue)
       [] Known(e) /\ HasArg(e) /\ attached ->
            Result(1, Val(e), [at |-> g.argv[p], attached |-> TRUE])
       [] Known(e) /\ HasArg(e) /\ ~attached /\ p + 1 = argc ->
            Result(1, ":", NoValue)
       [] OTHER ->
            Result(2, Val(e), [at |-> g.argv[p + 1], attached |-> FALSE])

getopt_long ==
  LET g == Skipped(getopt)
  IN IF g.optind < argc THEN Taken(g)
     ELSE [g |-> [g EXCEPT !.optind = IF g.first # g.last THEN g.first ELSE @],
           option |-> "end", optarg |-> NoValue]

-----------------------------------------------------------------------------
\* Mutant: the values are not looked at.
optionAsTaken == getopt_long

\* Mutant: an attached value that begins with a dash is refused as well.
optionNoDash ==
  LET o == getopt_long
  IN IF o.optarg # NoValue /\ BeginsWithDash(o.optarg)
     THEN [o EXCEPT !.option = ":"]
     ELSE o

\* Mutant: option and value are both taken back.
optionTwoBack ==
  LET o == getopt_long
  IN IF /\ o.optarg # NoValue
        /\ o.g.optind = getopt.optind + 2
        /\ BeginsWithDash(o.optarg)
     THEN [o EXCEPT !.option = ":", !.g.optind = @ - 2]
     ELSE o

\* What the loop makes of the call: a value that is the next element and
\* begins with a dash is taken back, to be read as an option.
option ==
  LET o == getopt_long
  IN IF /\ o.optarg # NoValue
        /\ o.g.optind = getopt.optind + 2
        /\ BeginsWithDash(o.optarg)
     THEN [o EXCEPT !.option = ":", !.g.optind = @ - 1]
     ELSE o

\* One turn of the loop, for an option of the given letters.
Turn(letters) ==
  /\ outcome = "none"
  /\ option.option \in letters
  /\ getopt' = option.g
  /\ UNCHANGED line

RecordEnvironment ==
  /\ Turn({"e"})
  /\ names' = [names EXCEPT !.e = 1]
  /\ UNCHANGED <<debugLevel, numOptErrs, outcome>>

Help ==
  /\ Turn({"h"})
  /\ outcome' = "exit"
  /\ UNCHANGED <<names, debugLevel, numOptErrs>>

\* strlen(optarg), which is NULL for --envDir, comes first.
Name ==
  /\ Turn(FileNames)
  /\ \/ /\ option.optarg = NoValue
        /\ outcome' = "crash"
        /\ UNCHANGED names
     \/ /\ option.optarg # NoValue
        /\ TooLong(option.optarg)
        /\ outcome' = "exit"
        /\ UNCHANGED names
     \/ /\ option.optarg # NoValue
        /\ ~TooLong(option.optarg)
        /\ names' = [names EXCEPT ![option.option] = option.optarg]
        /\ UNCHANGED outcome
  /\ UNCHANGED <<debugLevel, numOptErrs>>

Level ==
  /\ Turn({"d"})
  /\ \/ /\ atoi(option.optarg) \in 1..3
        /\ debugLevel' = atoi(option.optarg)
        /\ UNCHANGED outcome
     \/ /\ atoi(option.optarg) \notin 1..3
        /\ outcome' = "exit"
        /\ UNCHANGED debugLevel
  /\ UNCHANGED <<names, numOptErrs>>

Wrong ==
  /\ Turn({"?", ":"})
  /\ numOptErrs' = numOptErrs + 1
  /\ UNCHANGED <<names, debugLevel, outcome>>

\* -p is in optstring and not in the switch.
Default ==
  /\ Turn({"p"})
  /\ UNCHANGED <<names, debugLevel, numOptErrs, outcome>>

\* After the loop exactly one element is left, or the line is wrong.
Finish ==
  /\ Turn({"end"})
  /\ numOptErrs' = numOptErrs + IF argc # option.g.optind + 1 THEN 1 ELSE 0
  /\ \/ /\ numOptErrs' > 0
        /\ outcome' = "exit"
        /\ UNCHANGED names
     \/ /\ numOptErrs' = 0
        /\ outcome' = "runs"
        /\ names' = [names EXCEPT !.pcap = option.g.argv[option.g.optind]]
  /\ UNCHANGED debugLevel

Stopped == outcome # "none" /\ UNCHANGED vars

Init ==
  /\ line \in Lines
  /\ getopt = [argv |-> [p \in 1..Len(line) |-> p], optind |-> 1, first |-> 1,
               last |-> 1]
  /\ names = [r |-> NoValue, E |-> NoValue, t |-> NoValue, c |-> NoValue,
              a |-> NoValue, g |-> NoValue, e |-> 0, pcap |-> 0]
  /\ debugLevel = 0
  /\ numOptErrs = 0
  /\ outcome = "none"

Next ==
  \/ RecordEnvironment
  \/ Help
  \/ Name
  \/ Level
  \/ Wrong
  \/ Default
  \/ Finish
  \/ Stopped

Spec == Init /\ [][Next]_vars

-----------------------------------------------------------------------------
(***************************************************************************)
(* What the usage text promises, "[args] pcapfile", read from the text and *)
(* not from the tables of the code, and without a permutation: from left   *)
(* to right an option and its value, unless that begins with a dash, then  *)
(* the operands.                                                           *)
(***************************************************************************)

\* print_usage: the letters it lists, and whether it shows a value.
shown ==
  [letter \in {"p", "t", "c", "a", "g", "e", "E", "d", "h", "r"} |->
     letter \notin {"e", "h"}]

\* The long spellings it gives for the letters.
spelled ==
  [pcap |-> "p", traceFile |-> "t", traceFileCons |-> "c", appTraceFile |-> "a",
   appTtraceFileCons |-> "g", recordEnvironment |-> "e", envDir |-> "E",
   debugLevel |-> "d", help |-> "h", RDF |-> "r"]

Listed(e) == e.text \in IF e.kind = "short" THEN DOMAIN shown ELSE DOMAIN spelled

Letter(e) == IF e.kind = "short" THEN e.text ELSE spelled[e.text]

ShowsValue(e) == shown[Letter(e)]

\* The options on which the text and handle_options differ: -p is read and
\* dropped, --envDir has no value, three spellings are unknown and one is not
\* in the text.
Disputed(e) ==
  e.text \in IF e.kind = "short" THEN {"p"}
             ELSE {"envDir", "pcap", "RDF", "appTtraceFileCons",
                   "appTraceFileCons"}

IsOption(p) == line[p].kind \in {"short", "long"}

WantsNext(p) ==
  /\ IsOption(p) /\ Listed(line[p]) /\ ShowsValue(line[p])
  /\ line[p].attached = "none"

IsValue(p) == p \in DOMAIN line /\ ~BeginsWithDash([at |-> p, attached |-> FALSE])

Width(p) == IF WantsNext(p) /\ IsValue(p + 1) THEN 2 ELSE 1

\* The positions where an option or an operand begins.
Begins ==
  LET begins[p \in 1..Len(line)] ==
        p = 1 \/ \E q \in {p - 1, p - 2} \cap 1..Len(line) :
                   begins[q] /\ q + Width(q) = p
  IN {p \in 1..Len(line) : begins[p]}

ValueOf(p) == [at |-> p + Width(p) - 1, attached |-> Width(p) = 1]

\* An option that is not in the text, that lacks the value shown there, or
\* that has one where none is shown.
Errs(p) == \/ ~Listed(line[p])
           \/ WantsNext(p) /\ Width(p) = 1
           \/ ~ShowsValue(line[p]) /\ line[p].attached # "none"

\* An option that ends the program: help, a level that is not "1..3", and a
\* name that is too long.
Ends(p) ==
  LET letter == Letter(line[p])
  IN /\ ~Errs(p)
     /\ \/ letter = "h"
        \/ letter = "d" /\ atoi(ValueOf(p)) \notin 1..3
        \/ letter \in FileNames /\ TooLong(ValueOf(p))

\* The value of the last option of a letter, the last one winning.
Chosen(letter) ==
  LET given == {p \in Begins : /\ IsOption(p) /\ ~Errs(p)
                               /\ Letter(line[p]) = letter}
  IN IF given = {} THEN NoValue ELSE ValueOf(Max(given))

Operands == {p \in Begins : line[p].kind = "operand"}

\* Operands come last and there is no "--".
InOrder ==
  \A p \in Begins : /\ line[p].kind # "--"
                    /\ IsOption(p) => \A o \in Operands : p < o

InSynopsis == InOrder /\ \A p \in Begins : IsOption(p) => ~Disputed(line[p])

\* One of its options errs or ends the program, or it has not one operand.
Refused ==
  \/ \E p \in Begins : IsOption(p) /\ (Errs(p) \/ Ends(p))
  \/ Cardinality(Operands) # 1

\* The program runs on the operand, with the last value of each option.
Obeyed ==
  LET level == Chosen("d")
  IN /\ outcome = "runs"
     /\ names.pcap \in Operands
     /\ \A letter \in FileNames : names[letter] = Chosen(letter)
     /\ debugLevel = IF level = NoValue THEN 0 ELSE atoi(level)

\* A line of options and then operands means what the usage text says, those
\* options apart on which the code and the text differ.
SynopsisHolds ==
  outcome # "none" /\ InSynopsis =>
    IF Refused THEN outcome = "exit" ELSE Obeyed

\* With the file at the end of the line no option is taken for the value of
\* the one before it: not even when getopt_long skips operands, in which case
\* the loop does not notice, does the program run with such a value.
NoOptionSwallowed ==
  outcome = "runs" /\ names.pcap = Len(line) =>
    \A letter \in FileNames :
      names[letter] = NoValue \/ names[letter].attached
        \/ ~BeginsWithDash(names[letter])

\* An option that is taken back is read again, and operands move about, but
\* every turn leaves optind further on: the loop ends on every line without a
\* cluster of short options.
EachTurnAdvances ==
  [][outcome' = "none" => getopt'.optind > getopt.optind]_vars
=============================================================================
