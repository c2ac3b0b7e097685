------------------------------- MODULE Parser -------------------------------
(***************************************************************************)
(* How a line of the host becomes the array `vector`: RX_core::parse fills *)
(* the first Fill elements with -1 and Parser::parseInts stores one number *)
(* per field. A line is a sequence of characters, of which only the        *)
(* divider matters; a number is abstracted to the line it was read from.   *)
(* amount and split, which core 1 does not call, are operators.            *)
(***************************************************************************)
EXTENDS Naturals, Sequences, FiniteSets, SequencesExt

CONSTANTS
    Fill,     \* elements that parse fills, ten in the code
    Length,   \* elements of vector, fifteen in the code
    MaxChars, \* bound: characters of a line
    MaxLines  \* bound: lines

ASSUME ParserAssumption ==
    Fill \in Nat /\ Length \in Nat /\ Fill <= Length /\ MaxChars \in Nat /\ MaxLines \in Nat

Char == {"digit", "div"}
Line == SeqOf(Char, MaxChars)

\* Positions of the dividers, counted from 1.
Divs(line) == {i \in DOMAIN line : line[i] = "div"}

\* Parser::amount steps over a character before it looks at one: a divider in
\* front is not counted.
amount(line) == Cardinality(Divs(line) \ {1}) + 1

\* Parser::split: where the pieces start, one per divider and one in front.
split(line) == <<0>> \o SetToSortSeq(Divs(line), <)

\* Mutant: parseInts stops at an empty field.
FieldsNoEmpty(line) ==
    Cardinality({i \in Divs(line) : i < Len(line) /\ line[i + 1] # "div"}) + 1

\* Parser::parseInts: one number, 0 for an empty field, per turn of its loop,
\* which ends when strchr finds no divider.
Fields(line) == Cardinality(Divs(line)) + 1

VARIABLES
    vec,        \* vector: per element the line it is from, "fill", or "zero"
    vectorSize, \* what parseInts returned
    got,        \* history: the lines so far
    beyond      \* history: an element past the end has been written

parserVars == <<vec, vectorSize, got, beyond>>

ParserInit ==
    /\ vec = [e \in 0 .. Length - 1 |-> 0]
    /\ vectorSize = 0 /\ got = <<>> /\ beyond = FALSE

\* A line arrives: -1 (here 0 once more: no line) into the first Fill elements,
\* then the numbers.
Parse ==
    /\ Len(got) < MaxLines
    /\ \E line \in Line :
          LET n == Fields(line)
              k == Len(got) + 1
          IN  /\ vec' = [e \in DOMAIN vec |->
                            IF e < n THEN k ELSE IF e < Fill THEN 0 ELSE vec[e]]
              /\ vectorSize' = n
              /\ got' = Append(got, line)
              /\ beyond' = (beyond \/ n > Length)

ParserNext == Parse

ParserSpec == ParserInit /\ [][ParserNext]_parserVars

-----------------------------------------------------------------------------

(* The array holds the last line's numbers, as many as the line has fields,
   empty ones too, and behind them nothing of an earlier line, except past the
   fill: there stands the number of the last line that was long enough. Nothing
   is written past the end as long as every line fits. *)
VectorIsLastLine ==
    got # <<>> =>
        LET last == Len(got)
            Count(line) == Cardinality({i \in DOMAIN line : line[i] = "div"}) + 1
        IN  /\ vectorSize = Count(got[last])
            /\ \A e \in DOMAIN vec :
                  vec[e] = IF e < Count(got[last]) THEN last
                           ELSE IF e < Fill \/ \A k \in DOMAIN got : ~(e < Count(got[k])) THEN 0
                           ELSE CHOOSE k \in DOMAIN got :
                                    /\ e < Count(got[k])
                                    /\ \A m \in k + 1 .. last : ~(e < Count(got[m]))
            /\ beyond => \E k \in DOMAIN got : Count(got[k]) > Length

(* The buffer that split allocates for amount() pieces holds every piece it
   finds, for each line received (parser.cpp:29 calls the loop of amount the
   count of the dividers). *)
SplitFits == \A k \in DOMAIN got : Len(split(got[k])) <= amount(got[k])
=============================================================================
