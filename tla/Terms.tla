-------------------------------- MODULE Terms --------------------------------
(***************************************************************************)
(* Terms as text: how the functions that read the store print a term       *)
(* (term_to_ntriples), how the functions that write it parse one           *)
(* (parse_term), what rdf_term_type and rdf_term_value make of the text,   *)
(* and how the N-Triples parser of the loaders reads it back.              *)
(*                                                                         *)
(* A text is a sequence of characters; only the characters the code        *)
(* compares with have a name.  Quoted triples have one fixed subject and   *)
(* predicate and do not nest.                                              *)
(***************************************************************************)
EXTENDS Naturals, Sequences, SequencesExt

CONSTANTS
  Letters,   \* characters the code does not look for
  MaxLength  \* bound of the length of an IRI, a label or a literal's value

ASSUME MaxLengthNat == MaxLength \in Nat

Quote     == "quote"
Backslash == "backslash"
Newline   == "newline"
Invalid   == [kind |-> "invalid", value |-> << >>, suffix |-> << >>]

\* The tail of a literal: nothing, a language tag or a datatype.
LiteralTails == {<< >>, <<"@", "en">>, <<"^", "^", "<", "int", ">">>}

ValueChars == Letters \cup {Quote, Backslash, Newline, "<", ">", "@", "^"}

Plain == [kind : {"iri", "blank"}, value : BoundedSeq(Letters, MaxLength) \ {<< >>},
          suffix : {<< >>}]
         \cup [kind : {"literal"}, value : BoundedSeq(ValueChars, MaxLength), suffix : LiteralTails]
QuotedTriple(o) == [kind |-> "triple", object |-> o]
QuotedTriples   == {QuotedTriple(o) : o \in Plain}

Head_ == <<"<", "<", " ", "<", "s", ">", " ", "<", "p", ">", " ">>
Tail_ == <<" ", ">", ">">>

PlainText(t) ==
  CASE t.kind = "iri"     -> <<"<">> \o t.value \o <<">">>
    [] t.kind = "blank"   -> <<"_", ":">> \o t.value
    [] t.kind = "literal" -> <<Quote>> \o t.value \o <<Quote>> \o t.suffix

TermToNTriples(t) ==
  IF t.kind = "triple" THEN Head_ \o PlainText(t.object) \o Tail_ ELSE PlainText(t)

StartsWith(text, prefix) == IsPrefix(prefix, text)
Drop(text, n) == SubSeq(text, n + 1, Len(text))
Positions(text, char) == {i \in DOMAIN text : text[i] = char}
Largest(S)  == CHOOSE i \in S : \A j \in S : j <= i
Smallest(S) == CHOOSE i \in S : \A j \in S : i <= j

-----------------------------------------------------------------------------
(* The external parser of N-Triples, as far as the object of a statement.  *)

Escapes == [c \in {Quote, Backslash, "n"} |-> IF c = "n" THEN Newline ELSE c]

\* A literal ends at the first quote that is not escaped; an escape stands
\* for its character, and neither a line end nor another escape is allowed.
NTriplesLiteral(text) ==
  LET Failed == [ok |-> FALSE, value |-> << >>, end |-> 0]
      Then(c, r) == [r EXCEPT !.value = <<c>> \o @]
      R[k \in 2..(Len(text) + 2)] ==
        IF k > Len(text) THEN Failed
        ELSE CASE text[k] = Quote     -> [ok |-> TRUE, value |-> << >>, end |-> k]
               [] text[k] = Newline   -> Failed
               [] text[k] = Backslash ->
                    IF k < Len(text) /\ text[k + 1] \in DOMAIN Escapes
                    THEN Then(Escapes[text[k + 1]], R[k + 2]) ELSE Failed
               [] OTHER               -> Then(text[k], R[k + 1])
      read == R[2]
  IN  IF read.ok /\ Drop(text, read.end) \in LiteralTails
      THEN [kind |-> "literal", value |-> read.value, suffix |-> Drop(text, read.end)]
      ELSE Invalid

Name(text) == text # << >> /\ Range(text) \subseteq Letters

NTriplesPlain(text) ==
  CASE StartsWith(text, <<Quote>>) -> NTriplesLiteral(text)
    [] StartsWith(text, <<"_", ":">>) /\ Name(Drop(text, 2)) ->
         [kind |-> "blank", value |-> Drop(text, 2), suffix |-> << >>]
    [] StartsWith(text, <<"<">>) /\ Last(text) = ">" /\ Name(SubSeq(text, 2, Len(text) - 1)) ->
         [kind |-> "iri", value |-> SubSeq(text, 2, Len(text) - 1), suffix |-> << >>]
    [] OTHER -> Invalid

NTriplesQuoted(text) ==
  LET object == NTriplesPlain(SubSeq(text, Len(Head_) + 1, Len(text) - Len(Tail_)))
  IN  IF IsPrefix(Head_, text) /\ IsSuffix(Tail_, text) /\ object # Invalid
      THEN QuotedTriple(object) ELSE Invalid

NTriplesTerm(text) ==
  IF StartsWith(text, <<"<", "<">>) THEN NTriplesQuoted(text) ELSE NTriplesPlain(text)

-----------------------------------------------------------------------------
(* The parsers of the crate.                                               *)

\* A literal of a value and the text after its closing quote: a language tag
\* or a datatype must be one, any other text is ignored.
LiteralOf(value, suffix) ==
  LET tagged == StartsWith(suffix, <<"@">>) \/ StartsWith(suffix, <<"^", "^">>)
  IN  IF tagged /\ suffix \notin LiteralTails THEN Invalid
      ELSE [kind |-> "literal", value |-> value, suffix |-> IF tagged THEN suffix ELSE << >>]

\* Defect: the literal ends at the first quote (find for rfind).
ParseLiteralFind(text) ==
  LET rest == Drop(text, 1)
  IN  IF Positions(rest, Quote) = {} THEN Invalid
      ELSE LET close == Smallest(Positions(rest, Quote))
           IN  LiteralOf(SubSeq(rest, 1, close - 1), Drop(rest, close))

\* The literal ends at the last quote, and nothing in it is an escape.
ParseLiteral(text) ==
  LET rest == Drop(text, 1)
  IN  IF Positions(rest, Quote) = {} THEN Invalid
      ELSE LET close == Largest(Positions(rest, Quote))
           IN  LiteralOf(SubSeq(rest, 1, close - 1), Drop(rest, close))

\* What is neither a quoted triple, a blank node nor a literal is a bare IRI;
\* a quoted triple goes through the N-Triples parser.
ParseTerm(text) ==
  CASE StartsWith(text, <<"<", "<">>) -> NTriplesQuoted(text)
    [] StartsWith(text, <<"_", ":">>) -> [kind |-> "blank", value |-> Drop(text, 2), suffix |-> << >>]
    [] StartsWith(text, <<Quote>>)    -> ParseLiteral(text)
    [] OTHER -> IF Name(text) THEN [kind |-> "iri", value |-> text, suffix |-> << >>] ELSE Invalid

TermType(text) ==
  CASE StartsWith(text, <<"<", "<">>) -> "triple"
    [] StartsWith(text, <<"<">>)      -> "iri"
    [] StartsWith(text, <<"_", ":">>) -> "blank"
    [] StartsWith(text, <<Quote>>)    -> "literal"
    [] OTHER                          -> "unknown"

\* trim_end_matches('>') takes every bracket at the end.
TrimBrackets(text) ==
  SubSeq(text, 1, Largest({0} \cup {i \in DOMAIN text : text[i] # ">"}))

\* rdf_term_value, which looks for the last quote, too; a quoted triple and an
\* unknown text are errors.
TermValue(text) ==
  CASE TermType(text) = "iri"     -> TrimBrackets(Drop(text, 1))
    [] TermType(text) = "blank"   -> Drop(text, 2)
    [] TermType(text) = "literal" -> SubSeq(text, 2, Largest(Positions(text, Quote)) - 1)
    [] OTHER                      -> <<"error">>

\* rdf_triple_object.
TripleObject(text) ==
  LET t == ParseTerm(text)
  IN  IF t.kind = "triple" THEN TermToNTriples(t.object) ELSE <<"error">>
=============================================================================
