---------------------------- MODULE ContactNames -----------------------------
(***************************************************************************)
(* The string helpers of create_contacts_from_csv.py, on strings that are  *)
(* sequences of characters of a small alphabet.  Each character stands for *)
(* a class the code tells apart:                                           *)
(*   "a", "n", "0"   lower-case letters and a digit ([a-z0-9]);            *)
(*   "A", "N"        their upper-case forms;                               *)
(*   " "             whitespace, ","  a comma, "-"  a hyphen, "!"  any     *)
(*                   other character.                                      *)
(* The word "newsletter" of the List column is written <<"n">>, and        *)
(* "Newsletter" <<"N">>: lower() maps one to the other as it maps the      *)
(* words.                                                                  *)
(***************************************************************************)
EXTENDS Naturals, Sequences, SequencesExt

Chars      == {"a", "n", "0", "A", "N", " ", ",", "-", "!"}
Alnum      == {"a", "n", "0"}
Whitespace == {" "}
LowerOf    == [c \in Chars |-> CASE c = "A" -> "a" [] c = "N" -> "n" [] OTHER -> c]

(* str.lower() *)
Lower(s) == [k \in DOMAIN s |-> LowerOf[s[k]]]

(* str.lstrip(C), str.rstrip(C) and str.strip(C) for a set C of characters. *)
RECURSIVE LStrip(_, _)
LStrip(s, C) == IF s # <<>> /\ Head(s) \in C THEN LStrip(Tail(s), C) ELSE s

RECURSIVE RStrip(_, _)
RStrip(s, C) == IF s # <<>> /\ Last(s) \in C THEN RStrip(Front(s), C) ELSE s

Strip(s, C) == RStrip(LStrip(s, C), C)

(* re.sub(P + "+", r, s) for a one-character class P: every maximal run of *)
(* characters of P becomes the one character r.  re.sub(P + "{2,}", r, s)  *)
(* with r in P is the same map, runs of one character being left as r.     *)
SubRuns(s, P, r) ==
  FlattenSeq([k \in DOMAIN s |->
               IF s[k] \notin P THEN <<s[k]>>
               ELSE IF k > 1 /\ s[k - 1] \in P THEN <<>> ELSE <<r>>])

(* Seeded fault: lower() applied after the substitution, so upper-case    *)
(* letters are taken for non-alphanumeric characters.                      *)
SlugifyLowerLast(value) ==
  LET v2 == SubRuns(Strip(value, Whitespace), Chars \ Alnum, "-")
  IN  Lower(Strip(SubRuns(v2, {"-"}, "-"), {"-"}))

(* slugify(value): strip and lower, each run of non-[a-z0-9] becomes "-",  *)
(* runs of "-" collapse, and "-" is stripped from both ends.               *)
Slugify(value) ==
  LET v1 == Lower(Strip(value, Whitespace))
      v2 == SubRuns(v1, Chars \ Alnum, "-")
      v3 == SubRuns(v2, {"-"}, "-")
  IN  Strip(v3, {"-"})

(* The address short_id_from_email hashes: email.strip().lower().          *)
NormalizeEmail(email) == Lower(Strip(email, Whitespace))

(* Seeded fault: the List cell compared without lower(). *)
ParseBoolNewsletterCaseSensitive(value) == Strip(value, Whitespace) = <<"n">>

(* parse_bool_newsletter: List.strip().lower() == "newsletter".            *)
ParseBoolNewsletter(value) == Lower(Strip(value, Whitespace)) = <<"n">>
-----------------------------------------------------------------------------
(* The maximal runs of [a-z0-9] characters of s, in order. *)
RECURSIVE AlnumWords(_)
AlnumWords(s) ==
  LET start == SelectInSeq(s, LAMBDA c : c \in Alnum)
      rest  == SubSeq(s, start, Len(s))
      stop  == SelectInSeq(rest, LAMBDA c : c \notin Alnum)
  IN  IF start = 0 THEN <<>>
      ELSE IF stop = 0 THEN <<rest>>
      ELSE <<SubSeq(rest, 1, stop - 1)>> \o AlnumWords(SubSeq(rest, stop, Len(rest)))

(* The words joined by "-". *)
RECURSIVE JoinWords(_)
JoinWords(ws) ==
  CASE ws = <<>>   -> <<>>
    [] Len(ws) = 1 -> Head(ws)
    [] OTHER       -> Head(ws) \o <<"-">> \o JoinWords(Tail(ws))

(* The docstring's contract read as a definition: the slug of a value is   *)
(* its lower-cased alphanumeric words joined by single hyphens, with no    *)
(* hyphen at either end.                                                   *)
SlugReference(value) == JoinWords(AlnumWords(Lower(value)))

=============================================================================
