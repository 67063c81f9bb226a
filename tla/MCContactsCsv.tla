---------------------------- MODULE MCContactsCsv ----------------------------
(* Model-checking instance of ContactsCsv: files of up to two rows whose  *)
(* cells are blank, plain, upper-case, or carry the stray commas and      *)
(* blanks the program is meant to clean.                                  *)
EXTENDS ContactsCsv

MCEmailCells == {<<>>, <<" ">>, <<"a">>, <<"A">>, <<"n">>,
                 <<"a", ",">>, <<"a", " ", ",">>, <<",">>}
MCListCells  == {<<>>, <<"n">>, <<" ", "N">>, <<"a">>}
MCNameCells  == {<<>>, <<"a">>}

(* A 20-bit SHA-1 prefix that tells apart every address of this instance. *)
MCDigest(s) == s

(* Two 20-bit SHA-1 prefixes that coincide: of the addresses "a" and "n"  *)
(* (one Contact name), and of the contact names "contact-" and           *)
(* "contact-a" (one membership name for two Contacts of different        *)
(* names, the first made from a cell that cleans to nothing).            *)
MCDigestCollision(s) ==
  CASE s = <<"n">> -> <<"a">>
    [] s = <<"-">> -> <<"-", "a">>
    [] OTHER       -> s
=============================================================================
