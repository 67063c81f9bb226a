----------------------------- MODULE ContactsCsv -----------------------------
(***************************************************************************)
(* create_contacts_from_csv.py: main() -> process_csv().  The program reads *)
(* every row of the CSV (read_csv), builds a Contact document for each row *)
(* with an e-mail address and a ContactGroupMembership for each such row   *)
(* whose List column says Newsletter, prints contacts then memberships as  *)
(* a YAML stream, and then writes each kind to its file unless the path    *)
(* given for it is empty.                                                  *)
(*                                                                         *)
(* A YAML document is a record of the fields the manifests carry; the      *)
(* stream is a sequence of documents and separators Sep ("---").  The      *)
(* SHA-1 prefixes of short_id_from_email and make_membership_doc are the   *)
(* operator Digest, a fixed function from strings to names that the model  *)
(* instance defines.                                                       *)
(***************************************************************************)
EXTENDS ContactNames

CONSTANTS
  EmailCells,   \* the raw "Email Address" cells the CSV may hold
  ListCells,    \* the raw "List" cells
  NameCells,    \* the raw "fname" / "lname" cells
  MaxRows,      \* the most rows a CSV has
  Digest(_),    \* hexdigest()[:5] of SHA-1
  Sep,          \* the "---" line between two documents
  NoFile        \* a file the program never wrote

VARIABLES
  csv,             \* the rows of the input file, as DictReader returns them
  outContacts,     \* --contacts-output is a non-empty path
  outMemberships,  \* --memberships-output is a non-empty path
  pc,              \* where process_csv is
  rows,            \* read_csv's normalized rows
  i,               \* the index of the row the loop is at
  contacts,        \* contact_docs
  memberships,     \* membership_docs
  stdout,          \* what was printed
  contactsFile,    \* the contacts output file, NoFile if never written
  membershipsFile  \* the memberships output file

vars == <<csv, outContacts, outMemberships, pc, rows, i, contacts,
          memberships, stdout, contactsFile, membershipsFile>>

RawRows == [fname : NameCells, lname : NameCells, email : EmailCells, list : ListCells]

Row == [fname : Seq(Chars), lname : Seq(Chars), email : Seq(Chars), list : Seq(Chars)]

ContactDoc == [kind : {"Contact"}, name : {"contact"} \X Seq(Chars),
               email : Seq(Chars), givenName : Seq(Chars), familyName : Seq(Chars)]

MembershipDoc == [kind : {"ContactGroupMembership"}, name : {"membership"} \X Seq(Chars),
                  contactRef : {"contact"} \X Seq(Chars)]

Docs == ContactDoc \cup MembershipDoc

ContactsTypeOK ==
  /\ pc \in {"read", "loop", "writeContacts", "writeMemberships", "done"}
  /\ rows \in Seq(Row) /\ i \in 1..MaxRows + 1
  /\ contacts \in Seq(ContactDoc) /\ memberships \in Seq(MembershipDoc)
  /\ stdout \in Seq(Docs \cup {Sep})
  /\ contactsFile \in Seq(Docs \cup {Sep}) \cup {NoFile}
  /\ membershipsFile \in Seq(Docs \cup {Sep}) \cup {NoFile}

(* parse_args: every path has a non-empty default; an empty one given on   *)
(* the command line turns its file off.                                    *)
ContactsInit ==
  /\ csv \in SeqOf(RawRows, MaxRows)
  /\ outContacts \in BOOLEAN /\ outMemberships \in BOOLEAN
  /\ pc = "read" /\ rows = <<>> /\ i = 1
  /\ contacts = <<>> /\ memberships = <<>> /\ stdout = <<>>
  /\ contactsFile = NoFile /\ membershipsFile = NoFile

(* build_contact_name: "contact-" and the digest of email.strip().lower(). *)
ContactName(email) == <<"contact", Digest(NormalizeEmail(email))>>

(* Seeded fault: the name is the bare suffix, "contact-" left out. *)
MakeContactDocNoPrefix(fname, lname, email) ==
  [kind |-> "Contact", name |-> Digest(NormalizeEmail(email)), email |-> email,
   givenName |-> fname, familyName |-> lname]

(* make_contact_doc: givenName / familyName only when non-empty (an empty  *)
(* field stands for the key left out).                                     *)
MakeContactDoc(fname, lname, email) ==
  [kind |-> "Contact", name |-> ContactName(email), email |-> email,
   givenName |-> fname, familyName |-> lname]

(* The string "contact-<id>" of a contact name.  The letters of          *)
(* "contact" lie outside the model's alphabet; its "-" stands for them.  *)
NameString(contactName) == <<"-">> \o contactName[2]

(* make_membership_doc: named by the digest of the whole contact name.   *)
MakeMembershipDoc(contactName) ==
  [kind |-> "ContactGroupMembership",
   name |-> <<"membership", Digest(NameString(contactName))>>,
   contactRef |-> contactName]

(* Seeded fault: "---" printed after every document, the last included. *)
DumpDocsSepAfterEach(docs) ==
  FlattenSeq([k \in DOMAIN docs |-> <<docs[k], Sep>>])

(* dump_yaml_docs / write_yaml_file: each document, and "---" after every  *)
(* one but the last.                                                       *)
DumpDocs(docs) ==
  FlattenSeq([k \in DOMAIN docs |->
               IF k = Len(docs) THEN <<docs[k]>> ELSE <<docs[k], Sep>>])

(* read_csv: every cell we care about, missing or not, stripped. *)
ReadCsv ==
  /\ pc = "read" /\ pc' = "loop"
  /\ rows' = [k \in DOMAIN csv |-> [f \in {"fname", "lname", "email", "list"} |->
                                     Strip(csv[k][f], Whitespace)]]
  /\ UNCHANGED <<csv, outContacts, outMemberships, i, contacts, memberships,
                 stdout, contactsFile, membershipsFile>>

(* One iteration of process_csv's loop: a row without e-mail is skipped;   *)
(* otherwise the address loses trailing commas, its Contact is appended,   *)
(* and for a Newsletter row a membership naming that Contact.              *)
ProcessRow ==
  LET row   == rows[i]
      email == RStrip(Strip(row.email, Whitespace), {","})
      doc   == MakeContactDoc(row.fname, row.lname, email)
  IN
  /\ pc = "loop" /\ i <= Len(rows) /\ i' = i + 1
  /\ \/ /\ row.email = <<>>
        /\ UNCHANGED <<contacts, memberships>>
     \/ /\ row.email # <<>>
        /\ contacts' = Append(contacts, doc)
        /\ memberships' = IF ParseBoolNewsletter(row.list)
                          THEN Append(memberships, MakeMembershipDoc(doc.name))
                          ELSE memberships
  /\ UNCHANGED <<csv, outContacts, outMemberships, pc, rows, stdout,
                 contactsFile, membershipsFile>>

(* After the loop: contacts printed, then "---" and the memberships if     *)
(* there are any.                                                          *)
PrintDocs ==
  /\ pc = "loop" /\ i > Len(rows) /\ pc' = "writeContacts"
  /\ stdout' = DumpDocs(contacts) \o
               (IF memberships # <<>> THEN <<Sep>> \o DumpDocs(memberships) ELSE <<>>)
  /\ UNCHANGED <<csv, outContacts, outMemberships, rows, i, contacts, memberships,
                 contactsFile, membershipsFile>>

(* `if contacts_out_path: write_yaml_file(contact_docs, ...)` *)
WriteContacts ==
  /\ pc = "writeContacts" /\ pc' = "writeMemberships"
  /\ \/ outContacts /\ contactsFile' = DumpDocs(contacts)
     \/ ~outContacts /\ UNCHANGED contactsFile
  /\ UNCHANGED <<csv, outContacts, outMemberships, rows, i, contacts, memberships,
                 stdout, membershipsFile>>

(* `if memberships_out_path: write_yaml_file(membership_docs, ...)` *)
WriteMemberships ==
  /\ pc = "writeMemberships" /\ pc' = "done"
  /\ \/ outMemberships /\ membershipsFile' = DumpDocs(memberships)
     \/ ~outMemberships /\ UNCHANGED membershipsFile
  /\ UNCHANGED <<csv, outContacts, outMemberships, rows, i, contacts, memberships,
                 stdout, contactsFile>>

ContactsNext == ReadCsv \/ ProcessRow \/ PrintDocs \/ WriteContacts \/ WriteMemberships

ContactsSpec == ContactsInit /\ [][ContactsNext]_vars

-----------------------------------------------------------------------------
(* The documents a YAML loader (safe_load_all) reads from a stream: the    *)
(* pieces between separators, a piece with no document being an empty      *)
(* (null) document.                                                        *)
LoadAll(stream) ==
  LET cuts == <<0>> \o SetToSortSeq({k \in DOMAIN stream : stream[k] = Sep},
                                    LAMBDA a, b : a < b)
              \o <<Len(stream) + 1>>
  IN  IF stream = <<>> THEN <<>>
      ELSE [j \in 1..Len(cuts) - 1 |-> SubSeq(stream, cuts[j] + 1, cuts[j + 1] - 1)]

LoadsAs(stream, docs) == LoadAll(stream) = [k \in DOMAIN docs |-> <<docs[k]>>]

(* What was printed, and each file written, loads back as exactly the     *)
(* documents built, in order (contacts before memberships on stdout): the *)
(* separator logic of dump_yaml_docs, write_yaml_file and of process_csv  *)
(* between the two kinds puts no empty document anywhere, also when one   *)
(* kind has no document.                                                   *)
StreamsLoadAsDocs ==
  /\ pc \in {"writeContacts", "writeMemberships", "done"} =>
       LoadsAs(stdout, contacts \o memberships)
  /\ contactsFile # NoFile => LoadsAs(contactsFile, contacts)
  /\ membershipsFile # NoFile => LoadsAs(membershipsFile, memberships)

(* A row of the file has an address: a non-blank Email Address cell. *)
HasAddress(r) == \E k \in DOMAIN r.email : r.email[k] \notin Whitespace

(* The List cell reads "newsletter", in any case, blanks aside. *)
SaysNewsletter(r) ==
  SelectSeq(r.list, LAMBDA c : c \notin Whitespace) \in {<<"n">>, <<"N">>}

(* When process_csv has finished, there is one membership for each row of *)
(* the input with an address and the List "Newsletter", and every         *)
(* membership refers to a Contact of the contacts output.                 *)
MembershipsFollowNewsletterRows ==
  pc = "done" =>
    /\ Len(memberships) = Len(SelectSeq(csv, LAMBDA r : HasAddress(r) /\ SaysNewsletter(r)))
    /\ \A m \in ToSet(memberships) : \E c \in ToSet(contacts) : c.name = m.contactRef

(* The comment of process_csv: "clean stray commas/spaces that sometimes  *)
(* appear in CSV cells": every Contact has a non-empty address with no    *)
(* comma or blank at either end.                                           *)
EmailsClean ==
  \A c \in ToSet(contacts) :
    c.email # <<>> /\ c.email = Strip(c.email, Whitespace \cup {","})

(* kubectl apply of the two files the program writes: documents are kept *)
(* by name, and a later document replaces an earlier one of the same name. *)
AppliedUnder(docs, n) ==
  docs[Max({k \in DOMAIN docs : docs[k].name = n})]

(* build_contact_name ("a DNS-safe name ... a short deterministic suffix  *)
(* from email for stable names") and make_membership_doc, each naming a   *)
(* document by a 20-bit SHA-1 prefix: applying the manifest keeps a       *)
(* Contact for every address and every membership built, i.e. no         *)
(* document of one person is replaced by a document of another.          *)
ApplyKeepsEveryone ==
  LET docs == contacts \o memberships
  IN /\ \A c \in ToSet(contacts) :
          NormalizeEmail(AppliedUnder(docs, c.name).email) = NormalizeEmail(c.email)
     /\ \A m \in ToSet(memberships) :
          AppliedUnder(docs, m.name).contactRef = m.contactRef
=============================================================================
