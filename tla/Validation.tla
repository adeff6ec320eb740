----------------------------- MODULE Validation -----------------------------
(***************************************************************************)
(* From the texts of a form to the columns of a table: the handlers trim,  *)
(* validate against a schema, refuse with the issues found or store.       *)
(*                                                                         *)
(* A schema limits the bytes of a text, the column of the database its     *)
(* characters, to the same number.  A text is what these tell apart: how   *)
(* many characters of one byte and of several it has, whether one of them  *)
(* is neither a letter nor a digit, and whether it has blanks at its ends. *)
(***************************************************************************)
EXTENDS Naturals, Sequences

CONSTANTS Wide   \* bounds the numbers of characters of several bytes that are tried

VARIABLES
  form,      \* the last form, its texts as the handler validates them
  optional,  \* its texts may be empty
  issues,    \* what was answered about them
  row        \* the columns written for it

vars == <<form, optional, issues, row>>

(***************************************************************************)
(* Schemas and texts                                                       *)
(***************************************************************************)
Schema == [username     |-> [min |-> 6, max |-> 32],
           password     |-> [min |-> 6, max |-> 128],
           display_name |-> [min |-> 1, max |-> 64],
           server_name  |-> [min |-> 1, max |-> 64],
           channel_name |-> [min |-> 1, max |-> 32],
           text_message |-> [min |-> 1, max |-> 4096]]

Width == [username |-> 32, display_name |-> 64, server_name |-> 64, channel_name |-> 32,
          text_message |-> 4096]

(* Characters outside ASCII take three bytes here.                         *)
Bytes(t) == t.narrow + 3 * t.wide + 2 * t.blanks
Chars(t) == t.narrow + t.wide + 2 * t.blanks
Matches(t) == t.narrow > 0 /\ t.wide = 0 /\ t.blanks = 0 /\ ~t.special

(* Texts around the limits of a field.                                     *)
Text(f) ==
  LET min == Schema[f].min   max == Schema[f].max IN
  {t \in [narrow : {0, 1, min - 1, min, max - 6, max - 3, max - 1, max, max + 1}, wide : Wide,
          special : BOOLEAN, blanks : {0, 1}] : t.special => t.narrow > 0}

TrimSpace(t) == [t EXCEPT !.blanks = 0]

(***************************************************************************)
(* Validate and MergeValidationIssues                                      *)
(***************************************************************************)
(* Mutant: characters are counted.                                         *)
ValidateChars(f, t, opt) ==
  IF Chars(t) = 0 /\ opt THEN <<>>
  ELSE (CASE Chars(t) = 0 -> <<"empty">>
          [] Chars(t) > 0 /\ Chars(t) < Schema[f].min -> <<"short">>
          [] Chars(t) > Schema[f].max -> <<"long">>
          [] OTHER -> <<>>)
       \o (IF Chars(t) > 0 /\ f = "username" /\ ~Matches(t) THEN <<"no_special_chars">>
           ELSE <<>>)

Validate(f, t, opt) ==
  IF Bytes(t) = 0 /\ opt THEN <<>>
  ELSE (CASE Bytes(t) = 0 -> <<"empty">>
          [] Bytes(t) > 0 /\ Bytes(t) < Schema[f].min -> <<"short">>
          [] Bytes(t) > Schema[f].max -> <<"long">>
          [] OTHER -> <<>>)
       \o (IF Bytes(t) > 0 /\ f = "username" /\ ~Matches(t) THEN <<"no_special_chars">>
           ELSE <<>>)

(* Mutant: fields without an issue are reported, too.                      *)
MergeAll(all) == all

MergeValidationIssues(all) ==
  LET merged[i \in 0 .. Len(all)] ==
        IF i = 0 THEN <<>>
        ELSE IF all[i].issues = <<>> THEN merged[i - 1] ELSE Append(merged[i - 1], all[i])
  IN  merged[Len(all)]

(***************************************************************************)
(* Handlers                                                                *)
(***************************************************************************)
NoTexts == <<>>

Column(c, t) == [d \in {c} |-> t]

Init == form = NoTexts /\ optional = FALSE /\ issues = <<>> /\ row = NoTexts

(* The fields of a form in the order in which they are validated, whether  *)
(* they are optional, and the columns written when there is no issue; the  *)
(* statement may fail.                                                     *)
Submit(fields, texts, opt, columns) ==
  LET found == MergeValidationIssues(
                 [i \in DOMAIN fields |->
                    [field |-> fields[i], issues |-> Validate(fields[i], texts[fields[i]], opt)]])
  IN /\ form = NoTexts
     /\ form' = texts /\ optional' = opt /\ issues' = found
     /\ row' \in {NoTexts} \cup IF found = <<>> THEN {columns} ELSE {}

Credentials(username, password) ==
  [f \in {"username", "password"} |-> IF f = "username" THEN TrimSpace(username) ELSE password]

(* The username is the first display name.                                 *)
Register(username, password) ==
  Submit(<<"username", "password">>, Credentials(username, password), FALSE,
         [c \in {"username", "display_name"} |-> TrimSpace(username)])

Login(username, password) ==
  Submit(<<"username", "password">>, Credentials(username, password), FALSE, NoTexts)

(* createServer, createChannel and editMessage.                            *)
Create(f, t) ==
  Submit(<<f>>, Column(f, TrimSpace(t)), FALSE, Column(f, TrimSpace(t)))

(* Mutant: blanks are trimmed only for the test whether there is a change. *)
UpdateUntrimmed(f, t) ==
  Submit(<<f>>, Column(f, t), TRUE, IF Chars(TrimSpace(t)) = 0 THEN NoTexts ELSE Column(f, t))

(* updateUserInfo, updateServerInfo and updateChannelInfo: an empty name   *)
(* means no change.                                                        *)
Update(f, t) ==
  Submit(<<f>>, Column(f, TrimSpace(t)), TRUE,
         IF Chars(TrimSpace(t)) = 0 THEN NoTexts ELSE Column(f, TrimSpace(t)))

(* createMessage: a message may be empty.                                  *)
CreateMessage(t) ==
  Submit(<<"text_message">>, Column("text_message", TrimSpace(t)), TRUE,
         Column("text_message", TrimSpace(t)))

(* The answer; forms do not depend on each other.                          *)
Answer ==
  /\ form # NoTexts
  /\ form' = NoTexts /\ optional' = FALSE /\ issues' = <<>> /\ row' = NoTexts

Next ==
  \/ Answer
  \/ \E u \in Text("username"), p \in Text("password") : Register(u, p) \/ Login(u, p)
  \/ \E f \in {"server_name", "channel_name", "text_message"} : \E t \in Text(f) : Create(f, t)
  \/ \E f \in {"display_name", "server_name", "channel_name"} : \E t \in Text(f) : Update(f, t)
  \/ \E t \in Text("text_message") : CreateMessage(t)

Spec == Init /\ [][Next]_vars

(***************************************************************************)
(* Properties                                                              *)
(***************************************************************************)
TypeOK ==
  /\ DOMAIN form \subseteq DOMAIN Schema /\ DOMAIN row \subseteq DOMAIN Width
  /\ optional \in BOOLEAN
  /\ \A i \in DOMAIN issues :
       issues[i].field \in DOMAIN form /\ Len(issues[i].issues) \in 1..2
  /\ DOMAIN row # {} => issues = <<>>

(* Whatever passes fits its column, in characters, and has no blanks at    *)
(* its ends; names are not empty, though a message may be; and every       *)
(* username, letters and digits only, fits the display name it becomes.    *)
StoredFits ==
  \A c \in DOMAIN row :
    /\ Chars(row[c]) <= Width[c] /\ row[c].blanks = 0
    /\ c # "text_message" => Chars(row[c]) > 0
    /\ c = "username" => Matches(row[c])

(* A refused form is refused in full: each field that is not acceptable is *)
(* reported, once and in the order of the form, and no other.              *)
Acceptable(f, t) ==
  \/ optional /\ Bytes(t) = 0
  \/ Bytes(t) \in Schema[f].min .. Schema[f].max /\ (f = "username" => Matches(t))

RefusedInFull ==
  /\ {issues[i].field : i \in DOMAIN issues} = {f \in DOMAIN form : ~Acceptable(f, form[f])}
  /\ Len(issues) = 2 => issues[1].field = "username" /\ issues[2].field = "password"
=============================================================================
