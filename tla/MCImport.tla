------------------------------ MODULE MCImport ------------------------------
(* Two exports of one school: July has the sessions of June in another     *)
(* order and one more.  Ida teaches and is new, Max is here already, Ben   *)
(* has no address; two sessions of June cannot be told apart, and clash.   *)
EXTENDS Import, TLC

CONSTANTS r1, r2, r3, r4, june, july

Person(name, shown, email, account) ==
  [name |-> name, shown |-> shown, email |-> email, roles |-> TRUE,
   valid |-> TRUE, account |-> account]
Lesson(title, instructor, students, from, status) ==
  [title |-> title, instructor |-> instructor, students |-> students,
   from |-> from, minutes |-> 2, status |-> status]

ida == Person("Ida Roe", "Ida Roe", "ida@x", "other")
max == Person("Max Orr", "Max Orr", "max@x", "invited")
ben == Person("Ben", "Ben Ben", None, "invited")
nobody == [Person("No Role", "No Role", None, "invited") EXCEPT !.roles = FALSE]
bad == [Person("Bad One", "Bad One", "bad@", "invited") EXCEPT !.valid = FALSE]
twin == [ida EXCEPT !.shown = "Ida Two"]

algebra == Lesson("algebra", "Ida Roe", <<"Ben Ben", "Zoe Zed">>, 10, "blocking")
biology == Lesson("biology", "Ida Roe", <<"Max Orr">>, 11, "blocking")
history == Lesson("history", "Ida Roe", <<>>, 11, "free")
unread == Lesson("unread", "Max Orr", <<>>, None, "free")

MCPeople == [e \in Exports |-> IF e = june THEN <<max, ida>> ELSE <<ida>>]
MCSessions == [e \in Exports |-> IF e = june THEN <<algebra, algebra>>
                                 ELSE <<biology>>]
MCSeries == [e \in Exports |-> IF e = june
  THEN <<[title |-> "weekly", instructor |-> "Ida Roe", from |-> 1, minutes |-> 2]>>
  ELSE <<>>]
MCResidents == <<[name |-> "Max Orr", email |-> "max@x"]>>
MCInvited == {[name |-> "Ida Roe", email |-> "ida@x"]}
MCBooked == {[who |-> 2, from |-> 12, to |-> 13]}

(* For the forecast: one export, previewed and committed with nobody about.*)
OnePeople == [e \in Exports |-> <<ida, twin, bad>>]
OneSessions == [e \in Exports |-> <<algebra, history, unread>>]
NoSeries == [e \in Exports |-> <<>>]
MCUploads == {<<june, FileName>>, <<july, {"people", "sessions"}>>}
OneUpload == {<<june, {"people", "sessions"}>>}
Interchangeable == Permutations(Runs)
=============================================================================
