------------------------------- MODULE MCClient -------------------------------
EXTENDS ClientProperties, TLC

Symmetry == Permutations(Calls)

Field(i, type, len) ==
  [id |-> i, type |-> type, len |-> len, num |-> 0, dates |-> TRUE]

Frame(status_, fields) ==
  [status |-> status_, count |-> Len(fields), fields |-> fields]

\* The SUCCESS response of each kind of command.
Good == [cmd \in Commands |->
  Frame("SUCCESS",
    CASE cmd \in Scalars \cup Flags -> <<Field(1, Number, 1)>>
      [] cmd = "GetPropRoomDay" ->
           <<Field(1, String, 5), Field(2, String, 10), Field(3, Number, 1),
             Field(4, Fixed, 4), Field(5, Fixed, 4)>>
      [] cmd = "GetCodecs" -> <<Field(1, Yaml, 9)>>
      [] cmd = "SearchAvail" -> <<Field(1, Number, 2)>>
      [] OTHER -> <<>>)]

Refusal == Frame("ERROR", <<Field(1, String, 12)>>)

\* The router answers SUCCESS, or an error with its text ...
AnyAnswer == [cmd \in Commands |-> {Good[cmd], Refusal}]
\* ... or nothing but SUCCESS.
OnlySuccess == [cmd \in Commands |-> {Good[cmd]}]

\* A torn response: the fields other than they were, or lost, the status too.
AnyTorn == [cmd \in Commands |-> {Good[cmd], Frame("SUCCESS", <<>>), NoResponse}]
=============================================================================
