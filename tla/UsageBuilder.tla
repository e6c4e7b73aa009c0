---------------------------- MODULE UsageBuilder ----------------------------
(***************************************************************************)
(* The "Usage Builder" tab of a module's page: rows of inputs, from which  *)
(* a call of the module is generated as Terraform.                         *)
(*                                                                         *)
(* Typing into an input and the keyup event that follows are two events of *)
(* the browser, and a value that is pasted or dropped has no keyup at all. *)
(* The inputs of a row are what the DOM holds; rows of optional variables  *)
(* are hidden by the search of the DataTable until its button is pressed.  *)
(* Values are sequences of characters, <<>> is the empty input.            *)
(***************************************************************************)
EXTENDS Naturals, Sequences, SequencesExt

CONSTANTS
    Value,      \* what a user types
    Choice,     \* the choices of select rows, with what they stand for
    Variables,  \* the variables a module may have: sequences of rows
    MaxInputs   \* bound: inputs of a list row

RowTypes == {"text", "number", "list", "boolean", "select", "static"}

Row == [type : RowTypes, required : BOOLEAN, quoted : BOOLEAN,
        default : {"none", "true", "false", "null"}, choices : Seq(DOMAIN Choice),
        custom : BOOLEAN, value : Seq(STRING)]

\* A select row has choices.
ASSUME UsageAssumption ==
    /\ Variables \subseteq Seq(Row)
    /\ \A r \in Variables : \A n \in DOMAIN r : r[n].type = "select" => r[n].choices # <<>>
    /\ <<>> \in Value
    /\ MaxInputs \in Nat \ {0}

Undefined == <<"undefined">>
Custom == "custom"

\* What the inputs of one row hold; each kind of row uses some of it.
NoInput == [values |-> <<<<>>>>, checked |-> FALSE, shown |-> TRUE, choice |-> Custom]

VARIABLES
    row,       \* the variables of the module, never changed
    input,     \* what the inputs of each row hold
    optional,  \* usageBuilderUseOptional, and whether optional rows are shown
    output     \* what "Generate Terraform" last put on the page

usageVars == <<row, input, optional, output>>

Rows == DOMAIN row

-----------------------------------------------------------------------------
NotEmpty(v) == v # <<>>

\* The elements of a list at some of its positions, in their order.
Sublist(list, positions) ==
    LET upTo[n \in 0..Len(list)] ==
            IF n = 0 THEN <<>>
            ELSE IF n \in positions THEN Append(upTo[n - 1], list[n])
            ELSE upTo[n - 1]
    IN  upTo[Len(list)]

NonEmpty(list) == Sublist(list, {n \in DOMAIN list : NotEmpty(list[n])})

\* quoteString: backslashes and double quotes are escaped.
QuoteString(i, v) ==
    IF row[i].quoted /\ v # Undefined
    THEN <<"\"">> \o FlattenSeq([n \in DOMAIN v |->
             CASE v[n] = "\\" -> <<"\\", "\\">>
               [] v[n] = "\"" -> <<"\\", "\"">>
               [] OTHER -> <<v[n]>>]) \o <<"\"">>
    ELSE v

\* escapeHtml, on the characters that values have.  The result is put on the
\* page with text(), so that this is what the user reads.
EscapeHtml(v) ==
    [n \in DOMAIN v |-> CASE v[n] = "\"" -> "&quot;"
                          [] v[n] = "/" -> "&#x2F;"
                          [] OTHER -> v[n]]

\* A boolean row that is optional and has no default starts as "null".
Nullable(i) == row[i].type = "boolean" /\ ~row[i].required /\ row[i].default = "null"

\* getInputRow and generateInputDiv of each kind of row.
NewInput(i) ==
    [NoInput EXCEPT !.checked = row[i].default = "true",
                    !.shown = ~Nullable(i),
                    !.choice = IF row[i].type = "select" THEN row[i].choices[1] ELSE Custom]

\* The rows that the user sees: static rows never, optional ones on demand.
Visible(i) == row[i].type # "static" /\ (row[i].required \/ optional)

UsageInit ==
    /\ row \in Variables
    /\ input = [i \in Rows |-> NewInput(i)]
    /\ optional = FALSE
    /\ output = <<>>

-----------------------------------------------------------------------------
\* The user changes one input, by whatever means.
Enter(i, k, v) ==
    /\ Visible(i) /\ row[i].type \in {"text", "number", "list", "select"}
    /\ k \in DOMAIN input[i].values
    /\ row[i].type = "select" => input[i].choice = Custom
    /\ input' = [input EXCEPT ![i].values[k] = v]
    /\ UNCHANGED <<row, optional, output>>

\* A fault: the last input is removed as well when it is empty.
ListAfterKeyup_RemovesLast(list) ==
    NonEmpty(list) \o (IF NotEmpty(Last(list)) THEN <<<<>>>> ELSE <<>>)

\* The keyup handler of list rows, over the inputs as it finds them: all but
\* the last are removed if empty, and the last is cloned unless it is.
ListAfterKeyup(list) ==
    NonEmpty(Front(list)) \o <<Last(list)>>
        \o (IF NotEmpty(Last(list)) THEN <<<<>>>> ELSE <<>>)

\* Bound: MaxInputs.
Keyup(i) ==
    /\ Visible(i) /\ row[i].type = "list"
    /\ Len(ListAfterKeyup(input[i].values)) <= MaxInputs
    /\ input' = [input EXCEPT ![i].values = ListAfterKeyup(@)]
    /\ UNCHANGED <<row, optional, output>>

\* The checkbox of a boolean row, and its links "Modify" and "Undo".
Check(i) ==
    /\ Visible(i) /\ row[i].type = "boolean" /\ input[i].shown
    /\ input' = [input EXCEPT ![i].checked = ~@]
    /\ UNCHANGED <<row, optional, output>>

Modify(i) ==
    /\ Visible(i) /\ Nullable(i)
    /\ input' = [input EXCEPT ![i] = [NewInput(i) EXCEPT !.shown = ~input[i].shown]]
    /\ UNCHANGED <<row, optional, output>>

\* The custom input is hidden when another choice is selected, not cleared:
\* the assignment to ".value" sets a property of the jQuery object.
Select(i, c) ==
    /\ Visible(i) /\ row[i].type = "select"
    /\ c \in Range(row[i].choices) \cup (IF row[i].custom THEN {Custom} ELSE {})
    /\ c # input[i].choice
    /\ input' = [input EXCEPT ![i].choice = c]
    /\ UNCHANGED <<row, optional, output>>

\* The button "Show Optional Variables".
ShowOptional ==
    /\ optional' = ~optional
    /\ UNCHANGED <<row, input, output>>

-----------------------------------------------------------------------------
\* The values of a list row, each of which is an element of the list.
ListValues(i) == NonEmpty(input[i].values)

\* What a select row uses: the choice, or what is found under the id of the
\* custom input without its "#", which is nothing.
SelectedChoice(i) == IF input[i].choice = Custom THEN Undefined ELSE Choice[input[i].choice]

\* _getTerraformContent of each kind: whether the row has a line to add.
TextHasLine(i)    == row[i].required \/ NotEmpty(input[i].values[1])
ListHasLine(i)    == row[i].required \/ NotEmpty(ListValues(i))
SelectHasLine(i)  == row[i].required \/ NotEmpty(SelectedChoice(i))
BooleanHasLine(i) ==
    /\ input[i].shown
    /\ row[i].default = "null" \/ input[i].checked # (row[i].default = "true")

\* getTerraformContent: optional rows are left out unless they are shown.
Generates(i) ==
    /\ row[i].required \/ optional
    /\ row[i].type \in {"text", "number"} => TextHasLine(i)
    /\ row[i].type = "list" => ListHasLine(i)
    /\ row[i].type = "boolean" => BooleanHasLine(i)
    /\ row[i].type = "select" => SelectHasLine(i)

\* A fault: the last input of a list is taken for the empty one.
Argument_LosesLast(i) ==
    CASE row[i].type = "list" -> [k \in DOMAIN Front(input[i].values) |->
                                     QuoteString(i, input[i].values[k])]
      [] OTHER -> <<QuoteString(i, input[i].values[1])>>

\* The value a row assigns to its variable: elements of a list, or one value.
Argument(i) ==
    CASE row[i].type = "list" -> [k \in DOMAIN ListValues(i) |-> QuoteString(i, ListValues(i)[k])]
      [] row[i].type = "text" -> <<QuoteString(i, input[i].values[1])>>
      [] row[i].type = "number" -> <<input[i].values[1]>>
      [] row[i].type = "boolean" -> <<IF input[i].checked THEN <<"true">> ELSE <<"false">>>>
      [] row[i].type = "select" -> <<QuoteString(i, SelectedChoice(i))>>
      [] OTHER -> <<QuoteString(i, row[i].value)>>

\* updateUsageBuilderOutput: the lines of the rows in their order, escaped.
GenerateTerraform ==
    /\ output' = LET lines == Sublist([i \in Rows |-> i], {i \in Rows : Generates(i)})
                 IN  [n \in DOMAIN lines |->
                        [row |-> lines[n],
                         text |-> [k \in DOMAIN Argument(lines[n]) |->
                                      EscapeHtml(Argument(lines[n])[k])]]]
    /\ UNCHANGED <<row, input, optional>>

UsageNext ==
    \/ \E i \in Rows : \/ \E k \in 1..MaxInputs, v \in Value : Enter(i, k, v)
                       \/ Keyup(i) \/ Check(i) \/ Modify(i)
                       \/ \E c \in DOMAIN Choice \cup {Custom} : Select(i, c)
    \/ ShowOptional
    \/ GenerateTerraform

UsageSpec == UsageInit /\ [][UsageNext]_usageVars

-----------------------------------------------------------------------------
UsageTypeOK ==
    /\ row \in Variables
    /\ \A i \in Rows :
          /\ row[i].type \in RowTypes
          /\ input[i].values \in Seq(Value) /\ Len(input[i].values) \in 1..MaxInputs
          /\ input[i].checked \in BOOLEAN /\ input[i].shown \in BOOLEAN
          /\ input[i].choice \in DOMAIN Choice \cup {Custom}
    /\ optional \in BOOLEAN
    /\ \A n \in DOMAIN output : output[n].row \in Rows

\* A list row changes in two ways only.  Either one input gets another value,
\* or inputs come and go and then the values are the same, in the same
\* order, and there is one empty input, the last (the keyup handler).
ListsKeepValues ==
    [][\A i \in Rows :
         LET old == input[i].values
             new == input'[i].values
         IN  \/ Len(new) = Len(old) /\ \E k \in DOMAIN old : new = [old EXCEPT ![k] = new[k]]
             \/ new = NonEmpty(old) \o <<<<>>>>]_usageVars

\* The Terraform that is generated follows what the user sees at that moment:
\* a row with something typed into it is there, with all its values, exactly
\* if the row is shown; also values that no keyup event followed.
OutputFollowsInputs ==
    [][output' # output =>
         \A i \in Rows :
            /\ row[i].type \in {"text", "number", "list"}
            /\ ListValues(i) # <<>>
            => /\ Visible(i) <=> \E n \in DOMAIN output' : output'[n].row = i
               /\ \A n \in DOMAIN output' :
                     output'[n].row = i => Len(output'[n].text) = Len(ListValues(i))]_usageVars

\* "A plain input text box for users to provide a value that it directly used
\* as the 'terraform input'" (docs/modules/best_practices.md:95): what is
\* generated for a text row is the value, in quotes where these are asked for.
TextIsUsedDirectly ==
    [][output' # output =>
         \A n \in DOMAIN output' :
            row[output'[n].row].type = "text" =>
               output'[n].text = <<QuoteString(output'[n].row, input[output'[n].row].values[1])>>]_usageVars
=============================================================================
