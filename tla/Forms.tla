-------------------------------- MODULE Forms --------------------------------
(***************************************************************************)
(* A form from the agent's builder (src/formbuilder.go) through the page   *)
(* that asks for it (src/server/ui.go, src/server/renderers.go), what the  *)
(* browser sends, the server's parser (ui.go), encryption (src/crypto.go), *)
(* polling (src/client.go) and the webhook (src/webhooks.go), to the typed *)
(* getters.  The other types of requests have fixed pages and take the     *)
(* same way without a builder.                                             *)
(*                                                                         *)
(* A value is a JSON or Go type with the words it is written in.           *)
(***************************************************************************)
EXTENDS SequencesExt

CONSTANTS
    Ids,        \* field ids
    MaxFields,  \* bound on the fields of a form
    Absent      \* Go's nil; what is not there

ValueTypes == {"string", "int", "float", "number", "bool", "list", "null"}

(* What is entered in controls, sent by the page's buttons and kept. *)
ValueWords ==
    {"", "text", "on", "0", "7", "true", "false", "a", "b", "object", "null", "garbage",
     "approve", "deny", "request_changes", "post_selected", "rerun", "reject"}

ASSUME FormAssumption ==
    /\ MaxFields \in Nat
    /\ Absent \notin Ids /\ Absent \notin [type : ValueTypes, words : Seq(ValueWords)]

VARIABLES
    stage,    \* "build", "asked", "entered" or "answered"
    page,     \* the request's type
    fields,   \* the builder's fields, or the controls of a fixed page
    types,    \* the builder's types, by id
    client,   \* the keys the client has been made with
    entry,    \* what the human has entered, by control
    stored    \* the server's Response

formVars == <<stage, page, fields, types, client, entry, stored>>

Is(type, words) == [type |-> type, words |-> words]
Null == Is("null", <<>>)

-----------------------------------------------------------------------------
(* The builder.                                                            *)

TextKinds == {"input", "textarea", "date", "select", "radio-group"}
Kinds == TextKinds \cup {"number", "slider", "checkbox", "switch", "checkbox-group"}

(* The type each method gives its field. *)
TypeOfKind(kind) == CASE kind \in TextKinds -> "string"
                      [] kind \in {"number", "slider"} -> "float"
                      [] kind \in {"checkbox", "switch"} -> "bool"
                      [] kind = "checkbox-group" -> "list"

(* Preset values of hidden fields, by their Go type. *)
Presets == {Is("string", <<"text">>), Is("int", <<"7">>), Is("float", <<"7">>), Is("bool", <<"true">>)}

(* inferHiddenType: everything else is a string. *)
InferHiddenType(value) == value.type

Control(kind, id, value, inForm) == [kind |-> kind, id |-> id, value |-> value, inForm |-> inForm]

FormInit ==
    /\ stage = "build"
    /\ page = "form-builder"
    /\ fields = <<>>
    /\ types = [id \in Ids |-> Absent]
    /\ client = "none"
    /\ entry = <<>>
    /\ stored = Absent

(* Mutant of AddField: an id keeps the type it was given first. *)
AddFieldFirstType(field, type) ==
    /\ stage = "build"
    /\ Len(fields) < MaxFields
    /\ fields' = Append(fields, field)
    /\ types' = [types EXCEPT ![field.id] = IF @ = Absent THEN type ELSE @]
    /\ UNCHANGED <<stage, page, client, entry, stored>>

AddField(field, type) ==
    /\ stage = "build"
    /\ Len(fields) < MaxFields
    /\ fields' = Append(fields, field)
    /\ types' = [types EXCEPT ![field.id] = type]
    /\ UNCHANGED <<stage, page, client, entry, stored>>

(* Input, Number, Textarea, Select, RadioGroup, Checkbox, CheckboxGroup,   *)
(* Switch, Slider and Date. *)
Add(kind, id) == AddField(Control(kind, id, Absent, TRUE), TypeOfKind(kind))

Hidden(id, value) == AddField(Control("hidden", id, value, TRUE), InferHiddenType(value))

(* The controls of the fixed pages. *)
ApprovalForm ==
    <<Control("textarea", "comment", Absent, TRUE),
      Control("button", "decision", {"approve", "deny"}, TRUE)>>

PlanReviewForm ==
    <<Control("textarea", "feedback", Absent, TRUE),
      Control("button", "decision", {"approve", "request_changes"}, TRUE)>>

(* The checkboxes of the findings are written before the <form> begins. *)
PraFReviewForm ==
    <<Control("checkbox-group", "findings_to_post", Absent, FALSE),
      Control("textarea", "instructions", Absent, TRUE),
      Control("button", "action", {"post_selected", "rerun", "reject"}, TRUE)>>

GenericForm == <<Control("json", "_generic_json", Absent, TRUE)>>

ResponseForm(t) ==
    CASE t = "approval"    -> ApprovalForm
      [] t = "plan-review" -> PlanReviewForm
      [] t = "pr-review"   -> PraFReviewForm
      [] t = "generic"     -> GenericForm

Pages == {"form-builder", "approval", "plan-review", "pr-review", "generic"}

(* NewClient's encryption options: none, a passphrase, a public key only;  *)
(* or the passphrase of the reader is not that of the sender. *)
Clients == {"none", "passphrase", "public", "changed"}

(* CreateFormRequest, or CreateRequest for a fixed page. *)
Ask(t, c) ==
    /\ stage = "build"
    /\ t = "form-builder" \/ fields = <<>>
    /\ stage' = "asked"
    /\ page' = t
    /\ fields' = IF t = "form-builder" THEN fields ELSE ResponseForm(t)
    /\ client' = c
    /\ UNCHANGED <<types, entry, stored>>

-----------------------------------------------------------------------------
(* The page and the browser.                                               *)

(* renderFormField writes the value of a hidden field if it is a string;   *)
(* the builder's value has been through JSON.                              *)
HiddenAttribute(value) == IF value.type = "string" THEN value.words ELSE <<"">>

(* What a browser sends for each kind of control, by what the human does. *)
Entries(f) ==
    CASE f.kind \in {"input", "textarea"} -> {<<"">>, <<"text">>, <<"on">>}
      [] f.kind \in {"date", "select"} -> {<<"">>, <<"text">>}
      [] f.kind = "radio-group" -> {<<>>, <<"text">>}
      [] f.kind = "number" -> {<<"">>, <<"7">>}
      [] f.kind = "slider" -> {<<"0">>, <<"7">>}
      [] f.kind \in {"checkbox", "switch"} -> {<<>>, <<"on">>}
      [] f.kind = "checkbox-group" -> {<<>>, <<"a">>, <<"a", "b">>}
      [] f.kind = "button" -> {<<v>> : v \in f.value}
      [] f.kind = "json" -> {<<"">>, <<"object">>, <<"null">>, <<"garbage">>}
      [] f.kind = "hidden" -> {HiddenAttribute(f.value)}

(* r.Form: the values under a name, in the order of the page. *)
Form(name) ==
    FlattenSeq([i \in DOMAIN fields |->
        IF fields[i].id = name /\ fields[i].inForm THEN entry[i] ELSE <<>>])

Get(name) == IF Form(name) = <<>> THEN "" ELSE Head(Form(name))

-----------------------------------------------------------------------------
(* buildResponseFromForm.                                                  *)

Float(word) == Is("number", <<IF word = "" THEN "0" ELSE word>>)

ListOrNull(words) == IF words = <<>> THEN Null ELSE Is("list", words)

(* Mutant of ParseFieldValue: a group is read like a single field. *)
ParseFieldValueFirst(kind, id) ==
    CASE kind \in {"checkbox", "switch"} ->
            Is("bool", <<IF Get(id) \in {"on", "true"} THEN "true" ELSE "false">>)
      [] kind \in {"number", "slider"} -> Float(Get(id))
      [] OTHER -> Is("string", <<Get(id)>>)

ParseFieldValue(kind, id) ==
    CASE kind \in {"checkbox", "switch"} ->
            Is("bool", <<IF Get(id) \in {"on", "true"} THEN "true" ELSE "false">>)
      [] kind \in {"number", "slider"} -> Float(Get(id))
      [] kind = "checkbox-group" -> ListOrNull(Form(id))
      [] OTHER -> Is("string", <<Get(id)>>)

Optional(name) == IF Get(name) = "" THEN <<>> ELSE <<<<name, Is("string", <<Get(name)>>)>>>>

Member(name) == <<<<name, Is("string", <<Get(name)>>)>>>>

(* The response as pairs of names and values; later pairs overwrite. *)
Response ==
    CASE page = "form-builder" ->
            [i \in DOMAIN fields |-> <<fields[i].id, ParseFieldValue(fields[i].kind, fields[i].id)>>]
      [] page = "approval" -> Member("decision") \o Optional("comment")
      [] page = "plan-review" -> Member("decision") \o Optional("feedback")
      [] page = "pr-review" ->
            Member("action") \o <<<<"findings_to_post", ListOrNull(Form("findings_to_post"))>>>>
                             \o Optional("instructions")
      [] page = "generic" ->
            IF Get("_generic_json") = "object"
            THEN <<<<"_generic_json", Is("string", <<"object">>)>>>> ELSE <<>>

(* A generic answer whose JSON is null, or an admin's without a response. *)
Nil(answer) == answer = "admin" \/ (page = "generic" /\ Get("_generic_json") = "null")

(* Mutant of Store: only the values of a form are encrypted. *)
StoreValues(answer, fits) ==
    [nil |-> Nil(answer),
     pairs |-> IF Nil(answer) THEN <<>> ELSE Response,
     enc |-> IF client = "none" \/ ~fits THEN "no" ELSE IF page = "form-builder" THEN "values" ELSE "whole"]

(* EncryptWithPublicKey fails on what does not fit the key, and the caller *)
(* drops the error. *)
Encryption(fits) == IF client = "none" \/ ~fits THEN "no" ELSE "whole"

(* handleUIRespond and handleAdminRespond: with a key the whole response   *)
(* is encrypted. *)
Store(answer, fits) ==
    [nil |-> Nil(answer),
     pairs |-> IF Nil(answer) THEN <<>> ELSE Response,
     enc |-> Encryption(fits)]

(* What a human enters and submits on the page. *)
Enter ==
    /\ stage = "asked"
    /\ stage' = "entered"
    /\ entry' \in {e \in [DOMAIN fields -> UNION {Entries(fields[i]) : i \in DOMAIN fields}] :
                     \A i \in DOMAIN fields : e[i] \in Entries(fields[i])}
    /\ UNCHANGED <<page, fields, types, client, stored>>

(* fits: the response is short enough to be encrypted with the key. *)
Answer(answer, fits) ==
    /\ stage = "entered"
    /\ stage' = "answered"
    /\ stored' = Store(answer, fits)
    /\ UNCHANGED <<page, fields, types, client, entry>>

FormNext ==
    \/ \E id \in Ids : \/ \E kind \in Kinds : Add(kind, id)
                       \/ \E value \in Presets : Hidden(id, value)
    \/ \E t \in Pages, c \in Clients : Ask(t, c)
    \/ Enter
    \/ \E answer \in {"page", "admin"}, fits \in BOOLEAN : Answer(answer, fits)

FormSpec == FormInit /\ [][FormNext]_formVars

-----------------------------------------------------------------------------
(* What the agent reads: by polling, or from the request.completed event.  *)

Cipher == [nil |-> FALSE, pairs |-> <<>>, enc |-> "whole"]
Plain == [stored EXCEPT !.enc = "no"]

(* decryptResponseField, in both of its formats; a key that does not fit   *)
(* leaves the response as it is. *)
DecryptResponseField ==
    CASE stored.enc = "no" -> stored
      [] client = "passphrase" -> Plain
      [] OTHER -> Cipher

(* ParseEvent knows the first format, and keeps what is not an object. *)
ParseEvent ==
    CASE stored.enc = "no" -> stored
      [] stored.enc = "whole" /\ client = "passphrase" /\ ~stored.nil -> Plain
      [] OTHER -> Cipher

(* What the response holds under a name: the last of its values. *)
Value(response, name) ==
    LET at == {i \in DOMAIN response.pairs : response.pairs[i][1] = name}
    IN  IF at = {} THEN Absent ELSE response.pairs[Max(at)][2]

Zero(type) == CASE type = "string" -> Is("string", <<"">>)
                [] type \in {"float", "int"} -> Is("number", <<"0">>)
                [] type = "bool" -> Is("bool", <<"false">>)
                [] type = "list" -> Is("list", <<>>)

(* GetString, GetFloat, GetInt, GetBool and GetStringSlice of what         *)
(* ParseResponse keeps: a value of another type counts as absent.          *)
Getter(type, value) ==
    IF value # Absent /\ value.type = Zero(type).type THEN value ELSE Zero(type)

(* ParseResponse of a decrypted response, as FormRequestHandle's            *)
(* WaitForResponse does, and the getter of the field's type. *)
Field(response, id) == Getter(types[id], Value(response, id))

-----------------------------------------------------------------------------
(* The builder knows the type of each of its fields: that of the last one  *)
(* with the id, when an id is used twice. *)
FormTypeOK ==
    /\ stage \in {"build", "asked", "entered", "answered"}
    /\ page \in Pages
    /\ client \in Clients
    /\ page = "form-builder" =>
        \A id \in Ids :
            \/ types[id] = Absent /\ \A i \in DOMAIN fields : fields[i].id # id
            \/ \E i \in DOMAIN fields :
                /\ fields[i].id = id /\ \A j \in DOMAIN fields : j > i => fields[j].id # id
                /\ types[id] = IF fields[i].kind = "hidden" THEN fields[i].value.type
                               ELSE TypeOfKind(fields[i].kind)
    /\ stage \in {"entered", "answered"} => DOMAIN entry = DOMAIN fields
    /\ IF stage = "answered" THEN stored.nil \in BOOLEAN ELSE stored = Absent

(* What is meant by a field: the preset of a hidden one, as the value that *)
(* the getter of its inferred type returns, or the human's entry. *)
Meant(f, e) ==
    CASE f.kind = "hidden" -> Is(Zero(f.value.type).type, f.value.words)
      [] f.kind \in {"number", "slider"} -> IF e = <<"">> THEN Zero("float") ELSE Is("number", e)
      [] f.kind \in {"checkbox", "switch"} -> Is("bool", <<IF e = <<>> THEN "false" ELSE "true">>)
      [] f.kind = "checkbox-group" -> Is("list", e)
      [] f.kind = "json" -> IF e = <<"object">> THEN Is("string", e) ELSE Zero("string")
      [] OTHER -> IF e = <<>> THEN Zero("string") ELSE Is("string", e)

Readable == /\ stage = "answered"
            /\ ~stored.nil
            /\ stored.enc = "no" \/ client = "passphrase"

HasOwnId(i) == \A j \in DOMAIN fields \ {i} : fields[j].id # fields[i].id

(* What the human enters is what the agent's typed getters return, through *)
(* the page, the browser, the parser, encryption, JSON and either          *)
(* decryption: for each field of a form whose id is its own, unless it is  *)
(* hidden and holds no string (HiddenPresetsComeBack), and each control    *)
(* that stands in the <form> of a fixed page, as the findings of a PR      *)
(* review do not (SelectedFindingsArePosted). *)
RoundTrip ==
    Readable =>
        \A i \in DOMAIN fields, response \in {DecryptResponseField, ParseEvent} :
            LET f == fields[i]
            IN  IF page = "form-builder"
                THEN HasOwnId(i) /\ (f.kind = "hidden" => f.value.type = "string") =>
                        Field(response, f.id) = Meant(f, entry[i])
                ELSE f.inForm => Getter("string", Value(response, f.id)) = Meant(f, entry[i])

(* An agent that polls and one that handles request.completed read the     *)
(* same response, whatever their keys: the two decrypt in different code,  *)
(* which knows different formats.  Only an encrypted null stays encrypted  *)
(* in the event. *)
PollAndWebhookAgree ==
    stage = "answered" /\ ~(stored.nil /\ stored.enc = "whole" /\ client = "passphrase") =>
        DecryptResponseField = ParseEvent

(* formbuilder.go:150: "Hidden adds a hidden field with a preset value.    *)
(* The output type is inferred from the value type."  So the getter of     *)
(* that type returns the preset. *)
HiddenPresetsComeBack ==
    Readable /\ page = "form-builder" =>
        \A i \in DOMAIN fields :
            fields[i].kind = "hidden" /\ HasOwnId(i) =>
                Field(DecryptResponseField, fields[i].id) = Meant(fields[i], entry[i])

(* renderers.go:173: the response of a PR review has the findings that the *)
(* human has ticked. *)
SelectedFindingsArePosted ==
    Readable /\ page = "pr-review" =>
        \A i \in DOMAIN fields :
            fields[i].id = "findings_to_post" /\ entry[i] # <<>> =>
                Value(DecryptResponseField, "findings_to_post") = Is("list", entry[i])

=============================================================================
