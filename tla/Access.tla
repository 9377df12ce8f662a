------------------------------- MODULE Access -------------------------------
(***************************************************************************)
(* What an API token lets a client do: the token form that mints it, the   *)
(* lookup that turns a presented token into scopes and a bound on forms,   *)
(* the fourteen tools of the MCP server as the store statements each runs, *)
(* and the search index the tools read through.  Between two statements of *)
(* a call the admin, the public and the clock go on: forms and submissions *)
(* come and go, the token is revoked or expires, the process restarts.     *)
(*                                                                         *)
(* A text is a sequence of the characters of Redact; Address is an IP      *)
(* address, Network a CIDR network and AddressPort an address with a port. *)
(***************************************************************************)
EXTENDS Redact

CONSTANTS Forms,         \* ids of forms, never used twice
          Subs,          \* ids of submissions
          Tokens,        \* ids of API tokens
          Rules,         \* the block rules a client may ask for: [type, value]
          None,          \* no submission, no form
          FormOf,        \* the form each submission is posted to
          Typed,         \* what was posted: [fields, ip, signals]
          ScopeChoices,  \* the scope boxes ticked on the token form
          ScopeNames     \* the three scopes

ASSUME FormOfAssumption == FormOf \in [Subs -> Forms] /\ IsFiniteSet(Subs)
ASSUME NoneAssumption == None \notin Subs \cup Forms
ASSUME TypedAssumption ==
    \A s \in Subs :
        /\ Typed[s].fields \in [DOMAIN Typed[s].fields -> Seq(Characters)]
        /\ DOMAIN Typed[s].fields \subseteq Seq(Characters)
        /\ \A sig \in Typed[s].signals : sig.field \in Seq(Characters) /\ sig.match \in Seq(Characters)
ASSUME TokenAssumption == ScopeNames = {"read", "write", "delete"}

VARIABLES form,   \* [Forms -> {"none", "live", "gone"}]
          row,    \* [Subs -> Row]
          rules,  \* the filter rules
          index,  \* the submissions submissions_fts has a document for
          up,     \* whether the process runs
          token,  \* [Tokens -> Token]
          mint,   \* a validated choice about to be inserted
          call,   \* the tool call in progress
          astray  \* history: what the file in place was indexed wrong in, uncounted

vars == <<form, row, rules, index, up, token, mint, call, astray>>

Address     == <<"address">>
AddressPort == <<"address", "port">>
Network     == <<"address", "bits">>

LooksLikeAddress(text) == text \in {Address, Network}

(* A rule is stored once its value is validated for its type: that of an   *)
(* ip or cidr rule is an address or a network.                             *)
AddressRules == {"ip", "cidr"}

ASSUME RulesAssumption ==
    \A r \in Rules : r.type \in AddressRules => LooksLikeAddress(r.value)

---------------------------------------------------------------------------
(* Form scopes, the one type every scoped statement takes.                 *)

AllForms == [all |-> TRUE, ids |-> {}]

OnlyForms(ids) == [all |-> FALSE, ids |-> ids]

(* A token's form_ids column: nothing recorded reaches every form. *)
ParseFormScope(column) == IF column = {} THEN AllForms ELSE OnlyForms(column)

Allows(scope, f) == scope.all \/ f \in scope.ids

FormScopes == [all : BOOLEAN, ids : SUBSET Forms]

---------------------------------------------------------------------------
(* The rows.                                                               *)

NoRow == [state |-> "none", read |-> FALSE, why |-> {}]

Row == [state : {"none", "inbox", "held", "gone"}, read : BOOLEAN,
        why : SUBSET {"screened", "manual"}]

Exists(rs) == {s \in Subs : rs[s].state \in {"inbox", "held"}}

Live == {f \in Forms : form[f] = "live"}

Gone(rs, S) == [s \in Subs |-> IF s \in S \cap Exists(rs) THEN [NoRow EXCEPT !.state = "gone"] ELSE rs[s]]

(* Triggers keep the index in step with every row written, whoever writes. *)
Changed(rs) == {s \in Subs : rs[s] # row[s]}

Write(rs) == /\ row' = rs
             /\ index' = (index \ Changed(rs)) \cup (Changed(rs) \cap Exists(rs))

\* Mutant: COUNT(*) FROM submissions_fts, which counts the content table.
SyncedIndex_CountsContent(rows, docs) == docs

(* At start-up the index is rebuilt when it does not count the rows. *)
SyncedIndex(rows, docs) == IF Cardinality(rows) = Cardinality(docs) THEN docs ELSE rows

(* What one set has and the other has not. *)
Apart(docs, rows) == (docs \ rows) \cup (rows \ docs)

---------------------------------------------------------------------------
(* What the statements read, as functions of the tables.                   *)

Inbox(rs) == {s \in Exists(rs) : rs[s].state = "inbox"}

Held(rs) == {s \in Exists(rs) : rs[s].state = "held"}

In(rows, scope) == {s \in rows : Allows(scope, FormOf[s])}

ListForms(fs, rs, scope) ==
    {[form |-> f, unread |-> Cardinality({s \in Inbox(rs) : FormOf[s] = f /\ ~rs[s].read})]
        : f \in {g \in fs : Allows(scope, g)}}

\* Mutant: the scope on the joined submissions, not on the forms.
PerFormStats_ScopedJoin(fs, rs, scope) ==
    LET count(f, rows) == Cardinality({s \in In(rows, scope) : FormOf[s] = f})
    IN  {[form |-> f, received |-> count(f, Inbox(rs)), held |-> count(f, Held(rs)),
          unread |-> count(f, {s \in Inbox(rs) : ~rs[s].read}),
          read |-> count(f, {s \in Inbox(rs) : rs[s].read})] : f \in fs}

PerFormStats(fs, rs, scope) ==
    LET count(f, rows) == Cardinality({s \in rows : FormOf[s] = f})
    IN  {[form |-> f, received |-> count(f, Inbox(rs)), held |-> count(f, Held(rs)),
          unread |-> count(f, {s \in Inbox(rs) : ~rs[s].read}),
          read |-> count(f, {s \in Inbox(rs) : rs[s].read})]
            : f \in {g \in fs : Allows(scope, g)}}

ListSubmissionsFiltered(rs, f, status, scope) ==
    {s \in In(Inbox(rs), scope) : /\ f \in {None, FormOf[s]}
                                  /\ status = "unread" => ~rs[s].read
                                  /\ status = "read" => rs[s].read}

(* What a search may answer: as many of its matches as its limit lets in.  *)
(* They are ranked by how rare the query's words are in the whole index,   *)
(* so any of them may come first.                                          *)
SearchSubmissions(fs, rs, docs, matches, limit, scope) ==
    LET found == {s \in In(Inbox(rs), scope) : s \in docs \cap matches /\ FormOf[s] \in fs}
    IN  {answer \in SUBSET found : \/ Cardinality(answer) = limit
                                   \/ answer = found /\ Cardinality(found) <= limit}

HeldSubmissionsWhere(rs, filter) == In(Held(rs), filter)

CountHeld(rs, filter) == Cardinality(HeldSubmissionsWhere(rs, filter))

(* Waitlists belong to no form: a bounded token is not told their size. *)
NavCounts(rs, scope) ==
    [unread |-> Cardinality({s \in In(Inbox(rs), scope) : ~rs[s].read}),
     held |-> CountHeld(rs, scope), waitlistKnown |-> scope.all]

CountAllSubmissions(rs, scope) == Cardinality(In(Inbox(rs), scope))

HeldSince(rs, scope) == [held |-> CountHeld(rs, scope), total |-> Cardinality(In(Exists(rs), scope))]

SubmissionsPerDay(rs, scope) == [accepted |-> CountAllSubmissions(rs, scope), held |-> CountHeld(rs, scope)]

TopSpamSignals(rs, scope) ==
    [check \in {"screened", "manual"} |->
        Cardinality({s \in In(Exists(rs), scope) : check \in rs[s].why})]

(* By id alone, for rows an earlier statement of the call returned. *)
SubmissionSignals(rs, rows) == {<<s, rs[s].why>> : s \in rows \cap Exists(rs)}

(* inScope: an id in another form is answered as one that does not exist. *)
GetInScope(rs, s, scope) == {rs[x] : x \in In(Exists(rs) \cap {s}, scope)}

---------------------------------------------------------------------------
(* The shapes a client is sent.                                            *)

SanitiseIP(stored) ==
    CASE stored = <<>>                          -> [ip |-> <<>>, withheld |-> FALSE]
      [] stored \in {Address, AddressPort}      -> [ip |-> Address, withheld |-> FALSE]
      [] OTHER                                  -> [ip |-> <<>>, withheld |-> TRUE]

ToSubmission(IncludeIPs, s) ==
    [shown |-> Fields(Typed[s].fields),
     ip    |-> IF IncludeIPs THEN SanitiseIP(Typed[s].ip)
               ELSE [ip |-> <<>>, withheld |-> Typed[s].ip # <<>>]]

\* Mutant: a field name is cleaned and shown.
ToSignal_CleansTheName(IncludeIPs, sig) ==
    [check |-> sig.check, field |-> Value(sig.field).text, fieldWithheld |-> FALSE,
     match |-> IF IncludeIPs THEN Value(sig.match).text ELSE <<>>]

(* One recorded reason.  A field name that needed cleaning is withheld:    *)
(* cleaned, it could name another field.                                   *)
ToSignal(IncludeIPs, sig) ==
    LET field == IF Value(sig.field).text = sig.field THEN sig.field ELSE <<>>
        clean == Value(sig.match).text
        match == CASE sig.check = "repeat_ip" ->
                        IF IncludeIPs THEN SanitiseIP(sig.match).ip ELSE <<>>
                   [] sig.check # "repeat_ip" /\ ~IncludeIPs /\ LooksLikeAddress(clean) -> <<>>
                   [] OTHER -> clean
    IN  [check |-> sig.check, field |-> field, fieldWithheld |-> field # sig.field, match |-> match]

(* What add_block_rule echoes is the caller's own; a listing is not.  The  *)
(* value is withheld by the type of its rule.                              *)
ToRule(IncludeIPs, callerKnows, r) ==
    IF ~callerKnows /\ ~IncludeIPs /\ r.type \in AddressRules THEN <<>> ELSE r.value

---------------------------------------------------------------------------
(* The tools.                                                              *)

ReadTools   == {"list_forms", "list_submissions", "get_submission", "search_submissions",
                "list_quarantine", "get_stats"}
WriteTools  == {"mark_read", "mark_all_read", "mark_spam"}
DeleteTools == {"delete_submission", "delete_quarantined", "empty_quarantine"}
Tools       == ReadTools \cup WriteTools \cup DeleteTools \cup {"list_filter_rules", "add_block_rule"}

InstanceWideTools(scopes) == (IF "read" \in scopes THEN {"list_filter_rules"} ELSE {})
                             \cup (IF "write" \in scopes THEN {"add_block_rule"} ELSE {})

(* The server built for a set of scopes, and for a bound on forms or none. *)
RegisteredTools(scopes, formBound) ==
    (IF "read" \in scopes THEN ReadTools ELSE {})
    \cup (IF formBound THEN {} ELSE InstanceWideTools(scopes))
    \cup (IF "write" \in scopes THEN WriteTools ELSE {})
    \cup (IF "delete" \in scopes THEN DeleteTools ELSE {})

RequireScope(tool) ==
    CASE tool \in ReadTools \cup {"list_filter_rules"}  -> "read"
      [] tool \in WriteTools \cup {"add_block_rule"}    -> "write"
      [] tool \in DeleteTools                           -> "delete"

RequireAllForms(tool) == tool \in {"list_filter_rules", "add_block_rule"}

(* The handler's own gate, which does not trust the listing. *)
Permits(tool, scopes, reach) == /\ RequireScope(tool) \in scopes
                                /\ RequireAllForms(tool) => reach.all

(* Statements that decide nothing: their result is only in the answer. *)
Observations == {"ListForms", "PerFormStats", "CountHeld", "NavCounts", "CountAllSubmissions",
                 "HeldSince", "SubmissionsPerDay", "TopSpamSignals", "SubmissionSignals", "ListFilterRules"}

Queries == {"ListSubmissionsFiltered", "SearchSubmissions", "HeldSubmissionsWhere"}

Lookups == {"InScope", "FormKnown"}

Changes == {"MarkRead", "MarkAllRead", "MarkSpam", "DeleteSubmission", "DeleteHeld", "ClearHeld",
            "AddFilterRule"}

(* The statements each tool runs, in order. *)
list_forms         == <<"ListForms", "PerFormStats">>
list_submissions   == <<"ListSubmissionsFiltered", "ListForms">>
get_submission     == <<"InScope", "ListForms", "SubmissionSignals">>
search_submissions == <<"SearchSubmissions">>
get_stats          == <<"NavCounts", "CountAllSubmissions", "HeldSince", "PerFormStats",
                        "SubmissionsPerDay", "TopSpamSignals">>
mark_read          == <<"InScope", "MarkRead">>
mark_all_read      == <<"FormKnown", "MarkAllRead">>
mark_spam          == <<"InScope", "MarkSpam", "ListForms">>
delete_submission  == <<"InScope", "DeleteSubmission">>
delete_quarantined == <<"DeleteHeld">>

(* A form_id narrows the quarantine; without one the token's bound stands. *)
heldFilter(f) == IF f = None THEN <<>> ELSE <<"FormKnown">>

list_quarantine(f) == heldFilter(f)
                      \o <<"HeldSubmissionsWhere", "CountHeld", "ListForms", "SubmissionSignals">>

empty_quarantine(f) == heldFilter(f) \o <<"ClearHeld">>

Statements(tool, f) ==
    CASE tool = "list_forms"         -> list_forms
      [] tool = "list_submissions"   -> list_submissions
      [] tool = "get_submission"     -> get_submission
      [] tool = "search_submissions" -> search_submissions
      [] tool = "list_quarantine"    -> list_quarantine(f)
      [] tool = "get_stats"          -> get_stats
      [] tool = "mark_read"          -> mark_read
      [] tool = "mark_all_read"      -> mark_all_read
      [] tool = "mark_spam"          -> mark_spam
      [] tool = "delete_submission"  -> delete_submission
      [] tool = "delete_quarantined" -> delete_quarantined
      [] tool = "empty_quarantine"   -> empty_quarantine(f)
      [] tool = "list_filter_rules"  -> <<"ListFilterRules">>
      [] tool = "add_block_rule"     -> <<"AddFilterRule">>

Args == [sub : Subs \cup {None}, form : Forms \cup {None}, ids : SUBSET Subs,
         status : {"unread", "read", "all"}, matches : SUBSET Subs, limit : 0..Cardinality(Subs),
         expected : 0..Cardinality(Subs), rule : Rules \cup {None}]

NoArgs == [sub |-> None, form |-> None, ids |-> {}, status |-> "unread", matches |-> {}, limit |-> 0,
           expected |-> 0, rule |-> None]

(* What a tool does not refuse before it asks the store, by argument: a    *)
(* form_id that is required, one of three statuses, ids that are not none, *)
(* a count of at least one, a page of at least one row.  A query is the    *)
(* submissions whose text it matches.                                      *)
FormArgs(tool) ==
    CASE tool = "mark_all_read" -> Forms
      [] tool \in {"list_submissions", "list_quarantine", "empty_quarantine"} -> Forms \cup {None}
      [] OTHER -> {None}

StatusArgs(tool) ==
    CASE tool = "list_submissions" -> {"unread", "read", "all"}
      [] tool = "mark_read"        -> {"unread", "read"}
      [] OTHER                     -> {"unread"}

IdArgs(tool) == IF tool = "delete_quarantined" THEN (SUBSET Subs) \ {{}} ELSE {{}}

ExpectedArgs(tool) == IF tool = "empty_quarantine" THEN 1..Cardinality(Subs) ELSE {0}

LimitArgs(tool) == IF tool = "search_submissions" THEN 1..Cardinality(Subs) ELSE {0}

Arguments(tool) ==
    [sub      : IF tool \in {"get_submission", "mark_read", "mark_spam", "delete_submission"}
                THEN Subs ELSE {None},
     form     : FormArgs(tool),
     ids      : IdArgs(tool),
     status   : StatusArgs(tool),
     matches  : IF tool = "search_submissions" THEN SUBSET Subs ELSE {{}},
     limit    : LimitArgs(tool),
     expected : ExpectedArgs(tool),
     rule     : IF tool = "add_block_rule" THEN Rules ELSE {None}]

---------------------------------------------------------------------------
(* State.                                                                  *)

Token == [state : {"none", "live", "expired", "revoked"}, scopes : SUBSET ScopeNames,
          column : SUBSET Forms, asked : [all : BOOLEAN, forms : SUBSET Forms]]

NoToken == [state |-> "none", scopes |-> {}, column |-> {}, asked |-> [all |-> FALSE, forms |-> {}]]

(* A call: what its token carried when it was looked up, the statements it *)
(* has still to run, the bound of its quarantine filter, the rows it read. *)
Idle == [tool |-> "none", arg |-> NoArgs, reach |-> OnlyForms({}), filter |-> OnlyForms({}),
         todo |-> <<>>, rows |-> {}]

NoMint == [token |-> None, row |-> NoToken]

Mint == [token : Tokens \cup {None}, row : Token]

Call == [tool : Tools \cup {"none"}, arg : Args, reach : FormScopes, filter : FormScopes,
         todo : Seq(Observations \cup Queries \cup Lookups \cup Changes), rows : SUBSET Subs]

TypeOK ==
    /\ form \in [Forms -> {"none", "live", "gone"}]
    /\ row \in [Subs -> Row]
    /\ rules \subseteq Rules
    /\ index \subseteq Subs /\ astray \subseteq Subs
    /\ up \in BOOLEAN
    /\ token \in [Tokens -> Token]
    /\ mint \in Mint
    /\ call \in Call

(* A database from before there was an index: rows, and no document. *)
Init ==
    /\ form \in [Forms -> {"none", "live"}]
    /\ row \in [Subs -> {NoRow, [NoRow EXCEPT !.state = "inbox"]}]
    /\ \A s \in Exists(row) : form[FormOf[s]] = "live"
    /\ rules = {}
    /\ index = {} /\ astray = {}
    /\ up = FALSE
    /\ token = [t \in Tokens |-> NoToken]
    /\ mint = NoMint
    /\ call = Idle

---------------------------------------------------------------------------
(* Start-up, restarts, and a database file put in the place of this one.   *)

Start ==
    /\ ~up
    /\ up' = TRUE
    /\ index' = SyncedIndex(Exists(row), index)
    /\ UNCHANGED <<astray, form, row, rules, token, mint, call>>

Stop ==
    /\ up
    /\ up' = FALSE /\ call' = Idle /\ mint' = NoMint
    /\ UNCHANGED <<astray, form, row, rules, index, token>>

(* The file's own tables arrive with it: its submissions, and whatever it   *)
(* indexed.  One that indexed as many others passes for an index of them:  *)
(* astray remembers in what it is wrong.                                   *)
ReplaceFile(S, docs) ==
    LET rows == S \cap Exists(row)
    IN  /\ ~up
        /\ row' = [s \in Subs |-> IF s \in S THEN row[s] ELSE NoRow]
        /\ index' = docs
        /\ astray' = IF Cardinality(docs) = Cardinality(rows) THEN Apart(docs, rows) ELSE {}
        /\ UNCHANGED <<form, rules, up, token, mint, call>>

---------------------------------------------------------------------------
(* The admin, the public and the clock.                                    *)

CreateForm(f) ==
    /\ up /\ form[f] = "none"
    /\ form' = [form EXCEPT ![f] = "live"]
    /\ UNCHANGED <<row, rules, index, up, astray, token, mint, call>>

(* The rows go with it; a token that names it goes on naming it. *)
DeleteForm(f) ==
    /\ up /\ f \in Live
    /\ form' = [form EXCEPT ![f] = "gone"]
    /\ Write(Gone(row, {s \in Subs : FormOf[s] = f}))
    /\ UNCHANGED <<rules, up, astray, token, mint, call>>

Arrive(s, held) ==
    /\ up /\ row[s] = NoRow /\ FormOf[s] \in Live
    /\ Write([row EXCEPT ![s] = [state |-> IF held THEN "held" ELSE "inbox", read |-> FALSE,
                                 why |-> IF held THEN {"screened"} ELSE {}]])
    /\ UNCHANGED <<form, rules, up, astray, token, mint, call>>

Restore(s) ==
    /\ up /\ s \in Held(row)
    /\ Write([row EXCEPT ![s].state = "inbox", ![s].read = FALSE])
    /\ UNCHANGED <<form, rules, up, astray, token, mint, call>>

OperatorDeletes(s) ==
    /\ up /\ s \in Exists(row)
    /\ Write(Gone(row, {s}))
    /\ UNCHANGED <<form, rules, up, astray, token, mint, call>>

Revoke(t) ==
    /\ up /\ token[t].state \in {"live", "expired"}
    /\ token' = [token EXCEPT ![t].state = "revoked"]
    /\ UNCHANGED <<form, row, rules, index, up, astray, mint, call>>

Expire(t) ==
    /\ token[t].state = "live"
    /\ token' = [token EXCEPT ![t].state = "expired"]
    /\ UNCHANGED <<form, row, rules, index, up, astray, mint, call>>

---------------------------------------------------------------------------
(* The token form.                                                         *)

\* Mutant: the radio alone.
ReadAccessChoice_RadioOnly(scopes, radio, ticked) ==
    [scopes |-> scopes, forms |-> ticked, allForms |-> radio # "listed"]

(* Ticking a form binds access, whatever the radio says. *)
ReadAccessChoice(scopes, radio, ticked) ==
    [scopes |-> scopes, forms |-> ticked, allForms |-> radio # "listed" /\ ticked = {}]

(* A scope or a form that is not known is refused with all the others. *)
ValidScopes(scopes) == scopes # {} /\ scopes \subseteq ScopeNames

ValidForms(ids) == IF ids \subseteq Live THEN ids ELSE {}

Validates(choice) == /\ ValidScopes(choice.scopes)
                     /\ choice.allForms \/ ValidForms(choice.forms) # {}

(* What goes in form_ids, where nothing means every form. *)
Column(choice) == IF choice.allForms THEN {} ELSE ValidForms(choice.forms)

(* Create, as far as its insert; asked remembers what the person meant. *)
ChooseAccess(t, scopes, radio, ticked) ==
    LET choice == ReadAccessChoice(scopes, radio, ticked)
    IN  /\ up /\ mint = NoMint /\ token[t] = NoToken
        /\ Validates(choice)
        /\ mint' = [token |-> t,
                    row |-> [state |-> "live", scopes |-> choice.scopes, column |-> Column(choice),
                             asked |-> [all |-> radio # "listed" /\ ticked = {}, forms |-> ticked]]]
        /\ UNCHANGED <<form, row, rules, index, up, astray, token, call>>

CreateAPIToken ==
    /\ up /\ mint # NoMint
    /\ token' = [token EXCEPT ![mint.token] = mint.row]
    /\ mint' = NoMint
    /\ UNCHANGED <<form, row, rules, index, up, astray, call>>

---------------------------------------------------------------------------
(* A call.                                                                 *)

(* verifyMCPToken, serverFor and the handler's gate: no statement between. *)
Verify(t, tool, arg) ==
    LET reach == ParseFormScope(token[t].column)
    IN  /\ up /\ call = Idle
        /\ token[t].state = "live"
        /\ tool \in RegisteredTools(token[t].scopes, ~reach.all)
        /\ Permits(tool, token[t].scopes, reach)
        /\ arg \in Arguments(tool)
        /\ call' = [tool |-> tool, arg |-> arg, reach |-> reach, filter |-> reach,
                    todo |-> Statements(tool, arg.form), rows |-> {}]
        /\ UNCHANGED <<form, row, rules, index, up, astray, token, mint>>

Runs(st) == up /\ call.todo # <<>> /\ Head(call.todo) = st

Done == [call EXCEPT !.todo = Tail(@)]

Observe ==
    /\ \E st \in Observations : Runs(st)
    /\ call' = Done
    /\ UNCHANGED <<form, row, rules, index, up, astray, token, mint>>

(* The rows a query may answer with. *)
Listed(st, fs, rs, reach, filter) ==
    CASE st = "ListSubmissionsFiltered" -> {ListSubmissionsFiltered(rs, call.arg.form, call.arg.status, reach)}
      [] st = "SearchSubmissions"       -> SearchSubmissions(fs, rs, index, call.arg.matches,
                                                             call.arg.limit, reach)
      [] st = "HeldSubmissionsWhere"    -> {HeldSubmissionsWhere(rs, filter)}

ReadRows ==
    \E st \in Queries :
        /\ Runs(st)
        /\ \E answer \in Listed(st, Live, row, call.reach, call.filter) :
                call' = [Done EXCEPT !.rows = answer]
        /\ UNCHANGED <<form, row, rules, index, up, astray, token, mint>>

InScope ==
    /\ Runs("InScope")
    /\ GetInScope(row, call.arg.sub, call.reach) # {}
    /\ call' = [Done EXCEPT !.rows = {call.arg.sub}]
    /\ UNCHANGED <<form, row, rules, index, up, astray, token, mint>>

(* A form_id is looked up among the forms the token reaches, and then      *)
(* narrows the filter to itself.                                           *)
Names(fs, rs, reach) == {x.form : x \in ListForms(fs, rs, reach)}

\* Mutant: the filter narrows to the form_id without looking it up.
FormKnown_Unchecked ==
    /\ Runs("FormKnown")
    /\ call' = [Done EXCEPT !.filter = OnlyForms({call.arg.form})]
    /\ UNCHANGED <<form, row, rules, index, up, astray, token, mint>>

FormKnown ==
    /\ Runs("FormKnown")
    /\ call.arg.form \in Names(Live, row, call.reach)
    /\ call' = [Done EXCEPT !.filter = OnlyForms({call.arg.form})]
    /\ UNCHANGED <<form, row, rules, index, up, astray, token, mint>>

(* "no such submission", "no form with id": nothing was changed. *)
Refuse ==
    /\ \/ Runs("InScope") /\ GetInScope(row, call.arg.sub, call.reach) = {}
       \/ Runs("FormKnown") /\ call.arg.form \notin Names(Live, row, call.reach)
    /\ call' = Idle
    /\ UNCHANGED <<form, row, rules, index, up, astray, token, mint>>

(* A statement returns an error: the call answers with it. *)
Fail ==
    /\ up /\ call.todo # <<>>
    /\ call' = Idle
    /\ UNCHANGED <<form, row, rules, index, up, astray, token, mint>>

MarkRead ==
    LET s == call.arg.sub
    IN  /\ Runs("MarkRead")
        /\ Write(IF s \in Exists(row) THEN [row EXCEPT ![s].read = (call.arg.status = "read")] ELSE row)
        /\ call' = Done
        /\ UNCHANGED <<form, rules, up, astray, token, mint>>

MarkAllRead ==
    /\ Runs("MarkAllRead")
    /\ Write([s \in Subs |-> IF s \in Inbox(row) /\ FormOf[s] = call.arg.form
                             THEN [row[s] EXCEPT !.read = TRUE] ELSE row[s]])
    /\ call' = Done
    /\ UNCHANGED <<form, rules, up, astray, token, mint>>

(* A row that is held already, or gone since it was read, ends the call. *)
MarkSpam ==
    LET s == call.arg.sub
    IN  /\ Runs("MarkSpam")
        /\ IF s \in Inbox(row)
           THEN /\ Write([row EXCEPT ![s] = [state |-> "held", read |-> FALSE,
                                             why |-> @.why \cup {"manual"}]])
                /\ call' = Done
           ELSE call' = Idle /\ Write(row)
        /\ UNCHANGED <<form, rules, up, astray, token, mint>>

DeleteSubmission ==
    /\ Runs("DeleteSubmission")
    /\ Write(Gone(row, {call.arg.sub}))
    /\ call' = [Done EXCEPT !.rows = {}]
    /\ UNCHANGED <<form, rules, up, astray, token, mint>>

DeleteHeld ==
    /\ Runs("DeleteHeld")
    /\ Write(Gone(row, In(call.arg.ids \cap Held(row), call.reach)))
    /\ call' = Done
    /\ UNCHANGED <<form, rules, up, astray, token, mint>>

(* Another number held than the one the client was shown: nothing goes. *)
ClearHeld ==
    /\ Runs("ClearHeld")
    /\ IF CountHeld(row, call.filter) = call.arg.expected
       THEN Write(Gone(row, HeldSubmissionsWhere(row, call.filter)))
       ELSE Write(row)
    /\ call' = Done
    /\ UNCHANGED <<form, rules, up, astray, token, mint>>

(* A rule that is there already is refused. *)
AddFilterRule ==
    /\ Runs("AddFilterRule")
    /\ rules' = rules \cup {call.arg.rule}
    /\ call' = IF call.arg.rule \in rules THEN Idle ELSE Done
    /\ UNCHANGED <<form, row, index, up, astray, token, mint>>

(* The result is on its way to the client. *)
Answered == call.tool # "none" /\ call.todo = <<>>

Answer ==
    /\ Answered
    /\ call' = Idle
    /\ UNCHANGED <<form, row, rules, index, up, astray, token, mint>>

Next ==
    \/ Start \/ Stop
    \/ \E S, docs \in SUBSET Subs : ReplaceFile(S, docs)
    \/ \E f \in Forms : CreateForm(f) \/ DeleteForm(f)
    \/ \E s \in Subs : Restore(s) \/ OperatorDeletes(s) \/ \E held \in BOOLEAN : Arrive(s, held)
    \/ \E t \in Tokens : Revoke(t) \/ Expire(t)
    \/ \E t \in Tokens, scopes \in ScopeChoices, radio \in {"all", "listed"}, ticked \in SUBSET Forms :
            ChooseAccess(t, scopes, radio, ticked)
    \/ CreateAPIToken
    \/ \E t \in Tokens, tool \in Tools : \E arg \in Arguments(tool) : Verify(t, tool, arg)
    \/ Observe \/ ReadRows \/ InScope \/ FormKnown \/ Refuse \/ Fail
    \/ MarkRead \/ MarkAllRead \/ MarkSpam \/ DeleteSubmission \/ DeleteHeld \/ ClearHeld \/ AddFilterRule
    \/ Answer

Spec == Init /\ [][Next]_vars

---------------------------------------------------------------------------
(* Properties.                                                             *)

(* However the radio and the boxes disagree and whatever form goes between *)
(* the check and the insert, a token reaches no form its owner did not     *)
(* tick, not even one created later, unless every form was asked for; and  *)
(* a call carries what its token did.                                      *)
Reaches(scope) == {f \in Forms : Allows(scope, f)}

NeverMoreThanAsked ==
    \A t \in Tokens :
        LET tok == token[t]
        IN  /\ tok.state # "none" /\ ~tok.asked.all =>
                 Reaches(ParseFormScope(tok.column)) \subseteq tok.asked.forms
            /\ tok.scopes \subseteq ScopeNames

(* No call of a token bound to some forms changes a row of another form, a *)
(* form, a rule or a token: not through an id read before it moved, not    *)
(* through a filter, not through a form_id.                                *)
BoundedStaysInside ==
    [][call' # call /\ up' /\ ~call.reach.all /\ call # Idle =>
         /\ \A s \in Subs : row'[s] # row[s] => FormOf[s] \in call.reach.ids
         /\ UNCHANGED <<form, rules, token>>]_vars

(* Every statement of a bounded call reads what it would read without a    *)
(* bound in a database that held the bound's forms and nothing else: no    *)
(* count, name, row or refusal tells of another form.  A search may answer *)
(* there what it may answer here; which of its own matches come first      *)
(* depends on the words of every form, and nothing is said of that.        *)
Result(st, fs, rs, reach, filter) ==
    CASE st = "ListForms"            -> ListForms(fs, rs, reach)
      [] st = "PerFormStats"         -> PerFormStats(fs, rs, reach)
      [] st = "CountHeld"            -> CountHeld(rs, filter)
      [] st = "NavCounts"            -> [NavCounts(rs, reach) EXCEPT !.waitlistKnown = FALSE]
      [] st = "CountAllSubmissions"  -> CountAllSubmissions(rs, reach)
      [] st = "HeldSince"            -> HeldSince(rs, reach)
      [] st = "SubmissionsPerDay"    -> SubmissionsPerDay(rs, reach)
      [] st = "TopSpamSignals"       -> TopSpamSignals(rs, reach)
      [] st = "SubmissionSignals"    -> SubmissionSignals(rs, call.rows)
      [] st = "InScope"              -> GetInScope(rs, call.arg.sub, reach)
      [] st = "FormKnown"            -> call.arg.form \in Names(fs, rs, reach)
      [] st \in Queries              -> Listed(st, fs, rs, reach, filter)
      [] OTHER                       -> TRUE

Only(ids) == [s \in Subs |-> IF FormOf[s] \in ids THEN row[s] ELSE NoRow]

AsIfOnlyItsForms ==
    call.todo # <<>> /\ ~call.reach.all =>
        LET ids  == call.reach.ids
            Open == IF call.filter = call.reach THEN AllForms ELSE call.filter
            st   == Head(call.todo)
        IN  Result(st, Live, row, call.reach, call.filter)
                = Result(st, Live \cap ids, Only(ids), AllForms, Open)

(* Whatever a row is served by, its answer holds no marker, nothing unseen *)
(* and no prose where an address is announced; without MCP_INCLUDE_IPS no  *)
(* recorded address or network; what is withheld is said to be; and a      *)
(* value that a listing of the rules withholds is not told by the reason   *)
(* that a submission was held for it.                                      *)
AddressIsOne(IncludeIPs, ip) == ip = <<>> \/ (IncludeIPs /\ ip = Address)

SubmissionIsFiltered(IncludeIPs, typed, out) ==
    /\ \A k \in DOMAIN out.shown.fields : Clean(k) /\ Clean(out.shown.fields[k])
    /\ out.shown.fields # typed.fields <=> out.shown.hits # {}
    /\ AddressIsOne(IncludeIPs, out.ip.ip)
    /\ out.ip.withheld <=> typed.ip # <<>> /\ out.ip.ip = <<>>

SignalIsFiltered(IncludeIPs, sig, out) ==
    /\ Clean(out.field) /\ Clean(out.match)
    /\ out.field \in {<<>>, sig.field}
    /\ IF sig.check = "repeat_ip" THEN AddressIsOne(IncludeIPs, out.match)
       ELSE LooksLikeAddress(out.match) => IncludeIPs

AnswersAreFiltered ==
    Answered => \A IncludeIPs \in BOOLEAN :
        /\ \A s \in call.rows : Allows(call.reach, FormOf[s])
        /\ \A s \in call.rows : \A out \in {ToSubmission(IncludeIPs, s)} :
                SubmissionIsFiltered(IncludeIPs, Typed[s], out)
        /\ \A sig \in UNION {Typed[s].signals : s \in call.rows} : \A out \in {ToSignal(IncludeIPs, sig)} :
                SignalIsFiltered(IncludeIPs, sig, out)
        /\ \A r \in rules : \A sig \in UNION {Typed[s].signals : s \in call.rows} :
                ToRule(IncludeIPs, FALSE, r) # r.value => ToSignal(IncludeIPs, sig).match # r.value

(* Of the redaction an answer went through, whatever the text: it leaves   *)
(* no marker and nothing unseen, however one hides the other, and going    *)
(* over its result finds nothing.                                          *)
RedactionIsClean == Answered => ValueIsClean

(* And its report can be relied on: a line that no hit covers is shown as  *)
(* it was written, and nothing is lost without a hit or the admin's notice. *)
RedactionSaysWhat == Answered => HitsSayWhat

(* Whenever the process serves, the index errs in nothing but what a file  *)
(* was put in place with, indexed wrong in as many rows as it had: no      *)
(* upgrade, write, deletion or restart leaves a row that is not found or a *)
(* document of one that is gone, and an index of any other size is rebuilt.*)
OnlyTheFileErrs == up => Apart(index, Exists(row)) \subseteq astray

=============================================================================
