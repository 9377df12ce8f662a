---------------------------- MODULE AccessProofs ----------------------------
(***************************************************************************)
(* Proofs about Access, for any forms, submissions, tokens and rules, and  *)
(* about Redact, for any texts.  First the inductive invariant and what    *)
(* follows from it about bounds and the index; then Redact, from numbers   *)
(* in order over places and lines to the report of a value; at the end the *)
(* answers, which rest on both.                                            *)
(***************************************************************************)
EXTENDS Access, FiniteSetTheorems, SequenceTheorems, TLAPS

-----------------------------------------------------------------------------
(* The inductive invariant                                                 *)

\* A token's column holds forms that were ticked, and is empty only when every
\* form was asked for; nothing else is waiting to be inserted.
AsAsked(tok) ==
  tok.state # "none" =>
    /\ tok.column \subseteq tok.asked.forms
    /\ tok.column = {} => tok.asked.all

MintInv ==
  /\ \A t \in Tokens : AsAsked(token[t])
  /\ mint # NoMint => mint.token \in Tokens /\ AsAsked(mint.row)

\* The tools that look a submission up before anything else, and a form.
LooksUpSub  == {"get_submission", "mark_read", "mark_spam", "delete_submission"}
LooksUpForm == {"mark_all_read", "list_quarantine", "empty_quarantine"}

\* A call runs the statements of its tool.  Its quarantine filter is its
\* token's bound or one form within it.  What it looks up it looks up first, so
\* once that is done it is known to be within the bound.
CallInv ==
  /\ call.todo # <<>> => call.tool # "none"
  /\ call.tool # "none" => call.arg \in Arguments(call.tool)
  /\ \A k \in 1..Len(call.todo) : call.todo[k] \in ToSet(Statements(call.tool, call.arg.form))
  /\ RequireAllForms(call.tool) => call.reach.all
  /\ \/ call.filter = call.reach
     \/ call.filter = OnlyForms({call.arg.form}) /\ Allows(call.reach, call.arg.form)
  /\ call.tool \in LooksUpSub /\ (call.todo = <<>> \/ Head(call.todo) # "InScope") =>
       Allows(call.reach, FormOf[call.arg.sub])
  /\ call.tool \in LooksUpForm /\ call.arg.form # None
       /\ (call.todo = <<>> \/ Head(call.todo) # "FormKnown") =>
       /\ Allows(call.reach, call.arg.form)
       /\ call.filter = OnlyForms({call.arg.form})
  /\ \A s \in call.rows : Allows(call.reach, FormOf[s])

\* The index errs in no more than the file in place did, or is about to be
\* rebuilt: it counts more or fewer documents than there are rows.
IndexInv ==
  \/ Apart(index, Exists(row)) \subseteq astray
  \/ ~up /\ Cardinality(index) # Cardinality(Exists(row))

IInv == TypeOK /\ MintInv /\ CallInv /\ IndexInv
-----------------------------------------------------------------------------
(* Arguments and statements                                                *)

LEMMA CountNat == Cardinality(Subs) \in Nat
BY FormOfAssumption, FS_CardinalityType

LEMMA NoArgsType == NoArgs \in Args
BY CountNat DEF NoArgs, Args

\* What a tool lets through is an argument.
LEMMA ArgsType ==
  ASSUME NEW tool, NEW arg \in Arguments(tool)
  PROVE  arg \in Args
BY CountNat DEF Arguments, FormArgs, StatusArgs, IdArgs, ExpectedArgs, LimitArgs, Args

Stmts == Observations \cup Queries \cup Lookups \cup Changes

LEMMA Seqs ==
  ASSUME NEW S, NEW a \in S, NEW b \in S, NEW c \in S, NEW d \in S, NEW e \in S, NEW f \in S
  PROVE  /\ <<a>> \in Seq(S) /\ <<a, b>> \in Seq(S) /\ <<a, b, c>> \in Seq(S)
         /\ <<a, b, c, d>> \in Seq(S) /\ <<a, b, c, d, e>> \in Seq(S)
         /\ <<a, b, c, d, e, f>> \in Seq(S)
<1>1. <<a>> \in Seq(S) /\ <<a, b>> \in Seq(S)
  OBVIOUS
<1>2. <<a, b, c>> \in Seq(S)
  OBVIOUS
<1>3. <<a, b, c, d>> \in Seq(S)
  OBVIOUS
<1>4. <<a, b, c, d, e>> \in Seq(S)
  OBVIOUS
<1>5. <<a, b, c, d, e, f>> \in Seq(S)
  OBVIOUS
<1> QED  BY <1>1, <1>2, <1>3, <1>4, <1>5

LEMMA Prefixed ==
  ASSUME NEW D, NEW a \in D, NEW S \in Seq(D)
  PROVE  /\ <<a>> \o S \in Seq(D)
         /\ Len(<<a>> \o S) = Len(S) + 1
         /\ (<<a>> \o S)[1] = a
         /\ \A k \in 1..Len(S) : (<<a>> \o S)[k + 1] = S[k]
<1>1. <<a>> \in Seq(D) /\ Len(<<a>>) = 1 /\ <<a>>[1] = a
  OBVIOUS
<1> QED  BY <1>1, ConcatProperties

\* A tool begins with what it looks up, and a statement tells what tool it is of.
StatementsOf(tool, f, S) ==
  /\ S \in Seq(Stmts) /\ S # <<>>
  /\ tool \in LooksUpSub => S[1] = "InScope"
  /\ tool \in LooksUpForm /\ f # None => S[1] = "FormKnown"
  /\ \A k \in 1..Len(S) :
       /\ S[k] = "InScope" => tool \in LooksUpSub
       /\ S[k] = "FormKnown" => tool \in LooksUpForm /\ f # None
       /\ S[k] = "MarkRead" => tool = "mark_read"
       /\ S[k] = "MarkAllRead" => tool = "mark_all_read"
       /\ S[k] = "MarkSpam" => tool = "mark_spam"
       /\ S[k] = "DeleteSubmission" => tool = "delete_submission"
       /\ S[k] = "ClearHeld" => tool = "empty_quarantine"
       /\ S[k] = "AddFilterRule" => tool = "add_block_rule"

LEMMA StatementsAre ==
  ASSUME NEW tool \in Tools, NEW f, tool = "mark_all_read" => f # None
  PROVE  StatementsOf(tool, f, Statements(tool, f))
<1>0. \A x \in {"ListForms", "PerFormStats", "CountHeld", "NavCounts", "CountAllSubmissions",
               "HeldSince", "SubmissionsPerDay", "TopSpamSignals", "SubmissionSignals",
               "ListFilterRules", "ListSubmissionsFiltered", "SearchSubmissions",
               "HeldSubmissionsWhere", "InScope", "FormKnown", "MarkRead", "MarkAllRead",
               "MarkSpam", "DeleteSubmission", "DeleteHeld", "ClearHeld", "AddFilterRule"} :
       x \in Stmts
  BY DEF Stmts, Observations, Queries, Lookups, Changes
<1>1. CASE tool = "list_forms"
  <2> DEFINE S == <<"ListForms", "PerFormStats">>
  <2>1. Statements(tool, f) = S
    BY <1>1 DEF Statements, list_forms
  <2>2. S \in Seq(Stmts)
    BY <1>0, Seqs
  <2>3. Len(S) = 2 /\ S[1] = "ListForms" /\ S[2] = "PerFormStats"
    OBVIOUS
  <2>4. tool \notin LooksUpSub /\ tool \notin LooksUpForm
    BY <1>1 DEF LooksUpSub, LooksUpForm
  <2> HIDE DEF S
  <2> QED  BY <1>1, <2>1, <2>2, <2>3, <2>4 DEF StatementsOf
<1>2. CASE tool = "list_submissions"
  <2> DEFINE S == <<"ListSubmissionsFiltered", "ListForms">>
  <2>1. Statements(tool, f) = S
    BY <1>2 DEF Statements, list_submissions
  <2>2. S \in Seq(Stmts)
    BY <1>0, Seqs
  <2>3. Len(S) = 2 /\ S[1] = "ListSubmissionsFiltered" /\ S[2] = "ListForms"
    OBVIOUS
  <2>4. tool \notin LooksUpSub /\ tool \notin LooksUpForm
    BY <1>2 DEF LooksUpSub, LooksUpForm
  <2> HIDE DEF S
  <2> QED  BY <1>2, <2>1, <2>2, <2>3, <2>4 DEF StatementsOf
<1>3. CASE tool = "get_submission"
  <2> DEFINE S == <<"InScope", "ListForms", "SubmissionSignals">>
  <2>1. Statements(tool, f) = S
    BY <1>3 DEF Statements, get_submission
  <2>2. S \in Seq(Stmts)
    BY <1>0, Seqs
  <2>3. Len(S) = 3 /\ S[1] = "InScope" /\ S[2] = "ListForms" /\ S[3] = "SubmissionSignals"
    OBVIOUS
  <2>4. tool \in LooksUpSub /\ tool \notin LooksUpForm
    BY <1>3 DEF LooksUpSub, LooksUpForm
  <2> HIDE DEF S
  <2> QED  BY <1>3, <2>1, <2>2, <2>3, <2>4 DEF StatementsOf
<1>4. CASE tool = "search_submissions"
  <2> DEFINE S == <<"SearchSubmissions">>
  <2>1. Statements(tool, f) = S
    BY <1>4 DEF Statements, search_submissions
  <2>2. S \in Seq(Stmts)
    BY <1>0, Seqs
  <2>3. Len(S) = 1 /\ S[1] = "SearchSubmissions"
    OBVIOUS
  <2>4. tool \notin LooksUpSub /\ tool \notin LooksUpForm
    BY <1>4 DEF LooksUpSub, LooksUpForm
  <2> HIDE DEF S
  <2> QED  BY <1>4, <2>1, <2>2, <2>3, <2>4 DEF StatementsOf
<1>5. CASE tool = "get_stats"
  <2> DEFINE S == <<"NavCounts", "CountAllSubmissions", "HeldSince", "PerFormStats",
                    "SubmissionsPerDay", "TopSpamSignals">>
  <2>1. Statements(tool, f) = S
    BY <1>5 DEF Statements, get_stats
  <2>2. S \in Seq(Stmts)
    BY <1>0, Seqs
  <2>3. /\ Len(S) = 6
        /\ S[1] = "NavCounts" /\ S[2] = "CountAllSubmissions" /\ S[3] = "HeldSince"
        /\ S[4] = "PerFormStats" /\ S[5] = "SubmissionsPerDay" /\ S[6] = "TopSpamSignals"
    OBVIOUS
  <2>4. tool \notin LooksUpSub /\ tool \notin LooksUpForm
    BY <1>5 DEF LooksUpSub, LooksUpForm
  <2> HIDE DEF S
  <2> QED  BY <1>5, <2>1, <2>2, <2>3, <2>4 DEF StatementsOf
<1>6. CASE tool = "mark_read"
  <2> DEFINE S == <<"InScope", "MarkRead">>
  <2>1. Statements(tool, f) = S
    BY <1>6 DEF Statements, mark_read
  <2>2. S \in Seq(Stmts)
    BY <1>0, Seqs
  <2>3. Len(S) = 2 /\ S[1] = "InScope" /\ S[2] = "MarkRead"
    OBVIOUS
  <2>4. tool \in LooksUpSub /\ tool \notin LooksUpForm
    BY <1>6 DEF LooksUpSub, LooksUpForm
  <2> HIDE DEF S
  <2> QED  BY <1>6, <2>1, <2>2, <2>3, <2>4 DEF StatementsOf
<1>7. CASE tool = "mark_all_read"
  <2> DEFINE S == <<"FormKnown", "MarkAllRead">>
  <2>1. Statements(tool, f) = S
    BY <1>7 DEF Statements, mark_all_read
  <2>2. S \in Seq(Stmts)
    BY <1>0, Seqs
  <2>3. Len(S) = 2 /\ S[1] = "FormKnown" /\ S[2] = "MarkAllRead"
    OBVIOUS
  <2>4. tool \notin LooksUpSub /\ tool \in LooksUpForm
    BY <1>7 DEF LooksUpSub, LooksUpForm
  <2> HIDE DEF S
  <2> QED  BY <1>7, <2>1, <2>2, <2>3, <2>4 DEF StatementsOf
<1>8. CASE tool = "mark_spam"
  <2> DEFINE S == <<"InScope", "MarkSpam", "ListForms">>
  <2>1. Statements(tool, f) = S
    BY <1>8 DEF Statements, mark_spam
  <2>2. S \in Seq(Stmts)
    BY <1>0, Seqs
  <2>3. Len(S) = 3 /\ S[1] = "InScope" /\ S[2] = "MarkSpam" /\ S[3] = "ListForms"
    OBVIOUS
  <2>4. tool \in LooksUpSub /\ tool \notin LooksUpForm
    BY <1>8 DEF LooksUpSub, LooksUpForm
  <2> HIDE DEF S
  <2> QED  BY <1>8, <2>1, <2>2, <2>3, <2>4 DEF StatementsOf
<1>9. CASE tool = "delete_submission"
  <2> DEFINE S == <<"InScope", "DeleteSubmission">>
  <2>1. Statements(tool, f) = S
    BY <1>9 DEF Statements, delete_submission
  <2>2. S \in Seq(Stmts)
    BY <1>0, Seqs
  <2>3. Len(S) = 2 /\ S[1] = "InScope" /\ S[2] = "DeleteSubmission"
    OBVIOUS
  <2>4. tool \in LooksUpSub /\ tool \notin LooksUpForm
    BY <1>9 DEF LooksUpSub, LooksUpForm
  <2> HIDE DEF S
  <2> QED  BY <1>9, <2>1, <2>2, <2>3, <2>4 DEF StatementsOf
<1>10. CASE tool = "delete_quarantined"
  <2> DEFINE S == <<"DeleteHeld">>
  <2>1. Statements(tool, f) = S
    BY <1>10 DEF Statements, delete_quarantined
  <2>2. S \in Seq(Stmts)
    BY <1>0, Seqs
  <2>3. Len(S) = 1 /\ S[1] = "DeleteHeld"
    OBVIOUS
  <2>4. tool \notin LooksUpSub /\ tool \notin LooksUpForm
    BY <1>10 DEF LooksUpSub, LooksUpForm
  <2> HIDE DEF S
  <2> QED  BY <1>10, <2>1, <2>2, <2>3, <2>4 DEF StatementsOf
<1>11. CASE tool = "list_filter_rules"
  <2> DEFINE S == <<"ListFilterRules">>
  <2>1. Statements(tool, f) = S
    BY <1>11 DEF Statements
  <2>2. S \in Seq(Stmts)
    BY <1>0, Seqs
  <2>3. Len(S) = 1 /\ S[1] = "ListFilterRules"
    OBVIOUS
  <2>4. tool \notin LooksUpSub /\ tool \notin LooksUpForm
    BY <1>11 DEF LooksUpSub, LooksUpForm
  <2> HIDE DEF S
  <2> QED  BY <1>11, <2>1, <2>2, <2>3, <2>4 DEF StatementsOf
<1>12. CASE tool = "add_block_rule"
  <2> DEFINE S == <<"AddFilterRule">>
  <2>1. Statements(tool, f) = S
    BY <1>12 DEF Statements
  <2>2. S \in Seq(Stmts)
    BY <1>0, Seqs
  <2>3. Len(S) = 1 /\ S[1] = "AddFilterRule"
    OBVIOUS
  <2>4. tool \notin LooksUpSub /\ tool \notin LooksUpForm
    BY <1>12 DEF LooksUpSub, LooksUpForm
  <2> HIDE DEF S
  <2> QED  BY <1>12, <2>1, <2>2, <2>3, <2>4 DEF StatementsOf
<1>13. CASE tool = "list_quarantine"
  <2> DEFINE S == <<"HeldSubmissionsWhere", "CountHeld", "ListForms", "SubmissionSignals">>
             F == <<"FormKnown">> \o S
  <2>1. S \in Seq(Stmts) /\ "FormKnown" \in Stmts
    BY <1>0, Seqs
  <2>2. /\ Len(S) = 4 /\ S[1] = "HeldSubmissionsWhere" /\ S[2] = "CountHeld"
        /\ S[3] = "ListForms" /\ S[4] = "SubmissionSignals"
        /\ \A k \in 1..Len(S) : S[k] \in Observations \cup Queries
    BY DEF Observations, Queries
  <2>3. tool \notin LooksUpSub /\ tool \in LooksUpForm
    BY <1>13 DEF LooksUpSub, LooksUpForm
  <2> HIDE DEF S
  <2>4. CASE f = None
    <3>1. Statements(tool, f) = <<>> \o S
      BY <1>13, <2>4 DEF Statements, list_quarantine, heldFilter, S
    <3>2. Statements(tool, f) = S
      BY <2>1, <3>1
    <3>3. \A k \in 1..Len(S) : S[k] \notin Lookups \cup Changes
      BY <2>2 DEF Observations, Queries, Lookups, Changes
    <3>4. S # <<>>
      BY <2>2
    <3> QED  BY <2>1, <2>3, <2>4, <3>2, <3>3, <3>4 DEF StatementsOf, Lookups, Changes
  <2>5. CASE f # None
    <3>1. Statements(tool, f) = F
      BY <1>13, <2>5 DEF Statements, list_quarantine, heldFilter, S
    <3>2. /\ F \in Seq(Stmts) /\ Len(F) = Len(S) + 1 /\ F[1] = "FormKnown"
          /\ \A k \in 1..Len(S) : F[k + 1] = S[k]
      BY <2>1, Prefixed
    <3> HIDE DEF F
    <3>3. Len(F) = 5
      BY <2>2, <3>2
    <3>4. F[2] = S[1] /\ F[3] = S[2] /\ F[4] = S[3] /\ F[5] = S[4]
      BY <2>2, <3>2
    <3> QED  BY <1>13, <2>2, <2>3, <2>5, <3>1, <3>2, <3>3, <3>4 DEF StatementsOf
  <2> QED  BY <2>4, <2>5
<1>14. CASE tool = "empty_quarantine"
  <2> DEFINE S == <<"ClearHeld">>
             F == <<"FormKnown">> \o S
  <2>1. S \in Seq(Stmts) /\ "FormKnown" \in Stmts
    BY <1>0, Seqs
  <2>2. Len(S) = 1 /\ S[1] = "ClearHeld" /\ S # <<>> /\ \A k \in 1..Len(S) : S[k] = "ClearHeld"
    OBVIOUS
  <2>3. tool \notin LooksUpSub /\ tool \in LooksUpForm
    BY <1>14 DEF LooksUpSub, LooksUpForm
  <2> HIDE DEF S
  <2>4. CASE f = None
    <3>1. Statements(tool, f) = <<>> \o S
      BY <1>14, <2>4 DEF Statements, empty_quarantine, heldFilter, S
    <3>2. Statements(tool, f) = S
      BY <2>1, <3>1
    <3> QED  BY <1>14, <2>1, <2>2, <2>3, <2>4, <3>2 DEF StatementsOf
  <2>5. CASE f # None
    <3>1. Statements(tool, f) = F
      BY <1>14, <2>5 DEF Statements, empty_quarantine, heldFilter, S
    <3>2. /\ F \in Seq(Stmts) /\ Len(F) = Len(S) + 1 /\ F[1] = "FormKnown"
          /\ \A k \in 1..Len(S) : F[k + 1] = S[k]
      BY <2>1, Prefixed
    <3> HIDE DEF F
    <3>3. Len(F) = 2
      BY <2>2, <3>2
    <3>4. F[2] = S[1]
      BY <2>2, <3>2
    <3> QED  BY <1>14, <2>2, <2>3, <2>5, <3>1, <3>2, <3>3, <3>4 DEF StatementsOf
  <2> QED  BY <2>4, <2>5
<1> QED
  BY <1>1, <1>2, <1>3, <1>4, <1>5, <1>6, <1>7, <1>8, <1>9, <1>10, <1>11, <1>12, <1>13, <1>14
     DEF Tools, ReadTools, WriteTools, DeleteTools

\* What is known when a statement runs.
LEMMA RunsFacts ==
  ASSUME IInv, NEW st, Runs(st)
  PROVE  /\ up
         /\ call \in Call /\ call.todo \in Seq(Stmts) /\ call.todo # <<>>
         /\ Head(call.todo) = st /\ call.todo[1] = st /\ Len(call.todo) \in Nat \ {0}
         /\ call.tool \in Tools /\ call.arg \in Arguments(call.tool) /\ call.arg \in Args
         /\ call.tool = "mark_all_read" => call.arg.form # None
         /\ st = "InScope" => call.tool \in LooksUpSub
         /\ st = "FormKnown" => call.tool \in LooksUpForm /\ call.arg.form # None
         /\ st = "MarkRead" => call.tool = "mark_read"
         /\ st = "MarkAllRead" => call.tool = "mark_all_read"
         /\ st = "MarkSpam" => call.tool = "mark_spam"
         /\ st = "DeleteSubmission" => call.tool = "delete_submission"
         /\ st = "ClearHeld" => call.tool = "empty_quarantine"
         /\ st = "AddFilterRule" => call.tool = "add_block_rule"
<1>1. /\ up /\ call \in Call /\ call.todo \in Seq(Stmts) /\ call.todo # <<>>
      /\ Head(call.todo) = st /\ call.tool # "none"
  BY DEF IInv, TypeOK, CallInv, Runs, Call, Stmts
<1>2. call.todo[1] = st /\ Len(call.todo) \in Nat \ {0}
  BY <1>1
<1>3. call.tool \in Tools /\ call.arg \in Arguments(call.tool) /\ call.arg \in Args
  BY <1>1 DEF IInv, CallInv, Call
<1>4. call.tool = "mark_all_read" => call.arg.form # None
  BY <1>3, NoneAssumption DEF Arguments, FormArgs
<1>5. st \in ToSet(Statements(call.tool, call.arg.form))
  BY <1>2 DEF IInv, CallInv
<1>6. StatementsOf(call.tool, call.arg.form, Statements(call.tool, call.arg.form))
  BY <1>3, <1>4, StatementsAre
<1>7. PICK k \in 1..Len(Statements(call.tool, call.arg.form)) :
        st = Statements(call.tool, call.arg.form)[k]
  BY <1>5, <1>6 DEF ToSet, StatementsOf
<1> QED  BY <1>1, <1>2, <1>3, <1>4, <1>6, <1>7 DEF StatementsOf

\* A call that goes on with its next statement.
LEMMA Proceeds ==
  ASSUME IInv, NEW st, Runs(st), call' \in Call,
         call'.tool = call.tool, call'.arg = call.arg, call'.reach = call.reach,
         call'.todo = Tail(call.todo),
         \A s \in call'.rows : Allows(call.reach, FormOf[s]),
         st = "InScope" => Allows(call.reach, FormOf[call.arg.sub]),
         st = "FormKnown" =>
           call'.filter = OnlyForms({call.arg.form}) /\ Allows(call.reach, call.arg.form),
         st # "FormKnown" => call'.filter = call.filter
  PROVE  CallInv'
<1>1. /\ call.todo \in Seq(Stmts) /\ call.todo # <<>> /\ Head(call.todo) = st
      /\ call.tool \in Tools /\ call.arg \in Arguments(call.tool)
      /\ Len(call.todo) \in Nat \ {0}
  BY RunsFacts
<1>2. /\ Tail(call.todo) \in Seq(Stmts) /\ Len(Tail(call.todo)) = Len(call.todo) - 1
      /\ \A k \in 1..Len(Tail(call.todo)) : Tail(call.todo)[k] = call.todo[k + 1]
  BY <1>1, HeadTailProperties
<1>3. /\ (call.todo # <<>> => call.tool # "none")'
      /\ (call.tool # "none" => call.arg \in Arguments(call.tool))'
  BY <1>1 DEF Tools, ReadTools, WriteTools, DeleteTools, IInv, CallInv
<1>4. \A k \in 1..Len(call'.todo) : call'.todo[k] \in ToSet(Statements(call'.tool, call'.arg.form))
  <2>1. \A k \in 1..Len(call.todo) : call.todo[k] \in ToSet(Statements(call.tool, call.arg.form))
    BY DEF IInv, CallInv
  <2>2. ASSUME NEW k \in 1..Len(Tail(call.todo))
        PROVE  Tail(call.todo)[k] \in ToSet(Statements(call.tool, call.arg.form))
    <3>1. k + 1 \in 1..Len(call.todo) /\ Tail(call.todo)[k] = call.todo[k + 1]
      BY <1>1, <1>2
    <3> QED  BY <2>1, <3>1
  <2>3. ToSet(Statements(call'.tool, call'.arg.form)) = ToSet(Statements(call.tool, call.arg.form))
    OBVIOUS
  <2> QED  BY <2>2, <2>3
<1>5. (RequireAllForms(call.tool) => call.reach.all)'
  BY DEF IInv, CallInv
<1>6. \/ call'.filter = call'.reach
      \/ call'.filter = OnlyForms({call'.arg.form}) /\ Allows(call'.reach, call'.arg.form)
  BY DEF IInv, CallInv
<1>7. call.tool \in LooksUpSub => Allows(call.reach, FormOf[call.arg.sub])
  BY <1>1 DEF IInv, CallInv
<1>8. call.tool \in LooksUpForm /\ call.arg.form # None =>
        Allows(call.reach, call.arg.form) /\ call'.filter = OnlyForms({call.arg.form})
  BY <1>1 DEF IInv, CallInv
<1> QED  BY <1>3, <1>4, <1>5, <1>6, <1>7, <1>8 DEF CallInv

LEMMA IdleInv ==
  ASSUME IInv, call' = Idle
  PROVE  call' \in Call /\ CallInv'
<1>1. OnlyForms({}) \in FormScopes
  BY DEF OnlyForms, FormScopes
<1>2. call' \in Call
  BY <1>1, NoArgsType DEF Idle, Call
<1>3. call'.tool = "none" /\ call'.todo = <<>> /\ call'.rows = {} /\ call'.filter = call'.reach
  BY DEF Idle
<1>4. "none" \notin LooksUpSub \cup LooksUpForm /\ ~RequireAllForms("none")
  BY DEF LooksUpSub, LooksUpForm, RequireAllForms
<1>5. \A k \in 1..Len(call'.todo) : FALSE
  BY <1>3
<1>6. call'.tool \notin LooksUpSub \cup LooksUpForm /\ ~RequireAllForms(call'.tool)
  BY <1>3, <1>4
<1> QED  BY <1>2, <1>3, <1>5, <1>6 DEF CallInv

-----------------------------------------------------------------------------
(* Rows and the index                                                      *)

LEMMA NoRowType == NoRow \in Row
BY DEF NoRow, Row

LEMMA GoneType ==
  ASSUME NEW rs \in [Subs -> Row], NEW S
  PROVE  /\ Gone(rs, S) \in [Subs -> Row]
         /\ \A s \in Subs : Gone(rs, S)[s] # rs[s] => s \in S
BY NoRowType DEF Gone, NoRow, Row

\* A write keeps the index in step, and mends it for the rows it writes.
LEMMA WriteKeeps ==
  ASSUME TypeOK, up, IndexInv, NEW rs \in [Subs -> Row], Write(rs)
  PROVE  /\ row' \in [Subs -> Row] /\ index' \subseteq Subs
         /\ Apart(index', Exists(row')) \subseteq astray
<1>1. Apart(index, Exists(row)) \subseteq astray /\ row \in [Subs -> Row] /\ index \subseteq Subs
  BY DEF IndexInv, TypeOK
<1>2. row' = rs /\ index' = (index \ Changed(rs)) \cup (Changed(rs) \cap Exists(rs))
  BY DEF Write
<1>3. \A s \in Subs : s \notin Changed(rs) => rs[s] = row[s]
  BY DEF Changed
<1>4. Changed(rs) \subseteq Subs
  BY DEF Changed
<1> QED  BY <1>1, <1>2, <1>3, <1>4 DEF Exists, Apart

-----------------------------------------------------------------------------
(* The token form                                                          *)

\* What is about to be inserted is what was asked for.
LEMMA MintKept ==
  ASSUME IInv, Next
  PROVE  mint' \in Mint /\ token' \in [Tokens -> Token] /\ MintInv'
<1>0. mint \in Mint /\ token \in [Tokens -> Token] /\ MintInv
  BY DEF IInv, TypeOK
<1>1. NoMint \in Mint /\ NoToken \in Token
  BY DEF NoMint, NoToken, Mint, Token
<1>2. ASSUME mint' = NoMint, UNCHANGED token
      PROVE  mint' \in Mint /\ token' \in [Tokens -> Token] /\ MintInv'
  BY <1>0, <1>1, <1>2 DEF MintInv
<1>3. ASSUME UNCHANGED <<token, mint>>
      PROVE  mint' \in Mint /\ token' \in [Tokens -> Token] /\ MintInv'
  BY <1>0, <1>3 DEF MintInv
<1>4. ASSUME NEW t \in Tokens, NEW st \in {"expired", "revoked"},
             token' = [token EXCEPT ![t].state = st], UNCHANGED mint, token[t].state # "none"
      PROVE  mint' \in Mint /\ token' \in [Tokens -> Token] /\ MintInv'
  <2>1. token' \in [Tokens -> Token]
    BY <1>0, <1>4 DEF Token
  <2>2. \A u \in Tokens : /\ token'[u].column = token[u].column /\ token'[u].asked = token[u].asked
                          /\ token'[u].state # "none" => token[u].state # "none"
    BY <1>0, <1>4 DEF Token
  <2> QED  BY <1>0, <1>4, <2>1, <2>2 DEF MintInv, AsAsked
<1>5. ASSUME NEW t \in Tokens, NEW scopes \in ScopeChoices, NEW radio \in {"all", "listed"},
             NEW ticked \in SUBSET Forms, ChooseAccess(t, scopes, radio, ticked)
      PROVE  mint' \in Mint /\ token' \in [Tokens -> Token] /\ MintInv'
  <2> DEFINE choice == ReadAccessChoice(scopes, radio, ticked)
  <2>1. /\ choice.scopes = scopes /\ choice.forms = ticked
        /\ choice.allForms = (radio # "listed" /\ ticked = {})
    BY DEF ReadAccessChoice
  <2> HIDE DEF choice
  <2>2. /\ Validates(choice) /\ UNCHANGED token
        /\ mint' = [token |-> t, row |-> [state |-> "live", scopes |-> choice.scopes,
                    column |-> Column(choice),
                    asked |-> [all |-> radio # "listed" /\ ticked = {}, forms |-> ticked]]]
    BY <1>5 DEF ChooseAccess, choice
  <2>3. ValidForms(ticked) \subseteq ticked
    BY DEF ValidForms
  <2>4. Column(choice) \subseteq ticked /\ (Column(choice) = {} => choice.allForms)
    BY <2>1, <2>2, <2>3 DEF Column, Validates
  <2>5. scopes \subseteq ScopeNames
    BY <2>1, <2>2 DEF Validates, ValidScopes
  <2>6. mint'.row \in Token /\ mint' \in Mint /\ mint'.token = t
    BY <2>1, <2>2, <2>4, <2>5 DEF Token, Mint
  <2>7. AsAsked(mint'.row)
    BY <2>1, <2>2, <2>4 DEF AsAsked
  <2> QED  BY <1>0, <2>2, <2>6, <2>7 DEF MintInv
<1>6. CASE CreateAPIToken
  BY <1>0, <1>1, <1>6 DEF CreateAPIToken, MintInv, Mint
<1>7. ASSUME NEW t \in Tokens, Revoke(t) \/ Expire(t)
      PROVE  mint' \in Mint /\ token' \in [Tokens -> Token] /\ MintInv'
  BY <1>4, <1>7 DEF Revoke, Expire
<1>8. CASE Stop
  BY <1>2, <1>8 DEF Stop
<1> QED
  BY <1>3, <1>5, <1>6, <1>7, <1>8
     DEF Next, Start, ReplaceFile, CreateForm, DeleteForm, Restore, OperatorDeletes, Arrive, Verify,
         Observe, ReadRows, InScope, FormKnown, Refuse, Fail, MarkRead, MarkAllRead, MarkSpam,
         DeleteSubmission, DeleteHeld, ClearHeld, AddFilterRule, Answer

-----------------------------------------------------------------------------
(* Types and the index                                                     *)

DataType ==
  /\ form \in [Forms -> {"none", "live", "gone"}]
  /\ row \in [Subs -> Row]
  /\ rules \subseteq Rules
  /\ index \subseteq Subs /\ astray \subseteq Subs
  /\ up \in BOOLEAN

LEMMA DataKept ==
  ASSUME IInv, Next
  PROVE  DataType' /\ IndexInv'
<1> DEFINE Goal == DataType' /\ IndexInv'
<1>0. TypeOK /\ DataType /\ IndexInv
  BY DEF IInv, TypeOK, DataType
<1>1. ASSUME NEW rs \in [Subs -> Row], Write(rs), up, up' = up,
             form' \in [Forms -> {"none", "live", "gone"}], rules' = rules, astray' = astray
      PROVE  Goal
  BY <1>0, <1>1, WriteKeeps DEF DataType, IndexInv
<1>2. ASSUME UNCHANGED <<form, row, rules, index, up, astray>>
      PROVE  Goal
  BY <1>0, <1>2 DEF DataType, IndexInv, Exists
<1>3. ASSUME NEW S, Write(Gone(row, S)), up, up' = up,
             form' \in [Forms -> {"none", "live", "gone"}], rules' = rules, astray' = astray
      PROVE  Goal
  BY <1>0, <1>1, <1>3, GoneType DEF DataType
<1>4. ASSUME Start
      PROVE  Goal
  <2>1. Exists(row) \subseteq Subs /\ IsFiniteSet(Exists(row))
    BY FormOfAssumption, FS_Subset DEF Exists
  <2>2. /\ index' = SyncedIndex(Exists(row), index) /\ up'
        /\ UNCHANGED <<form, row, rules, astray>>
    BY <1>4 DEF Start
  <2>3. Apart(index', Exists(row)) \subseteq astray /\ index' \subseteq Subs
    <3>1. CASE Cardinality(Exists(row)) = Cardinality(index)
      BY <1>0, <2>2, <3>1 DEF IndexInv, SyncedIndex, DataType
    <3>2. CASE Cardinality(Exists(row)) # Cardinality(index)
      BY <2>1, <2>2, <3>2 DEF SyncedIndex, Apart
    <3> QED  BY <3>1, <3>2
  <2>4. Exists(row') = Exists(row)
    BY <2>2 DEF Exists
  <2> QED  BY <1>0, <2>2, <2>3, <2>4 DEF DataType, IndexInv
<1>5. ASSUME Stop
      PROVE  Goal
  BY <1>0, <1>5 DEF Stop, DataType, IndexInv, Exists
<1>6. ASSUME NEW S \in SUBSET Subs, NEW docs \in SUBSET Subs, ReplaceFile(S, docs)
      PROVE  Goal
  <2> DEFINE rows == S \cap Exists(row)
  <2>1. row' \in [Subs -> Row] /\ Exists(row') = rows
    BY <1>0, <1>6, NoRowType DEF ReplaceFile, DataType, Exists, NoRow
  <2>2. /\ index' = docs /\ ~up /\ UNCHANGED <<form, rules, up>>
        /\ astray' = IF Cardinality(docs) = Cardinality(rows) THEN Apart(docs, rows) ELSE {}
    BY <1>6 DEF ReplaceFile
  <2>3. rows \subseteq Subs
    OBVIOUS
  <2> HIDE DEF rows
  <2>4. IndexInv'
    <3>1. CASE Cardinality(docs) = Cardinality(rows)
      BY <2>1, <2>2, <3>1 DEF IndexInv
    <3>2. CASE Cardinality(docs) # Cardinality(rows)
      BY <2>1, <2>2, <3>2 DEF IndexInv
    <3> QED  BY <3>1, <3>2
  <2>5. astray' \subseteq Subs
    BY <2>2, <2>3 DEF Apart
  <2> QED  BY <1>0, <2>1, <2>2, <2>4, <2>5 DEF DataType
<1>7. ASSUME NEW f \in Forms, CreateForm(f) \/ DeleteForm(f)
      PROVE  Goal
  <2>1. CASE CreateForm(f)
    BY <1>0, <2>1 DEF CreateForm, DataType, IndexInv, Exists
  <2>2. CASE DeleteForm(f)
    <3>1. form' \in [Forms -> {"none", "live", "gone"}] /\ up /\ up' = up /\ rules' = rules
          /\ astray' = astray
      BY <1>0, <2>2 DEF DeleteForm, DataType
    <3> QED  BY <1>3, <2>2, <3>1 DEF DeleteForm
  <2> QED  BY <1>7, <2>1, <2>2
<1>8. ASSUME NEW s \in Subs, NEW held \in BOOLEAN, Arrive(s, held)
      PROVE  Goal
  <2> DEFINE r == [state |-> IF held THEN "held" ELSE "inbox", read |-> FALSE,
                   why |-> IF held THEN {"screened"} ELSE {}]
  <2>1. r \in Row
    BY DEF Row
  <2>2. [row EXCEPT ![s] = r] \in [Subs -> Row]
    BY <1>0, <2>1 DEF DataType
  <2> QED  BY <1>0, <1>1, <1>8, <2>2 DEF Arrive, DataType
<1>9. ASSUME NEW s \in Subs, Restore(s) \/ OperatorDeletes(s)
      PROVE  Goal
  <2>1. CASE Restore(s)
    <3>1. [row EXCEPT ![s].state = "inbox", ![s].read = FALSE] \in [Subs -> Row]
      BY <1>0 DEF DataType, Row
    <3> QED  BY <1>0, <1>1, <2>1, <3>1 DEF Restore, DataType
  <2>2. CASE OperatorDeletes(s)
    BY <1>0, <1>3, <2>2 DEF OperatorDeletes, DataType
  <2> QED  BY <1>9, <2>1, <2>2
<1>10. ASSUME MarkRead
      PROVE  Goal
  <2>1. \A s \in Subs, b \in BOOLEAN : [row EXCEPT ![s].read = b] \in [Subs -> Row]
    BY <1>0 DEF DataType, Row
  <2>2. (call.arg.status = "read") \in BOOLEAN
    OBVIOUS
  <2> DEFINE b == call.arg.status = "read"
             s == call.arg.sub
  <2>3. /\ up /\ up' = up /\ rules' = rules /\ form' = form /\ astray' = astray
        /\ \/ s \in Exists(row) /\ Write([row EXCEPT ![s].read = b])
           \/ Write(row)
    BY <1>10 DEF MarkRead, Runs
  <2> HIDE DEF b
  <2>4. s \in Exists(row) => [row EXCEPT ![s].read = b] \in [Subs -> Row]
    BY <2>1, <2>2 DEF Exists, b
  <2> QED  BY <1>0, <1>1, <2>3, <2>4 DEF DataType
<1>11. ASSUME MarkAllRead
      PROVE  Goal
  <2> DEFINE rs == [s \in Subs |-> IF s \in Inbox(row) /\ FormOf[s] = call.arg.form
                                  THEN [row[s] EXCEPT !.read = TRUE] ELSE row[s]]
  <2>1. rs \in [Subs -> Row]
    BY <1>0 DEF DataType, Row
  <2>2. Write(rs)
    BY <1>11 DEF MarkAllRead
  <2> HIDE DEF rs
  <2> QED  BY <1>0, <1>1, <1>11, <2>1, <2>2 DEF MarkAllRead, DataType, Runs
<1>12. ASSUME MarkSpam
      PROVE  Goal
  <2> DEFINE s == call.arg.sub
             r == [state |-> "held", read |-> FALSE, why |-> row[s].why \cup {"manual"}]
  <2>1. s \in Inbox(row) => r \in Row /\ [row EXCEPT ![s] = r] \in [Subs -> Row]
    BY <1>0 DEF DataType, Row, Inbox, Exists
  <2>2. \/ s \in Inbox(row) /\ Write([row EXCEPT ![s] = r])
        \/ Write(row)
    BY <1>12 DEF MarkSpam
  <2> HIDE DEF r, s
  <2> QED  BY <1>0, <1>1, <1>12, <2>1, <2>2 DEF MarkSpam, DataType, Runs
<1>13. ASSUME DeleteSubmission \/ DeleteHeld \/ ClearHeld
      PROVE  Goal
  BY <1>0, <1>1, <1>3, <1>13 DEF DeleteSubmission, DeleteHeld, ClearHeld, Runs, DataType
<1>14. ASSUME AddFilterRule
      PROVE  Goal
  <2>1. call.arg \in Arguments("add_block_rule")
    BY <1>14, RunsFacts DEF AddFilterRule
  <2>2. call.arg.rule \in Rules
    BY <2>1 DEF Arguments
  <2> QED  BY <1>0, <1>14, <2>2 DEF AddFilterRule, DataType, IndexInv, Exists
<1>15. ASSUME NEW t \in Tokens, Revoke(t) \/ Expire(t)
       PROVE  Goal
  BY <1>2, <1>15 DEF Revoke, Expire
<1>16. ASSUME NEW t \in Tokens, NEW scopes \in ScopeChoices, NEW radio \in {"all", "listed"},
              NEW ticked \in SUBSET Forms, ChooseAccess(t, scopes, radio, ticked)
       PROVE  Goal
  BY <1>2, <1>16 DEF ChooseAccess
<1>17. ASSUME NEW t \in Tokens, NEW tool \in Tools, NEW arg \in Arguments(tool), Verify(t, tool, arg)
       PROVE  Goal
  BY <1>2, <1>17 DEF Verify
<1>18. ASSUME CreateAPIToken \/ Observe \/ ReadRows \/ InScope \/ FormKnown \/ Refuse \/ Fail \/ Answer
       PROVE  Goal
  BY <1>2, <1>18
     DEF CreateAPIToken, Observe, ReadRows, InScope, FormKnown, Refuse, Fail, Answer
<1> HIDE DEF Goal
<1>19. Goal
  <2>1. CASE \E S, docs \in SUBSET Subs : ReplaceFile(S, docs)
    BY <1>6, <2>1
  <2>2. CASE \E f \in Forms : CreateForm(f) \/ DeleteForm(f)
    BY <1>7, <2>2
  <2>3. CASE \E s \in Subs : Restore(s) \/ OperatorDeletes(s) \/ \E held \in BOOLEAN : Arrive(s, held)
    BY <1>8, <1>9, <2>3
  <2>4. CASE \E t \in Tokens : Revoke(t) \/ Expire(t)
    BY <1>15, <2>4
  <2>5. CASE \E t \in Tokens, scopes \in ScopeChoices, radio \in {"all", "listed"}, ticked \in SUBSET Forms :
               ChooseAccess(t, scopes, radio, ticked)
    BY <1>16, <2>5
  <2>6. CASE \E t \in Tokens, tool \in Tools : \E arg \in Arguments(tool) : Verify(t, tool, arg)
    BY <1>17, <2>6
  <2> QED
    BY <1>4, <1>5, <1>10, <1>11, <1>12, <1>13, <1>14, <1>18,
       <2>1, <2>2, <2>3, <2>4, <2>5, <2>6 DEF Next
<1> QED  BY <1>19 DEF Goal

-----------------------------------------------------------------------------
(* Calls                                                                   *)

\* The forms a call may name are within its token's bound.
LEMMA NamesAllowed ==
  ASSUME NEW fs, NEW rs, NEW reach, NEW f \in Names(fs, rs, reach)
  PROVE  Allows(reach, f) /\ f \in fs
<1> DEFINE unread(g) == Cardinality({s \in Inbox(rs) : FormOf[s] = g /\ ~rs[s].read})
<1>1. PICK x \in ListForms(fs, rs, reach) : f = x.form
  BY DEF Names
<1>2. ListForms(fs, rs, reach) =
        {[form |-> g, unread |-> unread(g)] : g \in {g \in fs : Allows(reach, g)}}
  BY DEF ListForms
<1> HIDE DEF unread
<1>3. PICK g \in fs : Allows(reach, g) /\ x = [form |-> g, unread |-> unread(g)]
  BY <1>1, <1>2
<1>4. x.form = g
  BY <1>3
<1> QED  BY <1>1, <1>3, <1>4

LEMMA CallKept ==
  ASSUME IInv, Next
  PROVE  call' \in Call /\ CallInv'
<1>0. TypeOK /\ CallInv /\ call \in Call
  BY DEF IInv, TypeOK
<1>1. ASSUME UNCHANGED call
      PROVE  call' \in Call /\ CallInv'
  BY <1>0, <1>1 DEF CallInv
<1>2. ASSUME call' = Idle
      PROVE  call' \in Call /\ CallInv'
  BY <1>2, IdleInv
<1>3. ASSUME NEW st, Runs(st), NEW R \in SUBSET Subs, NEW f \in FormScopes,
             call' = [call EXCEPT !.todo = Tail(@), !.rows = R, !.filter = f]
      PROVE  /\ call' \in Call
             /\ call'.tool = call.tool /\ call'.arg = call.arg /\ call'.reach = call.reach
             /\ call'.todo = Tail(call.todo) /\ call'.rows = R /\ call'.filter = f
  <2>1. Tail(call.todo) \in Seq(Stmts)
    BY <1>3, RunsFacts, HeadTailProperties
  <2> QED  BY <1>0, <1>3, <2>1 DEF Call, Stmts
<1>4. /\ Done = [call EXCEPT !.todo = Tail(@), !.rows = call.rows, !.filter = call.filter]
      /\ call.rows \in SUBSET Subs /\ call.filter \in FormScopes
      /\ \A s \in call.rows : Allows(call.reach, FormOf[s])
  BY <1>0 DEF Done, Call, CallInv
<1>5. ASSUME NEW st, Runs(st), st \notin Lookups, call' = Done
      PROVE  call' \in Call /\ CallInv'
  BY <1>3, <1>4, <1>5, Proceeds DEF Lookups
<1>6. ASSUME NEW st, Runs(st), st \notin Lookups, NEW R \in SUBSET Subs, call' = [Done EXCEPT !.rows = R],
             \A s \in R : Allows(call.reach, FormOf[s])
      PROVE  call' \in Call /\ CallInv'
  <2>1. call' = [call EXCEPT !.todo = Tail(@), !.rows = R, !.filter = call.filter]
    BY <1>0, <1>6 DEF Done, Call
  <2>2. /\ call' \in Call /\ call'.tool = call.tool /\ call'.arg = call.arg
        /\ call'.reach = call.reach /\ call'.todo = Tail(call.todo)
        /\ call'.rows = R /\ call'.filter = call.filter
    BY <1>3, <1>4, <1>6, <2>1
  <2>3. st # "InScope" /\ st # "FormKnown"
    BY <1>6 DEF Lookups
  <2> QED  BY <1>6, <2>2, <2>3, Proceeds
<1>7. ASSUME NEW t \in Tokens, NEW tool \in Tools, NEW arg \in Arguments(tool), Verify(t, tool, arg)
      PROVE  call' \in Call /\ CallInv'
  <2> DEFINE reach == ParseFormScope(token[t].column)
             S == Statements(tool, arg.form)
  <2>1. /\ call' = [tool |-> tool, arg |-> arg, reach |-> reach, filter |-> reach,
                    todo |-> S, rows |-> {}]
        /\ RequireAllForms(tool) => reach.all
    BY <1>7 DEF Verify, Permits
  <2>2. reach \in FormScopes
    BY <1>0 DEF ParseFormScope, AllForms, OnlyForms, FormScopes, TypeOK, Token
  <2>3. arg \in Args /\ (tool = "mark_all_read" => arg.form # None)
    BY ArgsType, NoneAssumption DEF Arguments, FormArgs
  <2>4. StatementsOf(tool, arg.form, S)
    BY <2>3, StatementsAre
  <2> HIDE DEF reach, S
  <2>5. S \in Seq(Stmts) /\ S # <<>> /\ Head(S) = S[1]
    BY <2>4 DEF StatementsOf
  <2>6. call' \in Call
    BY <2>1, <2>2, <2>3, <2>5 DEF Call, Stmts
  <2>7. \A k \in 1..Len(S) : S[k] \in ToSet(Statements(tool, arg.form))
    BY <2>5 DEF S, ToSet
  <2>8. tool # "none"
    BY DEF Tools, ReadTools, WriteTools, DeleteTools
  <2>9. /\ call'.tool = tool /\ call'.arg = arg /\ call'.reach = reach /\ call'.filter = reach
        /\ call'.todo = S /\ call'.rows = {}
    BY <2>1
  <2>10. /\ tool \in LooksUpSub => Head(S) = "InScope"
         /\ tool \in LooksUpForm /\ arg.form # None => Head(S) = "FormKnown"
    BY <2>4, <2>5 DEF StatementsOf
  <2> QED  BY <2>1, <2>5, <2>6, <2>7, <2>8, <2>9, <2>10 DEF CallInv
<1>8. CASE Observe
  BY <1>5, <1>8 DEF Observe, Observations, Lookups
<1>9. CASE ReadRows
  <2>1. PICK st \in Queries : /\ Runs(st)
                             /\ \E answer \in Listed(st, Live, row, call.reach, call.filter) :
                                  call' = [Done EXCEPT !.rows = answer]
    BY <1>9 DEF ReadRows
  <2>0. PICK R \in Listed(st, Live, row, call.reach, call.filter) : call' = [Done EXCEPT !.rows = R]
    BY <2>1
  <2>2. R \subseteq In(Subs, call.reach) \/ R \subseteq In(Subs, call.filter)
    <3>1. CASE st = "ListSubmissionsFiltered"
      BY <2>0, <3>1 DEF Listed, ListSubmissionsFiltered, In, Inbox, Exists
    <3>2. CASE st = "SearchSubmissions"
      BY <2>0, <3>2 DEF Listed, SearchSubmissions, In, Inbox, Exists
    <3>3. CASE st = "HeldSubmissionsWhere"
      BY <2>0, <3>3 DEF Listed, HeldSubmissionsWhere, In, Held, Exists
    <3> QED  BY <3>1, <3>2, <3>3 DEF Queries
  <2>3. \A f : Allows(call.filter, f) => Allows(call.reach, f)
    BY <1>0 DEF CallInv, OnlyForms, Allows
  <2>4. R \in SUBSET Subs /\ \A s \in R : Allows(call.reach, FormOf[s])
    BY <2>2, <2>3 DEF In
  <2>5. st \notin Lookups
    BY DEF Queries, Lookups
  <2> QED  BY <1>6, <2>0, <2>1, <2>4, <2>5
<1>10. CASE InScope
  <2> DEFINE s == call.arg.sub
  <2>1. /\ Runs("InScope") /\ GetInScope(row, s, call.reach) # {}
        /\ call' = [Done EXCEPT !.rows = {s}]
    BY <1>10 DEF InScope
  <2>2. s \in Subs /\ Allows(call.reach, FormOf[s])
    BY <2>1 DEF GetInScope, In, Exists
  <2>3. call' = [call EXCEPT !.todo = Tail(@), !.rows = {s}, !.filter = call.filter]
    BY <1>0, <2>1 DEF Done, Call
  <2> DEFINE R == {s}
  <2>4. R \in SUBSET Subs /\ \A x \in R : Allows(call.reach, FormOf[x])
    BY <2>2
  <2> HIDE DEF R
  <2>5. /\ call' \in Call /\ call'.tool = call.tool /\ call'.arg = call.arg
        /\ call'.reach = call.reach /\ call'.todo = Tail(call.todo)
        /\ call'.rows = R /\ call'.filter = call.filter
    BY <1>3, <1>4, <2>1, <2>3, <2>4 DEF R
  <2>6. /\ \A x \in call'.rows : Allows(call.reach, FormOf[x])
        /\ Allows(call.reach, FormOf[call.arg.sub])
    BY <2>2, <2>4, <2>5
  <2> QED  BY <2>1, <2>5, <2>6, Proceeds
<1>11. CASE FormKnown
  <2> DEFINE f == call.arg.form
  <2>1. /\ Runs("FormKnown") /\ f \in Names(Live, row, call.reach)
        /\ call' = [Done EXCEPT !.filter = OnlyForms({f})]
    BY <1>11 DEF FormKnown
  <2>2. f \in Forms /\ Allows(call.reach, f) /\ OnlyForms({f}) \in FormScopes
    BY <2>1, NamesAllowed DEF Live, OnlyForms, FormScopes
  <2>3. call' = [call EXCEPT !.todo = Tail(@), !.rows = call.rows, !.filter = OnlyForms({f})]
    BY <1>0, <2>1 DEF Done, Call
  <2>4. /\ call' \in Call /\ call'.tool = call.tool /\ call'.arg = call.arg
        /\ call'.reach = call.reach /\ call'.todo = Tail(call.todo)
        /\ call'.rows = call.rows /\ call'.filter = OnlyForms({f})
    BY <1>3, <1>4, <2>1, <2>2, <2>3
  <2>5. /\ \A x \in call'.rows : Allows(call.reach, FormOf[x])
        /\ call'.filter = OnlyForms({call.arg.form}) /\ Allows(call.reach, call.arg.form)
    BY <1>4, <2>2, <2>4
  <2>6. "FormKnown" # "InScope"
    OBVIOUS
  <2> HIDE DEF f
  <2> QED  BY <2>1, <2>4, <2>5, <2>6, Proceeds
<1>12. CASE MarkRead \/ MarkAllRead \/ DeleteHeld \/ ClearHeld
  BY <1>5, <1>12 DEF MarkRead, MarkAllRead, DeleteHeld, ClearHeld, Lookups
<1>13. CASE MarkSpam
  BY <1>2, <1>5, <1>13 DEF MarkSpam, Lookups
<1>14. CASE DeleteSubmission
  <2>1. Runs("DeleteSubmission") /\ call' = [Done EXCEPT !.rows = {}]
    BY <1>14 DEF DeleteSubmission
  <2>2. "DeleteSubmission" \notin Lookups
    BY DEF Lookups
  <2> DEFINE R == {}
  <2>3. R \in SUBSET Subs /\ (\A s \in R : Allows(call.reach, FormOf[s])) /\ call' = [Done EXCEPT !.rows = R]
    BY <2>1
  <2> HIDE DEF R
  <2> QED  BY <1>6, <2>1, <2>2, <2>3
<1>15. CASE AddFilterRule
  BY <1>2, <1>5, <1>15 DEF AddFilterRule, Lookups
<1> QED
  BY <1>1, <1>2, <1>7, <1>8, <1>9, <1>10, <1>11, <1>12, <1>13, <1>14, <1>15
     DEF Next, Start, Stop, ReplaceFile, CreateForm, DeleteForm, Restore, OperatorDeletes, Arrive,
         Revoke, Expire, ChooseAccess, CreateAPIToken, Refuse, Fail, Answer

-----------------------------------------------------------------------------
(* The invariant                                                           *)

LEMMA InitInv == Init => IInv
<1> SUFFICES ASSUME Init PROVE IInv
  OBVIOUS
<1>1. OnlyForms({}) \in FormScopes
  BY DEF OnlyForms, FormScopes
<1>2. Idle \in Call
  BY <1>1, NoArgsType DEF Idle, Call
<1>3. NoToken \in Token /\ NoMint \in Mint
  BY DEF NoToken, Token, NoMint, Mint
<1>4. row \in [Subs -> Row]
  <2>1. [NoRow EXCEPT !.state = "inbox"] \in Row /\ NoRow \in Row
    BY DEF NoRow, Row
  <2>2. row \in [Subs -> {NoRow, [NoRow EXCEPT !.state = "inbox"]}]
    BY DEF Init
  <2> DEFINE r == [NoRow EXCEPT !.state = "inbox"]
  <2> HIDE DEF r
  <2> QED  BY <2>1, <2>2 DEF r
<1>5. TypeOK
  BY <1>2, <1>3, <1>4 DEF Init, TypeOK
<1>6. MintInv
  BY DEF Init, MintInv, AsAsked, NoToken
<1>7. call = Idle
  BY DEF Init
<1>8. CallInv
  <2>1. call.tool = "none" /\ call.todo = <<>> /\ call.rows = {} /\ call.filter = call.reach
    BY <1>7 DEF Idle
  <2>2. call.tool \notin LooksUpSub \cup LooksUpForm /\ ~RequireAllForms(call.tool)
    BY <2>1 DEF LooksUpSub, LooksUpForm, RequireAllForms
  <2>3. \A k \in 1..Len(call.todo) : FALSE
    BY <2>1
  <2> QED  BY <2>1, <2>2, <2>3 DEF CallInv
<1>9. IndexInv
  <2>1. index = {} /\ ~up
    BY DEF Init
  <2>2. IsFiniteSet(Exists(row))
    BY FormOfAssumption, FS_Subset DEF Exists
  <2>3. CASE Exists(row) = {}
    BY <2>1, <2>3 DEF IndexInv, Apart
  <2>4. CASE Exists(row) # {}
    BY <2>1, <2>2, <2>4, FS_EmptySet DEF IndexInv
  <2> QED  BY <2>3, <2>4
<1> QED  BY <1>5, <1>6, <1>8, <1>9 DEF IInv

LEMMA NextInv == IInv /\ [Next]_vars => IInv'
<1> SUFFICES ASSUME IInv, [Next]_vars PROVE IInv'
  OBVIOUS
<1>1. CASE Next
  BY <1>1, MintKept, DataKept, CallKept DEF IInv, TypeOK, DataType
<1>2. CASE UNCHANGED vars
  <2>1. /\ form' = form /\ row' = row /\ rules' = rules /\ index' = index /\ up' = up
        /\ astray' = astray /\ token' = token /\ mint' = mint /\ call' = call
    BY <1>2 DEF vars
  <2>2. TypeOK'
    BY <2>1 DEF IInv, TypeOK
  <2>3. MintInv'
    BY <2>1 DEF IInv, MintInv
  <2>4. CallInv'
    BY <2>1 DEF IInv, CallInv
  <2>5. IndexInv'
    BY <2>1 DEF IInv, IndexInv, Exists
  <2> QED  BY <2>2, <2>3, <2>4, <2>5 DEF IInv
<1> QED  BY <1>1, <1>2

\* Every reachable state satisfies the inductive invariant.
THEOREM Invariance == Spec => []IInv
<1> QED  BY InitInv, NextInv, PTL DEF Spec

\* Every row, token, choice and call is one the program can hold.
THEOREM TypeCorrect == Spec => []TypeOK
<1>1. IInv => TypeOK
  BY DEF IInv
<1> QED  BY <1>1, Invariance, PTL

-----------------------------------------------------------------------------
(* Tokens                                                                  *)

\* However the radio and the boxes of the token form disagree, and whatever
\* form is deleted between the check of the choice and its insert, the token
\* reaches no form its owner did not tick, unless every form was asked for.
THEOREM AskedFor == Spec => []NeverMoreThanAsked
<1>1. IInv => NeverMoreThanAsked
  <2> SUFFICES ASSUME IInv, NEW t \in Tokens
               PROVE  LET tok == token[t]
                      IN  /\ tok.state # "none" /\ ~tok.asked.all =>
                               Reaches(ParseFormScope(tok.column)) \subseteq tok.asked.forms
                          /\ tok.scopes \subseteq ScopeNames
    BY DEF NeverMoreThanAsked
  <2>1. token[t] \in Token /\ AsAsked(token[t])
    BY DEF IInv, TypeOK, MintInv
  <2> QED  BY <2>1 DEF Token, AsAsked, Reaches, ParseFormScope, OnlyForms, Allows
<1> QED  BY <1>1, Invariance, PTL

-----------------------------------------------------------------------------
(* The index                                                               *)

\* Whenever the process serves, the search index errs in nothing but what a
\* file was put in place with, indexed wrong in as many rows as it had.
THEOREM IndexErrs == Spec => []OnlyTheFileErrs
<1>1. IInv => OnlyTheFileErrs
  BY DEF IInv, IndexInv, OnlyTheFileErrs
<1> QED  BY <1>1, Invariance, PTL

-----------------------------------------------------------------------------
(* What a bounded call changes                                             *)

\* The rows that go are within the bound a filter sets.
LEMMA GoneWithin ==
  ASSUME IInv, NEW S, NEW scope, \A s \in S : Allows(scope, FormOf[s]),
         \A f : Allows(scope, f) => Allows(call.reach, f),
         Write(Gone(row, S)), ~call.reach.all
  PROVE  \A s \in Subs : row'[s] # row[s] => FormOf[s] \in call.reach.ids
<1>1. row \in [Subs -> Row]
  BY DEF IInv, TypeOK
<1>2. \A s \in Subs : Gone(row, S)[s] # row[s] => s \in S
  BY <1>1, GoneType
<1> QED  BY <1>2 DEF Write, Allows

LEMMA FilterWithin ==
  ASSUME IInv
  PROVE  \A f : Allows(call.filter, f) => Allows(call.reach, f)
BY DEF IInv, CallInv, OnlyForms, Allows

\* No call of a token bound to some forms changes a row of another form, a
\* form, a rule or a token, whatever moved between two of its statements.
THEOREM BoundHolds == Spec => BoundedStaysInside
<1> DEFINE A == call' # call /\ up' /\ ~call.reach.all /\ call # Idle =>
                 /\ \A s \in Subs : row'[s] # row[s] => FormOf[s] \in call.reach.ids
                 /\ UNCHANGED <<form, rules, token>>
<1>1. ASSUME IInv, Next PROVE A
  <2> SUFFICES ASSUME call' # call, up', ~call.reach.all, call # Idle
               PROVE  /\ \A s \in Subs : row'[s] # row[s] => FormOf[s] \in call.reach.ids
                      /\ UNCHANGED <<form, rules, token>>
    OBVIOUS
  <2> USE <1>1
  <2>1. row \in [Subs -> Row]
    BY DEF IInv, TypeOK
  <2>2. CASE Observe \/ ReadRows \/ InScope \/ FormKnown \/ Refuse \/ Fail \/ Answer
    BY <2>2 DEF Observe, ReadRows, InScope, FormKnown, Refuse, Fail, Answer
  <2>3. CASE MarkRead
    <3>1. Runs("MarkRead") /\ UNCHANGED <<form, rules, token>>
      BY <2>3 DEF MarkRead
    <3>2. call.tool = "mark_read" /\ Head(call.todo) = "MarkRead"
      BY <3>1, RunsFacts
    <3>3. Allows(call.reach, FormOf[call.arg.sub])
      BY <3>2 DEF IInv, CallInv, LooksUpSub
    <3>4. \A s \in Subs : row'[s] # row[s] => s = call.arg.sub
      BY <2>1, <2>3 DEF MarkRead, Write, Exists
    <3> QED  BY <3>1, <3>3, <3>4 DEF Allows
  <2>4. CASE MarkAllRead
    <3>1. Runs("MarkAllRead") /\ UNCHANGED <<form, rules, token>>
      BY <2>4 DEF MarkAllRead
    <3>2. call.tool = "mark_all_read" /\ Head(call.todo) = "MarkAllRead" /\ call.arg.form # None
      BY <3>1, RunsFacts
    <3>3. Allows(call.reach, call.arg.form)
      BY <3>2 DEF IInv, CallInv, LooksUpForm
    <3>4. \A s \in Subs : row'[s] # row[s] => FormOf[s] = call.arg.form
      BY <2>1, <2>4 DEF MarkAllRead, Write
    <3> QED  BY <3>1, <3>3, <3>4 DEF Allows
  <2>5. CASE MarkSpam
    <3>1. Runs("MarkSpam") /\ UNCHANGED <<form, rules, token>>
      BY <2>5 DEF MarkSpam
    <3>2. call.tool = "mark_spam" /\ Head(call.todo) = "MarkSpam"
      BY <3>1, RunsFacts
    <3>3. Allows(call.reach, FormOf[call.arg.sub])
      BY <3>2 DEF IInv, CallInv, LooksUpSub
    <3>4. \A s \in Subs : row'[s] # row[s] => s = call.arg.sub
      BY <2>1, <2>5 DEF MarkSpam, Write, Inbox, Exists
    <3> QED  BY <3>1, <3>3, <3>4 DEF Allows
  <2>6. CASE DeleteSubmission
    <3>1. Runs("DeleteSubmission") /\ Write(Gone(row, {call.arg.sub})) /\ UNCHANGED <<form, rules, token>>
      BY <2>6 DEF DeleteSubmission
    <3>2. call.tool = "delete_submission" /\ Head(call.todo) = "DeleteSubmission"
      BY <3>1, RunsFacts
    <3>3. Allows(call.reach, FormOf[call.arg.sub])
      BY <3>2 DEF IInv, CallInv, LooksUpSub
    <3> QED  BY <3>1, <3>3, GoneWithin
  <2>7. CASE DeleteHeld
    <3> DEFINE S == In(call.arg.ids \cap Held(row), call.reach)
    <3>1. Write(Gone(row, S)) /\ UNCHANGED <<form, rules, token>>
      BY <2>7 DEF DeleteHeld
    <3>2. \A s \in S : Allows(call.reach, FormOf[s])
      BY DEF In
    <3> HIDE DEF S
    <3> QED  BY <3>1, <3>2, GoneWithin
  <2>8. CASE ClearHeld
    <3> DEFINE S == HeldSubmissionsWhere(row, call.filter)
    <3>1. (Write(Gone(row, S)) \/ Write(row)) /\ UNCHANGED <<form, rules, token>>
      BY <2>8 DEF ClearHeld
    <3>2. \A s \in S : Allows(call.filter, FormOf[s])
      BY DEF HeldSubmissionsWhere, In
    <3> HIDE DEF S
    <3>3. CASE Write(row)
      BY <3>1, <3>3 DEF Write
    <3>4. CASE Write(Gone(row, S))
      BY <3>1, <3>2, <3>4, GoneWithin, FilterWithin
    <3> QED  BY <3>1, <3>3, <3>4
  <2>9. CASE AddFilterRule
    <3>1. Runs("AddFilterRule")
      BY <2>9 DEF AddFilterRule
    <3>2. call.tool = "add_block_rule"
      BY <3>1, RunsFacts
    <3> QED  BY <3>2 DEF IInv, CallInv, RequireAllForms
  <2>10. CASE \E t \in Tokens, tool \in Tools : \E arg \in Arguments(tool) : Verify(t, tool, arg)
    BY <2>10 DEF Verify
  <2>11. CASE Start \/ Stop \/ CreateAPIToken
    BY <2>11 DEF Start, Stop, CreateAPIToken
  <2>12. CASE \E S, docs \in SUBSET Subs : ReplaceFile(S, docs)
    BY <2>12 DEF ReplaceFile
  <2>13. CASE \E f \in Forms : CreateForm(f) \/ DeleteForm(f)
    BY <2>13 DEF CreateForm, DeleteForm
  <2>14. CASE \E s \in Subs : Restore(s) \/ OperatorDeletes(s) \/ \E held \in BOOLEAN : Arrive(s, held)
    BY <2>14 DEF Restore, OperatorDeletes, Arrive
  <2>15. CASE \E t \in Tokens : Revoke(t) \/ Expire(t)
    BY <2>15 DEF Revoke, Expire
  <2>16. CASE \E t \in Tokens, scopes \in ScopeChoices, radio \in {"all", "listed"}, ticked \in SUBSET Forms :
                ChooseAccess(t, scopes, radio, ticked)
    BY <2>16 DEF ChooseAccess
  <2> QED
    BY <2>2, <2>3, <2>4, <2>5, <2>6, <2>7, <2>8, <2>9, <2>10, <2>11, <2>12, <2>13, <2>14, <2>15, <2>16
       DEF Next
<1>2. IInv /\ [Next]_vars => [A]_vars
  BY <1>1
<1>3. Spec => [][A]_vars
  BY <1>2, Invariance, PTL DEF Spec
<1> QED  BY <1>3 DEF BoundedStaysInside

-----------------------------------------------------------------------------
(* What a bounded call reads                                               *)

\* The rows of a database that held only the bound's forms.
LEMMA OnlyRows ==
  ASSUME NEW ids
  PROVE  /\ \A s \in Subs : FormOf[s] \in ids => Only(ids)[s] = row[s]
         /\ Exists(Only(ids)) = {s \in Exists(row) : FormOf[s] \in ids}
         /\ Inbox(Only(ids)) = {s \in Inbox(row) : FormOf[s] \in ids}
         /\ Held(Only(ids)) = {s \in Held(row) : FormOf[s] \in ids}
<1>1. \A s \in Subs : Only(ids)[s] = IF FormOf[s] \in ids THEN row[s] ELSE NoRow
  BY DEF Only
<1>2. NoRow.state = "none"
  BY DEF NoRow
<1>3. Exists(Only(ids)) = {s \in Exists(row) : FormOf[s] \in ids}
  BY <1>1, <1>2 DEF Exists
<1>4. \A s \in Exists(Only(ids)) : Only(ids)[s] = row[s]
  BY <1>1, <1>3 DEF Exists
<1> QED  BY <1>1, <1>3, <1>4 DEF Inbox, Held

\* Bounded to a scope, or without a bound where there is nothing else.
LEMMA InOnly ==
  ASSUME NEW ids, NEW scope, ~scope.all, scope.ids = ids
  PROVE  /\ In(Exists(row), scope) = In(Exists(Only(ids)), AllForms)
         /\ In(Inbox(row), scope) = In(Inbox(Only(ids)), AllForms)
         /\ In(Held(row), scope) = In(Held(Only(ids)), AllForms)
         /\ \A s \in In(Exists(row), scope) : Only(ids)[s] = row[s]
BY OnlyRows DEF In, Allows, AllForms, Exists

\* So a filter within the bound finds the same rows.
LEMMA HeldOnly ==
  ASSUME IInv, ~call.reach.all
  PROVE  HeldSubmissionsWhere(row, call.filter) =
           HeldSubmissionsWhere(Only(call.reach.ids),
                                IF call.filter = call.reach THEN AllForms ELSE call.filter)
<1> DEFINE ids == call.reach.ids
<1>1. CASE call.filter = call.reach
  BY <1>1, InOnly DEF HeldSubmissionsWhere
<1>2. CASE call.filter # call.reach
  <2>1. call.filter = OnlyForms({call.arg.form}) /\ call.arg.form \in ids
    BY <1>2 DEF IInv, CallInv, Allows
  <2>2. \A f : Allows(call.filter, f) => f \in ids
    BY <2>1 DEF Allows, OnlyForms
  <2>3. In(Held(row), call.filter) = In(Held(Only(ids)), call.filter)
    BY <2>2, OnlyRows DEF In
  <2> QED  BY <1>2, <2>3 DEF HeldSubmissionsWhere
<1> QED  BY <1>1, <1>2

\* Per form, every count is that of a database that held only the bound's.
LEMMA CountsOnly ==
  ASSUME NEW ids, NEW f \in ids
  PROVE  /\ {s \in Inbox(row) : FormOf[s] = f} = {s \in Inbox(Only(ids)) : FormOf[s] = f}
         /\ {s \in Held(row) : FormOf[s] = f} = {s \in Held(Only(ids)) : FormOf[s] = f}
         /\ {s \in Inbox(row) : FormOf[s] = f /\ ~row[s].read} =
               {s \in Inbox(Only(ids)) : FormOf[s] = f /\ ~Only(ids)[s].read}
         /\ {s \in {s \in Inbox(row) : ~row[s].read} : FormOf[s] = f} =
               {s \in {s \in Inbox(Only(ids)) : ~Only(ids)[s].read} : FormOf[s] = f}
         /\ {s \in {s \in Inbox(row) : row[s].read} : FormOf[s] = f} =
               {s \in {s \in Inbox(Only(ids)) : Only(ids)[s].read} : FormOf[s] = f}
<1>1. Inbox(row) \subseteq Subs
  BY DEF Inbox, Exists
<1> QED  BY <1>1, OnlyRows

LEMMA FormsOnly ==
  ASSUME NEW scope, ~scope.all
  PROVE  /\ {g \in Live : Allows(scope, g)} = {g \in Live \cap scope.ids : Allows(AllForms, g)}
         /\ \A g \in {g \in Live : Allows(scope, g)} : g \in scope.ids
BY DEF Allows, AllForms

LEMMA ListFormsOnly ==
  ASSUME NEW scope, ~scope.all
  PROVE  ListForms(Live, row, scope) = ListForms(Live \cap scope.ids, Only(scope.ids), AllForms)
<1> DEFINE G == {g \in Live : Allows(scope, g)}
           u(f) == Cardinality({s \in Inbox(row) : FormOf[s] = f /\ ~row[s].read})
           v(f) == Cardinality({s \in Inbox(Only(scope.ids)) :
                                  FormOf[s] = f /\ ~Only(scope.ids)[s].read})
<1>1. \A f \in G : u(f) = v(f)
  <2> SUFFICES ASSUME NEW f \in scope.ids PROVE u(f) = v(f)
    BY FormsOnly
  <2>1. {s \in Inbox(row) : FormOf[s] = f /\ ~row[s].read} =
          {s \in Inbox(Only(scope.ids)) : FormOf[s] = f /\ ~Only(scope.ids)[s].read}
    BY CountsOnly
  <2> QED  BY ONLY <2>1
<1>2. ListForms(Live, row, scope) = {[form |-> f, unread |-> u(f)] : f \in G}
  BY DEF ListForms
<1>3. G = {g \in Live \cap scope.ids : Allows(AllForms, g)}
  BY FormsOnly
<1>4. ListForms(Live \cap scope.ids, Only(scope.ids), AllForms) =
        {[form |-> f, unread |-> v(f)] : f \in G}
  BY <1>3 DEF ListForms
<1> HIDE DEF G, u, v
<1> QED  BY <1>1, <1>2, <1>4

LEMMA PerFormStatsOnly ==
  ASSUME NEW scope, ~scope.all
  PROVE  PerFormStats(Live, row, scope) = PerFormStats(Live \cap scope.ids, Only(scope.ids), AllForms)
<1> DEFINE G == {g \in Live : Allows(scope, g)}
           count(f, rows) == Cardinality({s \in rows : FormOf[s] = f})
           line(rs, f) == [form |-> f, received |-> count(f, Inbox(rs)), held |-> count(f, Held(rs)),
                           unread |-> count(f, {s \in Inbox(rs) : ~rs[s].read}),
                           read |-> count(f, {s \in Inbox(rs) : rs[s].read})]
           u(f) == line(row, f)
           v(f) == line(Only(scope.ids), f)
<1>1. \A f \in G : u(f) = v(f)
  <2> SUFFICES ASSUME NEW f \in scope.ids PROVE u(f) = v(f)
    BY FormsOnly
  <2> DEFINE rs == Only(scope.ids)
  <2>1. {s \in Inbox(row) : FormOf[s] = f} = {s \in Inbox(rs) : FormOf[s] = f}
    BY CountsOnly
  <2>2. {s \in Held(row) : FormOf[s] = f} = {s \in Held(rs) : FormOf[s] = f}
    BY CountsOnly
  <2>3. {s \in {s \in Inbox(row) : ~row[s].read} : FormOf[s] = f} =
          {s \in {s \in Inbox(rs) : ~rs[s].read} : FormOf[s] = f}
    BY CountsOnly
  <2>4. {s \in {s \in Inbox(row) : row[s].read} : FormOf[s] = f} =
          {s \in {s \in Inbox(rs) : rs[s].read} : FormOf[s] = f}
    BY CountsOnly
  <2>5. count(f, Inbox(row)) = count(f, Inbox(rs))
    BY ONLY <2>1
  <2>6. count(f, Held(row)) = count(f, Held(rs))
    BY ONLY <2>2
  <2>7. count(f, {s \in Inbox(row) : ~row[s].read}) = count(f, {s \in Inbox(rs) : ~rs[s].read})
    BY ONLY <2>3
  <2>8. count(f, {s \in Inbox(row) : row[s].read}) = count(f, {s \in Inbox(rs) : rs[s].read})
    BY ONLY <2>4
  <2> HIDE DEF count
  <2> QED  BY <2>5, <2>6, <2>7, <2>8
<1>2. PerFormStats(Live, row, scope) = {u(f) : f \in G}
  BY DEF PerFormStats
<1>3. G = {g \in Live \cap scope.ids : Allows(AllForms, g)}
  BY FormsOnly
<1>4. PerFormStats(Live \cap scope.ids, Only(scope.ids), AllForms) = {v(f) : f \in G}
  BY <1>3 DEF PerFormStats
<1> HIDE DEF G, u, v
<1> QED  BY <1>1, <1>2, <1>4

\* The counts of the navigation without what is told of the waitlists.
Told(n) == [n EXCEPT !.waitlistKnown = FALSE]

LEMMA ToldIs ==
  ASSUME NEW u, NEW h, NEW w
  PROVE  Told([unread |-> u, held |-> h, waitlistKnown |-> w]) =
           [unread |-> u, held |-> h, waitlistKnown |-> FALSE]
<1> DEFINE n == [unread |-> u, held |-> h, waitlistKnown |-> w]
           no == FALSE
<1>1. n \in [{"unread", "held", "waitlistKnown"} -> {u, h, w}]
  OBVIOUS
<1>2. n.unread = u /\ n.held = h /\ n.waitlistKnown = w
  OBVIOUS
<1>3. no = FALSE
  OBVIOUS
<1> HIDE DEF n, no
<1>4. [n EXCEPT !.waitlistKnown = no] = [unread |-> u, held |-> h, waitlistKnown |-> no]
  BY <1>1, <1>2
<1> QED  BY <1>3, <1>4 DEF Told, n

\* What each statement is given.
LEMMA ResultIs ==
  ASSUME NEW st, NEW fs, NEW rs, NEW reach, NEW filter
  PROVE  /\ st = "ListForms" => Result(st, fs, rs, reach, filter) = ListForms(fs, rs, reach)
         /\ st = "PerFormStats" => Result(st, fs, rs, reach, filter) = PerFormStats(fs, rs, reach)
         /\ st = "CountHeld" => Result(st, fs, rs, reach, filter) = CountHeld(rs, filter)
         /\ st = "NavCounts" => Result(st, fs, rs, reach, filter) = Told(NavCounts(rs, reach))
         /\ st = "CountAllSubmissions" =>
              Result(st, fs, rs, reach, filter) = CountAllSubmissions(rs, reach)
         /\ st = "HeldSince" => Result(st, fs, rs, reach, filter) = HeldSince(rs, reach)
         /\ st = "SubmissionsPerDay" => Result(st, fs, rs, reach, filter) = SubmissionsPerDay(rs, reach)
         /\ st = "TopSpamSignals" => Result(st, fs, rs, reach, filter) = TopSpamSignals(rs, reach)
         /\ st = "SubmissionSignals" =>
              Result(st, fs, rs, reach, filter) = SubmissionSignals(rs, call.rows)
         /\ st = "InScope" => Result(st, fs, rs, reach, filter) = GetInScope(rs, call.arg.sub, reach)
         /\ st = "FormKnown" =>
              Result(st, fs, rs, reach, filter) = (call.arg.form \in Names(fs, rs, reach))
         /\ st \in Queries => Result(st, fs, rs, reach, filter) = Listed(st, fs, rs, reach, filter)
<1>1. CASE st = "ListForms"
  BY <1>1 DEF Result, Queries
<1>2. CASE st = "PerFormStats"
  BY <1>2 DEF Result, Queries
<1>3. CASE st = "CountHeld"
  BY <1>3 DEF Result, Queries
<1>4. CASE st = "NavCounts"
  BY <1>4 DEF Result, Queries, Told
<1>5. CASE st = "CountAllSubmissions"
  BY <1>5 DEF Result, Queries
<1>6. CASE st = "HeldSince"
  BY <1>6 DEF Result, Queries
<1>7. CASE st = "SubmissionsPerDay"
  BY <1>7 DEF Result, Queries
<1>8. CASE st = "TopSpamSignals"
  BY <1>8 DEF Result, Queries
<1>9. CASE st = "SubmissionSignals"
  BY <1>9 DEF Result, Queries
<1>10. CASE st = "InScope"
  BY <1>10 DEF Result, Queries
<1>11. CASE st = "FormKnown"
  BY <1>11 DEF Result, Queries
<1>12. CASE st \in Queries
  BY <1>12 DEF Result, Queries
<1> QED  BY <1>1, <1>2, <1>3, <1>4, <1>5, <1>6, <1>7, <1>8, <1>9, <1>10, <1>11, <1>12

\* Every statement of a bounded call reads what it would without a bound in a
\* database that held the bound's forms and nothing else: no count, name, row
\* or refusal tells of another form.  Of a search the answers it may give are
\* compared, not which of its matches come first.
THEOREM TellsNothing == Spec => []AsIfOnlyItsForms
<1>1. ASSUME IInv PROVE AsIfOnlyItsForms
  <2> USE <1>1
  <2> DEFINE ids  == call.reach.ids
             Open == IF call.filter = call.reach THEN AllForms ELSE call.filter
             st   == Head(call.todo)
             Same == Result(st, Live, row, call.reach, call.filter)
                       = Result(st, Live \cap ids, Only(ids), AllForms, Open)
  <2> SUFFICES ASSUME call.todo # <<>>, ~call.reach.all PROVE Same
    BY DEF AsIfOnlyItsForms
  <2>1. In(Exists(row), call.reach) = In(Exists(Only(ids)), AllForms)
    BY InOnly
  <2>2. In(Inbox(row), call.reach) = In(Inbox(Only(ids)), AllForms)
    BY InOnly
  <2>3. In(Held(row), call.reach) = In(Held(Only(ids)), AllForms)
    BY InOnly
  <2>4. \A s \in In(Exists(row), call.reach) : Only(ids)[s] = row[s]
    BY InOnly
  <2>5. HeldSubmissionsWhere(row, call.filter) = HeldSubmissionsWhere(Only(ids), Open)
    BY HeldOnly
  <2>6. In(Inbox(row), call.reach) \subseteq In(Exists(row), call.reach)
    BY DEF In, Inbox
  <2>7. CountHeld(row, call.reach) = CountHeld(Only(ids), AllForms)
    BY <2>3 DEF CountHeld, HeldSubmissionsWhere
  <2>8. CountAllSubmissions(row, call.reach) = CountAllSubmissions(Only(ids), AllForms)
    BY <2>2 DEF CountAllSubmissions
  <2> HIDE DEF ids, Open, st
  <2>9. CASE st = "ListForms"
    BY ResultIs, <2>9, ListFormsOnly DEF ids
  <2>10. CASE st = "PerFormStats"
    BY ResultIs, <2>10, PerFormStatsOnly DEF ids
  <2>11. CASE st = "CountHeld"
    BY ResultIs, <2>5, <2>11 DEF CountHeld
  <2>12. CASE st = "NavCounts"
    <3>1. {s \in In(Inbox(row), call.reach) : ~row[s].read} =
            {s \in In(Inbox(Only(ids)), AllForms) : ~Only(ids)[s].read}
      BY <2>2, <2>4, <2>6
    <3> DEFINE u == Cardinality({s \in In(Inbox(row), call.reach) : ~row[s].read})
               v == Cardinality({s \in In(Inbox(Only(ids)), AllForms) : ~Only(ids)[s].read})
    <3>2. u = v
      BY ONLY <3>1
    <3>3. /\ NavCounts(row, call.reach) =
               [unread |-> u, held |-> CountHeld(row, call.reach), waitlistKnown |-> call.reach.all]
          /\ NavCounts(Only(ids), AllForms) =
               [unread |-> v, held |-> CountHeld(Only(ids), AllForms), waitlistKnown |-> AllForms.all]
      BY DEF NavCounts
    <3> HIDE DEF u, v
    <3>4. Told(NavCounts(row, call.reach)) = Told(NavCounts(Only(ids), AllForms))
      BY <2>7, <3>2, <3>3, ToldIs
    <3> QED  BY <2>12, <3>4, ResultIs
  <2>13. CASE st = "CountAllSubmissions"
    BY ResultIs, <2>8, <2>13
  <2>14. CASE st = "HeldSince"
    BY ResultIs, <2>1, <2>7, <2>14 DEF HeldSince
  <2>15. CASE st = "SubmissionsPerDay"
    BY ResultIs, <2>7, <2>8, <2>15 DEF SubmissionsPerDay
  <2>16. CASE st = "TopSpamSignals"
    <3>1. \A check : {s \in In(Exists(row), call.reach) : check \in row[s].why} =
                     {s \in In(Exists(Only(ids)), AllForms) : check \in Only(ids)[s].why}
      BY <2>1, <2>4
    <3> DEFINE u(check) == Cardinality({s \in In(Exists(row), call.reach) : check \in row[s].why})
               v(check) == Cardinality({s \in In(Exists(Only(ids)), AllForms) : check \in Only(ids)[s].why})
    <3>2. \A check : u(check) = v(check)
      <4> TAKE check
      <4>1. {s \in In(Exists(row), call.reach) : check \in row[s].why} =
              {s \in In(Exists(Only(ids)), AllForms) : check \in Only(ids)[s].why}
        BY <3>1
      <4> QED  BY ONLY <4>1
    <3>3. /\ TopSpamSignals(row, call.reach) = [check \in {"screened", "manual"} |-> u(check)]
          /\ TopSpamSignals(Only(ids), AllForms) = [check \in {"screened", "manual"} |-> v(check)]
      BY DEF TopSpamSignals
    <3> HIDE DEF u, v
    <3>4. TopSpamSignals(row, call.reach) = TopSpamSignals(Only(ids), AllForms)
      BY <3>2, <3>3
    <3> QED  BY ResultIs, <2>16, <3>4
  <2>17. CASE st = "SubmissionSignals"
    <3>1. call.rows \subseteq Subs /\ \A s \in call.rows : FormOf[s] \in ids
      BY DEF IInv, TypeOK, Call, CallInv, Allows, ids
    <3>2. call.rows \cap Exists(row) = call.rows \cap Exists(Only(ids))
      BY <3>1, OnlyRows
    <3>3. \A s \in call.rows : Only(ids)[s] = row[s]
      BY <3>1, OnlyRows
    <3> DEFINE R == call.rows \cap Exists(row)
               u(s) == <<s, row[s].why>>
               v(s) == <<s, Only(ids)[s].why>>
    <3>4. \A s \in R : u(s) = v(s)
      BY <3>3
    <3>5. SubmissionSignals(row, call.rows) = {u(s) : s \in R}
      BY DEF SubmissionSignals
    <3>6. SubmissionSignals(Only(ids), call.rows) = {v(s) : s \in R}
      BY <3>2 DEF SubmissionSignals
    <3>7. {u(s) : s \in R} = {v(s) : s \in R}
      <4> HIDE DEF R, u, v
      <4> QED  BY <3>4
    <3>8. SubmissionSignals(row, call.rows) = SubmissionSignals(Only(ids), call.rows)
      BY ONLY <3>5, <3>6, <3>7
    <3> HIDE DEF R, u, v
    <3> QED  BY ResultIs, <2>17, <3>8
  <2>18. GetInScope(row, call.arg.sub, call.reach) = GetInScope(Only(ids), call.arg.sub, AllForms)
    <3> DEFINE R == In(Exists(row) \cap {call.arg.sub}, call.reach)
    <3>1. In(Exists(Only(ids)) \cap {call.arg.sub}, AllForms) = R
      BY <2>1 DEF In
    <3>2. \A s \in R : Only(ids)[s] = row[s]
      BY <2>4 DEF In
    <3> HIDE DEF R
    <3> QED  BY <3>1, <3>2 DEF GetInScope, R
  <2>19. CASE st = "InScope"
    BY ResultIs, <2>18, <2>19
  <2>20. CASE st = "FormKnown"
    <3>1. Names(Live, row, call.reach) = Names(Live \cap ids, Only(ids), AllForms)
      BY ListFormsOnly DEF Names, ids
    <3> QED  BY ResultIs, <2>20, <3>1
  <2>21. CASE st = "ListSubmissionsFiltered"
    <3>1. \A f, status : ListSubmissionsFiltered(row, f, status, call.reach) =
                         ListSubmissionsFiltered(Only(ids), f, status, AllForms)
      BY <2>2, <2>4, <2>6 DEF ListSubmissionsFiltered
    <3>2. Listed(st, Live, row, call.reach, call.filter) =
            {ListSubmissionsFiltered(row, call.arg.form, call.arg.status, call.reach)}
      BY <2>21 DEF Listed
    <3>3. Listed(st, Live \cap ids, Only(ids), AllForms, Open) =
            {ListSubmissionsFiltered(Only(ids), call.arg.form, call.arg.status, AllForms)}
      BY <2>21 DEF Listed
    <3>4. st \in Queries
      BY <2>21 DEF Queries
    <3>5. Listed(st, Live, row, call.reach, call.filter) = Listed(st, Live \cap ids, Only(ids), AllForms, Open)
      BY <3>1, <3>2, <3>3
    <3> QED  BY ResultIs, <3>4, <3>5
  <2>22. CASE st = "SearchSubmissions"
    <3>1. \A s \in In(Inbox(row), call.reach) : FormOf[s] \in ids
      BY DEF In, Allows, ids
    <3> DEFINE matches == call.arg.matches
               limit == call.arg.limit
               here  == {s \in In(Inbox(row), call.reach) : s \in index \cap matches /\ FormOf[s] \in Live}
               there == {s \in In(Inbox(Only(ids)), AllForms) :
                           s \in index \cap matches /\ FormOf[s] \in Live \cap ids}
               Answers(found) == {answer \in SUBSET found :
                                    \/ Cardinality(answer) = limit
                                    \/ answer = found /\ Cardinality(found) <= limit}
    <3>2. here = there
      BY <2>2, <3>1
    <3>3. SearchSubmissions(Live, row, index, matches, limit, call.reach) = Answers(here)
      BY DEF SearchSubmissions
    <3>4. SearchSubmissions(Live \cap ids, Only(ids), index, matches, limit, AllForms) = Answers(there)
      BY DEF SearchSubmissions
    <3>5. Answers(here) = Answers(there)
      <4> HIDE DEF here, there
      <4> QED  BY <3>2
    <3> HIDE DEF here, there, Answers
    <3>6. Listed(st, Live, row, call.reach, call.filter) = Answers(here)
      BY <2>22, <3>3 DEF Listed
    <3>7. Listed(st, Live \cap ids, Only(ids), AllForms, Open) = Answers(there)
      BY <2>22, <3>4 DEF Listed
    <3>8. st \in Queries
      BY <2>22 DEF Queries
    <3> QED  BY ResultIs, <3>5, <3>6, <3>7, <3>8
  <2>23. CASE st = "HeldSubmissionsWhere"
    <3>1. Listed(st, Live, row, call.reach, call.filter) = {HeldSubmissionsWhere(row, call.filter)}
      BY <2>23 DEF Listed
    <3>2. Listed(st, Live \cap ids, Only(ids), AllForms, Open) = {HeldSubmissionsWhere(Only(ids), Open)}
      BY <2>23 DEF Listed
    <3>3. st \in Queries
      BY <2>23 DEF Queries
    <3>4. Listed(st, Live, row, call.reach, call.filter) = Listed(st, Live \cap ids, Only(ids), AllForms, Open)
      BY <2>5, <3>1, <3>2
    <3> QED  BY ResultIs, <3>3, <3>4
  <2>24. CASE st \notin {"ListForms", "PerFormStats", "CountHeld", "NavCounts", "CountAllSubmissions",
                        "HeldSince", "SubmissionsPerDay", "TopSpamSignals", "SubmissionSignals",
                        "InScope", "FormKnown"} \cup Queries
    BY <2>24 DEF Result
  <2> QED
    BY <2>9, <2>10, <2>11, <2>12, <2>13, <2>14, <2>15, <2>16, <2>17, <2>19, <2>20, <2>21, <2>22,
       <2>23, <2>24 DEF Queries
<1> QED  BY <1>1, Invariance, PTL

-----------------------------------------------------------------------------
(* Numbers in order                                                        *)

\* A set of naturals that is not empty has a smallest element.
LEMMA First ==
  ASSUME NEW S \in SUBSET Nat, S # {}
  PROVE  \E m \in S : \A y \in S : m <= y
<1> DEFINE Less == {ss \in Nat \X Nat : ss[1] < ss[2]}
<1>1. IsWellFoundedOn(Less, Nat)
  BY NatLessThanWellFounded DEF OpToRel
<1>2. PICK x \in S : \A y \in S : ~(<<y, x>> \in Less)
  <2> HIDE DEF Less
  <2> QED  BY <1>1, WFMin
<1>3. \A y \in S : x <= y
  <2> SUFFICES ASSUME NEW y \in S PROVE x <= y
    OBVIOUS
  <2>1. x \in Nat /\ y \in Nat
    OBVIOUS
  <2>2. <<y, x>> \in Less <=> y < x
    BY <2>1
  <2> QED  BY <1>2, <2>1, <2>2
<1> QED  BY <1>3

LEMMA MinIs ==
  ASSUME NEW S \in SUBSET Nat, S # {}
  PROVE  Min(S) \in S /\ \A y \in S : Min(S) <= y
BY First DEF Min

\* And a largest, if it is bounded.
LEMMA MaxIs ==
  ASSUME NEW n \in Nat, NEW S \in SUBSET (1..n), S # {}
  PROVE  Max(S) \in S /\ \A y \in S : y <= Max(S)
<1> DEFINE D == {d \in 0..n : n - d \in S}
<1>1. D \in SUBSET Nat /\ D # {}
  <2>1. PICK x \in S : x \in 1..n
    OBVIOUS
  <2>2. n - x \in 0..n /\ n - (n - x) = x
    BY <2>1
  <2>3. n - x \in D
    BY <2>1, <2>2
  <2>4. D \in SUBSET Nat
    OBVIOUS
  <2> HIDE DEF D
  <2> QED  BY <2>3, <2>4
<1>2. PICK d \in D : \A e \in D : d <= e
  <2> HIDE DEF D
  <2> QED  BY <1>1, First
<1>3. \A y \in S : y <= n - d
  <2> SUFFICES ASSUME NEW y \in S PROVE y <= n - d
    OBVIOUS
  <2>1. y \in 1..n /\ n - y \in 0..n /\ n - (n - y) = y
    OBVIOUS
  <2>2. n - y \in D
    BY <2>1
  <2>3. d \in 0..n
    BY <1>2
  <2>4. d <= n - y
    <3> HIDE DEF D
    <3> QED  BY <1>2, <2>2
  <2> QED  BY <2>1, <2>3, <2>4
<1>4. \E x \in S : \A y \in S : x >= y
  BY <1>2, <1>3
<1>5. Max(S) \in S /\ \A y \in S : Max(S) >= y
  BY <1>4 DEF Max
<1> QED  BY <1>5

\* What comes before an element of a set.
Below(S, i) == {j \in S : j < i}

LEMMA BelowIs ==
  ASSUME NEW S \in SUBSET Nat, IsFiniteSet(S), NEW i \in S
  PROVE  /\ IsFiniteSet(Below(S, i)) /\ Cardinality(Below(S, i)) \in Nat
         /\ Cardinality(S) \in Nat
         /\ IsFiniteSet(Below(S, i) \cup {i})
         /\ Cardinality(Below(S, i) \cup {i}) = Cardinality(Below(S, i)) + 1
         /\ Cardinality(Below(S, i)) < Cardinality(S)
         /\ \A k \in S : i < k => Cardinality(Below(S, i)) < Cardinality(Below(S, k))
<1>1. ASSUME NEW k PROVE IsFiniteSet(Below(S, k)) /\ Cardinality(Below(S, k)) \in Nat
  BY FS_Subset, FS_CardinalityType DEF Below
<1>2. /\ IsFiniteSet(Below(S, i) \cup {i})
      /\ Cardinality(Below(S, i) \cup {i}) = Cardinality(Below(S, i)) + 1
  <2>1. ~(i < i)
    OBVIOUS
  <2>2. i \notin Below(S, i)
    BY <2>1 DEF Below
  <2> QED  BY <1>1, <2>2, FS_AddElement
<1>3. Cardinality(S) \in Nat
  BY FS_CardinalityType
<1>4. ASSUME NEW T, IsFiniteSet(T), Cardinality(T) \in Nat, Below(S, i) \cup {i} \subseteq T
      PROVE  Cardinality(Below(S, i)) < Cardinality(T)
  BY <1>1, <1>2, <1>4, FS_Subset
<1>5. Cardinality(Below(S, i)) < Cardinality(S)
  BY <1>3, <1>4 DEF Below
<1>6. ASSUME NEW k \in S, i < k PROVE Cardinality(Below(S, i)) < Cardinality(Below(S, k))
  <2>1. Below(S, i) \cup {i} \subseteq Below(S, k)
    <3>1. \A j \in S : j < i => j < k
      BY <1>6
    <3> QED  BY <1>6, <3>1 DEF Below
  <2> QED  BY <1>1, <1>4, <2>1
<1> QED  BY <1>1, <1>2, <1>3, <1>5, <1>6

LEMMA BelowOrders ==
  ASSUME NEW S \in SUBSET Nat, IsFiniteSet(S), NEW i \in S, NEW j \in S
  PROVE  /\ Cardinality(Below(S, i)) < Cardinality(Below(S, j)) => i < j
         /\ Cardinality(Below(S, i)) = Cardinality(Below(S, j)) => i = j
<1> DEFINE c == Cardinality(Below(S, i))
           d == Cardinality(Below(S, j))
<1>1. c \in Nat /\ d \in Nat /\ i \in Nat /\ j \in Nat
  BY BelowIs
<1>2. ASSUME i < j PROVE c < d
  <2>1. \A k \in S : i < k => Cardinality(Below(S, i)) < Cardinality(Below(S, k))
    BY BelowIs
  <2> QED  BY <1>2, <2>1
<1>3. ASSUME j < i PROVE d < c
  <2>1. \A k \in S : j < k => Cardinality(Below(S, j)) < Cardinality(Below(S, k))
    BY BelowIs
  <2> QED  BY <1>3, <2>1
<1>4. (c < d => i < j) /\ (c = d => i = j)
  <2> HIDE DEF c, d
  <2>1. i < j \/ j < i \/ i = j
    BY <1>1
  <2>2. CASE i < j
    BY <1>1, <1>2, <2>2
  <2>3. CASE j < i
    BY <1>1, <1>3, <2>3
  <2>4. CASE i = j
    BY <1>1, <2>4 DEF c, d
  <2> QED  BY <2>1, <2>2, <2>3, <2>4
<1> QED  BY <1>4

\* Every count below the size is that of one element.
LEMMA NthExists ==
  ASSUME NEW S \in SUBSET Nat, IsFiniteSet(S), NEW k \in 1..Cardinality(S)
  PROVE  \E i \in S : Cardinality(Below(S, i)) = k - 1
<1> DEFINE n == Cardinality(S)
           D == {m \in 1..n : ~\E i \in S : Cardinality(Below(S, i)) = m - 1}
<1>1. n \in Nat
  BY FS_CardinalityType
<1>2. D = {}
  <2> SUFFICES ASSUME D # {} PROVE FALSE
    OBVIOUS
  <2>1. PICK m \in D : \A d \in D : m <= d
    <3>1. D \in SUBSET Nat
      BY <1>1
    <3> HIDE DEF D
    <3> QED  BY <3>1, First
  <2>2. CASE m = 1
    <3>1. S # {}
      BY <1>1, <2>1, FS_EmptySet
    <3>2. PICK i \in S : \A y \in S : i <= y
      BY <3>1, First
    <3>3. Below(S, i) = {}
      <4>1. \A y \in S : ~(y < i)
        BY <3>2
      <4> QED  BY <4>1 DEF Below
    <3>4. Cardinality(Below(S, i)) = m - 1
      BY <2>2, <3>3, FS_EmptySet
    <3> QED  BY <2>1, <3>4
  <2>3. CASE m # 1
    <3>1. m \in 1..n /\ m - 1 \in 1..n /\ m - 1 \notin D
      BY <1>1, <2>1, <2>3
    <3>2. PICK i \in S : Cardinality(Below(S, i)) = m - 2
      BY <3>1
    <3> DEFINE B == Below(S, i) \cup {i}
               A == S \ B
    <3>3. IsFiniteSet(B) /\ Cardinality(B) = m - 1
      BY <1>1, <3>1, <3>2, BelowIs
    <3>4. A # {} /\ A \in SUBSET Nat
      <4>1. B \subseteq S
        BY DEF Below
      <4>2. B # S
        BY <1>1, <3>1, <3>3
      <4> HIDE DEF B
      <4> QED  BY <4>1, <4>2
    <3>5. PICK j \in A : \A y \in A : j <= y
      BY <3>4, First
    <3>6. Below(S, j) = B
      <4>1. \A x \in S : x \in B <=> x <= i
        <5>1. \A x \in S : x \in Nat
          OBVIOUS
        <5> QED  BY <5>1 DEF Below
      <4>2. i < j
        BY <3>5, <4>1
      <4>3. \A x \in S : x < j => x \in B
        BY <3>5, <3>4
      <4>4. \A x \in S : x <= i => x < j
        BY <4>2
      <4>5. B \subseteq S
        BY DEF Below
      <4> HIDE DEF B
      <4> QED  BY <4>1, <4>3, <4>4, <4>5 DEF Below
    <3>7. Cardinality(Below(S, j)) = m - 1
      BY <3>3, <3>6
    <3> QED  BY <2>1, <3>7
  <2> QED  BY <2>2, <2>3
<1> QED  BY <1>2

\* InOrder lists a finite set of naturals, each once, from the smallest on.
LEMMA InOrderIs ==
  ASSUME NEW S \in SUBSET Nat, IsFiniteSet(S)
  PROVE  /\ Cardinality(S) \in Nat
         /\ InOrder(S) \in [1..Cardinality(S) -> S]
         /\ \A k \in 1..Cardinality(S) : Cardinality(Below(S, InOrder(S)[k])) = k - 1
         /\ \A k, m \in 1..Cardinality(S) : k < m => InOrder(S)[k] < InOrder(S)[m]
         /\ \A i \in S : \E k \in 1..Cardinality(S) : InOrder(S)[k] = i
<1> DEFINE n == Cardinality(S)
           Nth(k) == CHOOSE i \in S : Cardinality(Below(S, i)) = k - 1
<1>1. n \in Nat
  BY FS_CardinalityType
<1>2. InOrder(S) = [k \in 1..n |-> Nth(k)]
  BY DEF InOrder, Below
<1>3. \A k \in 1..n : Nth(k) \in S /\ Cardinality(Below(S, Nth(k))) = k - 1
  BY NthExists
<1> HIDE DEF Nth
<1>4. /\ InOrder(S) \in [1..n -> S]
      /\ \A k \in 1..n : InOrder(S)[k] \in S /\ Cardinality(Below(S, InOrder(S)[k])) = k - 1
  BY <1>2, <1>3
<1> DEFINE f == InOrder(S)
<1>a. n \in Nat /\ f \in [1..n -> S] /\ \A k \in 1..n : Cardinality(Below(S, f[k])) = k - 1
  BY <1>1, <1>4
<1> HIDE DEF f
<1>5. ASSUME NEW k \in 1..n, NEW m \in 1..n, k < m PROVE f[k] < f[m]
  <2>1. f[k] \in S /\ f[m] \in S /\ Cardinality(Below(S, f[k])) < Cardinality(Below(S, f[m]))
    BY <1>a, <1>5
  <2> QED  BY <2>1, BelowOrders
<1>6. ASSUME NEW i \in S PROVE \E k \in 1..n : f[k] = i
  <2> DEFINE k == Cardinality(Below(S, i)) + 1
             j == f[k]
  <2>1. k \in 1..n /\ k - 1 = Cardinality(Below(S, i))
    <3> DEFINE c == Cardinality(Below(S, i))
    <3>1. c \in Nat /\ c < n
      BY BelowIs
    <3> HIDE DEF c, n
    <3>2. c + 1 \in 1..n /\ (c + 1) - 1 = c
      BY <1>1, <3>1
    <3> QED  BY <3>2 DEF c
  <2>2. j \in S /\ Cardinality(Below(S, j)) = k - 1
    <3> HIDE DEF k
    <3> QED  BY <1>a, <2>1
  <2> HIDE DEF j
  <2>5. i = j
    BY <2>1, <2>2, BelowOrders
  <2> QED  BY <2>1, <2>5 DEF j
<1> QED  BY <1>a, <1>5, <1>6 DEF f

\* It is the only such list.
LEMMA InOrderOnly ==
  ASSUME NEW S \in SUBSET Nat, NEW n \in Nat, NEW f \in [1..n -> S],
         \A k, m \in 1..n : k < m => f[k] < f[m],
         \A i \in S : \E k \in 1..n : f[k] = i
  PROVE  IsFiniteSet(S) /\ Cardinality(S) = n /\ InOrder(S) = f
<1>0. \A k, m \in 1..n : f[k] < f[m] => k < m
  <2> SUFFICES ASSUME NEW k \in 1..n, NEW m \in 1..n, f[k] < f[m] PROVE k < m
    OBVIOUS
  <2>1. f[k] \in Nat /\ f[m] \in Nat
    OBVIOUS
  <2>2. ~(m < k) /\ m # k
    BY <2>1
  <2> QED  BY <2>2
<1>1. \A k, m \in 1..n : f[k] = f[m] => k = m
  <2> SUFFICES ASSUME NEW k \in 1..n, NEW m \in 1..n, f[k] = f[m] PROVE k = m
    OBVIOUS
  <2>1. f[k] \in Nat
    OBVIOUS
  <2>2. ~(m < k) /\ ~(k < m)
    BY <2>1
  <2> QED  BY <2>2
<1>2. f \in Bijection(1..n, S)
  BY <1>1 DEF Bijection, Injection, Surjection, IsInjective
<1>3. IsFiniteSet(S) /\ Cardinality(S) = n
  BY <1>2, FS_NatBijection, FS_CountingElements DEF ExistsBijection
<1>4. ASSUME NEW k \in 1..n PROVE Cardinality(Below(S, f[k])) = k - 1
  <2> DEFINE g == [m \in 1..(k - 1) |-> f[m]]
  <2>1. \A m \in 1..(k - 1) : m \in 1..n /\ m < k
    OBVIOUS
  <2>2. g \in [1..(k - 1) -> Below(S, f[k])]
    BY <2>1 DEF Below
  <2>3. \A i \in Below(S, f[k]) : \E m \in 1..(k - 1) : g[m] = i
    <3> SUFFICES ASSUME NEW i \in S, i < f[k] PROVE \E m \in 1..(k - 1) : g[m] = i
      BY DEF Below
    <3>1. PICK m \in 1..n : f[m] = i
      OBVIOUS
    <3>2. m < k
      BY <1>0, <3>1
    <3> QED  BY <3>1, <3>2
  <2>4. \A l, m \in 1..(k - 1) : g[l] = g[m] => l = m
    BY <1>1, <2>1
  <2> HIDE DEF g
  <2>5. g \in Bijection(1..(k - 1), Below(S, f[k]))
    BY <2>2, <2>3, <2>4 DEF Bijection, Injection, Surjection, IsInjective
  <2> QED  BY <2>5, FS_CountingElements DEF ExistsBijection
<1>5. ASSUME NEW k \in 1..n PROVE InOrder(S)[k] = f[k]
  <2> DEFINE i == InOrder(S)[k]
             j == f[k]
  <2>1. i \in S /\ j \in S /\ Cardinality(Below(S, i)) = Cardinality(Below(S, j))
    BY <1>3, <1>4, InOrderIs
  <2> HIDE DEF i, j
  <2>2. i = j
    BY <1>3, <2>1, BelowOrders
  <2> QED  BY <2>2 DEF i, j
<1>6. InOrder(S) \in [1..n -> S]
  BY <1>3, InOrderIs
<1> QED  BY <1>3, <1>5, <1>6

-----------------------------------------------------------------------------
(* What the decoder looks at, and what is picked                           *)

\* The places the decoder looks at are the first and those that follow one.
LEMMA PlacesIs ==
  ASSUME NEW t \in Seq(Characters)
  PROVE  /\ Places(t) \subseteq 1..Len(t)
         /\ \A i \in 1..Len(t) :
              i \in Places(t) <=> i = 1 \/ \E j \in 1..(i - 1) : i = j + Width(t, j) /\ j \in Places(t)
<1> DEFINE n == Len(t)
           Rule(f, i) == i = 1 \/ \E j \in 1..(i - 1) : i = j + Width(t, j) /\ f[j]
           Good(m) == \E f \in [1..m -> BOOLEAN] : \A i \in 1..m : f[i] <=> Rule(f, i)
           D == {m \in 0..n : ~Good(m)}
<1>1. n \in Nat
  OBVIOUS
<1>2. D = {}
  <2> SUFFICES ASSUME D # {} PROVE FALSE
    OBVIOUS
  <2>1. PICK m \in D : \A d \in D : m <= d
    <3>1. D \in SUBSET Nat
      BY <1>1
    <3> HIDE DEF D
    <3> QED  BY <3>1, First
  <2>2. m \in 0..n /\ ~Good(m)
    BY <2>1
  <2>3. CASE m = 0
    <3> DEFINE e == [i \in 1..0 |-> TRUE]
    <3>1. e \in [1..0 -> BOOLEAN] /\ \A i \in 1..0 : e[i] <=> Rule(e, i)
      OBVIOUS
    <3>2. Good(0)
      BY <3>1
    <3> HIDE DEF Good
    <3> QED  BY <2>2, <2>3, <3>2
  <2>4. CASE m # 0
    <3>1. m - 1 \in 0..n /\ m - 1 \notin D /\ m \in Nat
      <4>1. m - 1 \in 0..n /\ m \in Nat /\ ~(m <= m - 1)
        <5> HIDE DEF D, Good
        <5> QED  BY <1>1, <2>2, <2>4
      <4> HIDE DEF D
      <4> QED  BY <2>1, <4>1
    <3>2. PICK f \in [1..(m - 1) -> BOOLEAN] : \A i \in 1..(m - 1) : f[i] <=> Rule(f, i)
      <4>1. Good(m - 1)
        <5> HIDE DEF Good
        <5> QED  BY <3>1
      <4> QED  BY <4>1
    <3> DEFINE g == [i \in 1..m |-> IF i < m THEN f[i] ELSE Rule(f, i)]
    <3>3. g \in [1..m -> BOOLEAN]
      <4>1. \A i \in 1..m : i < m => i \in 1..(m - 1)
        BY <3>1
      <4>2. \A i \in 1..m : Rule(f, i) \in BOOLEAN
        OBVIOUS
      <4>3. \A i \in 1..m : i < m => f[i] \in BOOLEAN
        BY <3>2, <4>1
      <4> HIDE DEF Rule
      <4> QED  BY <4>2, <4>3
    <3>4. \A j \in 1..(m - 1) : g[j] = f[j]
      <4>1. \A j \in 1..(m - 1) : j \in 1..m /\ j < m
        BY <3>1
      <4> HIDE DEF Rule
      <4> QED  BY <4>1
    <3>5. ASSUME NEW i \in 1..m PROVE Rule(g, i) <=> Rule(f, i)
      <4>1. \A j \in 1..(i - 1) : j \in 1..(m - 1)
        BY <3>1
      <4>2. \A j \in 1..(i - 1) : g[j] = f[j]
        BY <3>4, <4>1
      <4> HIDE DEF g
      <4> QED  BY <4>2
    <3>6. \A i \in 1..m : g[i] <=> Rule(g, i)
      <4> SUFFICES ASSUME NEW i \in 1..m PROVE g[i] <=> Rule(g, i)
        OBVIOUS
      <4>1. CASE i < m
        <5>1. i \in 1..(m - 1)
          BY <3>1, <4>1
        <5>2. (g[i] <=> f[i]) /\ (f[i] <=> Rule(f, i))
          BY <3>2, <3>4, <5>1
        <5> HIDE DEF g, Rule
        <5> QED  BY <3>5, <5>2
      <4>2. CASE ~(i < m)
        <5>1. g[i] = Rule(f, i)
          <6> HIDE DEF Rule
          <6> QED  BY <4>2
        <5> HIDE DEF g, Rule
        <5> QED  BY <3>5, <5>1
      <4> QED  BY <4>1, <4>2
    <3>7. Good(m)
      <4> HIDE DEF g, Rule
      <4> QED  BY <3>3, <3>6
    <3> HIDE DEF Good
    <3> QED  BY <2>2, <3>7
  <2> QED  BY <2>3, <2>4
<1>3. Good(n)
  <2> HIDE DEF Good
  <2> QED  BY <1>1, <1>2
<1>4. PICK f \in [1..n -> BOOLEAN] : \A i \in 1..n : f[i] <=> Rule(f, i)
  BY <1>3
<1> DEFINE Body(h) == [i \in 1..n |-> i = 1 \/ \E j \in 1..(i - 1) : i = j + Width(t, j) /\ h[j]]
           g == CHOOSE looks : looks = Body(looks)
<1>5. f = Body(f)
  <2>1. \A i \in 1..n : f[i] = Rule(f, i)
    <3>1. \A i \in 1..n : f[i] \in BOOLEAN /\ Rule(f, i) \in BOOLEAN
      BY <1>4
    <3> HIDE DEF Rule
    <3> QED  BY <1>4, <3>1
  <2>2. Body(f) = [i \in 1..n |-> Rule(f, i)]
    OBVIOUS
  <2>3. [i \in 1..n |-> Rule(f, i)] = [i \in 1..n |-> f[i]]
    <3> HIDE DEF Rule
    <3> QED  BY <2>1
  <2>4. f = [i \in 1..n |-> f[i]]
    OBVIOUS
  <2> HIDE DEF Body, Rule
  <2> QED  BY <2>2, <2>3, <2>4
<1>6. g = Body(g)
  <2> HIDE DEF Body
  <2> QED  BY <1>5
<1>7. Places(t) = {i \in 1..n : g[i]}
  BY DEF Places
<1>8. \A i \in 1..n : g[i] = Rule(g, i)
  <2> HIDE DEF g
  <2> QED  BY <1>6
<1>9. \A i \in 1..n : i \in Places(t) <=> g[i]
  <2> HIDE DEF g
  <2> QED  BY <1>7
<1>10. Places(t) \subseteq 1..n
  <2> HIDE DEF g
  <2> QED  BY <1>7
<1>11. ASSUME NEW i \in 1..n
       PROVE  i \in Places(t) <=> i = 1 \/ \E j \in 1..(i - 1) : i = j + Width(t, j) /\ j \in Places(t)
  <2>1. \A j \in 1..(i - 1) : j \in 1..n
    BY <1>1
  <2>2. \A j \in 1..(i - 1) : j \in Places(t) <=> g[j]
    <3> HIDE DEF g
    <3> QED  BY <1>9, <2>1
  <2> HIDE DEF g
  <2> QED  BY <1>8, <1>9, <2>2
<1> QED  BY <1>10, <1>11

\* A number of elements of 1..n is at most n, and n of them are all.
LEMMA Within ==
  ASSUME NEW n \in Nat, NEW S \in SUBSET (1..n)
  PROVE  /\ IsFiniteSet(S) /\ Cardinality(S) \in Nat /\ Cardinality(S) <= n
         /\ S # 1..n => Cardinality(S) < n
         /\ S \in SUBSET Nat
<1>1. IsFiniteSet(1..n) /\ Cardinality(1..n) = n
  BY FS_Interval
<1>2. IsFiniteSet(S) /\ Cardinality(S) <= n /\ (Cardinality(S) = n => S = 1..n)
  BY <1>1, FS_Subset
<1>3. Cardinality(S) \in Nat
  BY <1>2, FS_CardinalityType
<1> QED  BY <1>2, <1>3

\* What is picked: as many characters as places, those of the places, in order.
LEMMA PickIs ==
  ASSUME NEW t \in Seq(Characters), NEW S \in SUBSET (1..Len(t))
  PROVE  /\ Pick(t, S) \in Seq(Characters)
         /\ Len(Pick(t, S)) = Cardinality(S)
         /\ \A k \in 1..Cardinality(S) : InOrder(S)[k] \in S /\ Pick(t, S)[k] = t[InOrder(S)[k]]
<1>1. IsFiniteSet(S) /\ S \in SUBSET Nat /\ Cardinality(S) \in Nat
  BY Within
<1>2. InOrder(S) \in [1..Cardinality(S) -> S]
  BY <1>1, InOrderIs
<1>3. \A k \in 1..Cardinality(S) : InOrder(S)[k] \in S /\ t[InOrder(S)[k]] \in Characters
  <2>1. \A i \in S : t[i] \in Characters
    OBVIOUS
  <2>2. \A k \in 1..Cardinality(S) : InOrder(S)[k] \in S
    BY <1>2
  <2> QED  BY <2>1, <2>2
<1> DEFINE f == InOrder(S)
           n == Cardinality(S)
<1>4. Pick(t, S) = [k \in 1..n |-> t[f[k]]]
  BY DEF Pick
<1>5. n \in Nat /\ \A k \in 1..n : f[k] \in S /\ t[f[k]] \in Characters
  BY <1>1, <1>3
<1>6. /\ Pick(t, S) \in Seq(Characters) /\ Len(Pick(t, S)) = n
      /\ \A k \in 1..n : f[k] \in S /\ Pick(t, S)[k] = t[f[k]]
  <2> HIDE DEF f, n
  <2> QED  BY <1>4, <1>5
<1> QED  BY <1>6

LEMMA PickAll ==
  ASSUME NEW t \in Seq(Characters)
  PROVE  Pick(t, 1..Len(t)) = t
<1> DEFINE n == Len(t)
           id == [k \in 1..n |-> k]
<1>1. n \in Nat /\ 1..n \in SUBSET Nat /\ id \in [1..n -> 1..n]
  OBVIOUS
<1>2. Cardinality(1..n) = n /\ InOrder(1..n) = id
  BY <1>1, InOrderOnly
<1>3. Pick(t, 1..n) = [k \in 1..n |-> t[k]]
  BY <1>2 DEF Pick
<1> QED  BY <1>3

\* If all that is looked at is text, all is looked at.
LEMMA AllText ==
  ASSUME NEW t \in Seq(Characters), Written(t) = Places(t)
  PROVE  Places(t) = 1..Len(t)
<1> DEFINE D == (1..Len(t)) \ Places(t)
<1>1. Len(t) \in Nat /\ Places(t) \subseteq 1..Len(t)
  BY PlacesIs
<1>2. SUFFICES ASSUME D # {} PROVE FALSE
  BY <1>1
<1>3. PICK m \in D : \A d \in D : m <= d
  <2>1. D \in SUBSET Nat
    BY <1>1
  <2> HIDE DEF D
  <2> QED  BY <1>2, <2>1, First
<1>4. m \in 1..Len(t) /\ m \notin Places(t)
  BY <1>3
<1>5. m # 1
  BY <1>4, PlacesIs
<1>6. m - 1 \in 1..(m - 1) /\ m - 1 \in 1..Len(t) /\ ~(m <= m - 1)
  BY <1>1, <1>4, <1>5
<1>7. m - 1 \in Places(t)
  BY <1>3, <1>6
<1>8. Class(t, m - 1) = "text"
  BY <1>7 DEF Written
<1>9. Width(t, m - 1) = 1
  BY <1>8 DEF Class, Width
<1>10. m = (m - 1) + Width(t, m - 1)
  BY <1>4, <1>9
<1> QED  BY <1>4, <1>6, <1>7, <1>10, PlacesIs

Unseen == {"esc", "bel", "L", "K"}

LEMMA TextIsSeen ==
  ASSUME NEW t, NEW i
  PROVE  /\ Class(t, i) = "text" <=> t[i] \notin Unseen
         /\ Class(t, i) \in {"text", "invisible", "malformed"}
BY DEF Class, Unseen

\* What is left after the first pass.
LEMMA SeenIs ==
  ASSUME NEW t \in Seq(Characters)
  PROVE  /\ StripInvisible(t).text \in Seq(Characters)
         /\ \A k \in 1..Len(StripInvisible(t).text) : StripInvisible(t).text[k] \notin Unseen
         /\ Len(StripInvisible(t).text) <= Len(t)
         /\ StripInvisible(t).hits = {} => StripInvisible(t).text = t
         /\ StripInvisible(t).hits # {} => Len(StripInvisible(t).text) < Len(t)
<1> DEFINE S == Written(t)
           u == Pick(t, S)
           Hs == {Hit(LineOf(t, i), LineOf(t, i), Class(t, i)) : i \in Places(t) \ S}
<1>1. StripInvisible(t).text = u /\ StripInvisible(t).hits = Hs
  BY DEF StripInvisible
<1>2. Places(t) \subseteq 1..Len(t) /\ S \subseteq Places(t) /\ Len(t) \in Nat
  BY PlacesIs DEF Written
<1>3. /\ u \in Seq(Characters) /\ Len(u) = Cardinality(S)
      /\ \A k \in 1..Cardinality(S) : InOrder(S)[k] \in S /\ u[k] = t[InOrder(S)[k]]
  BY <1>2, PickIs
<1>4. \A k \in 1..Len(u) : u[k] \notin Unseen
  <2>1. \A i \in S : t[i] \notin Unseen
    BY TextIsSeen DEF Written
  <2> HIDE DEF S, u
  <2> QED  BY <1>3, <2>1
<1>5. Len(u) <= Len(t) /\ (S # 1..Len(t) => Len(u) < Len(t))
  <2> HIDE DEF u, S
  <2> QED  BY <1>2, <1>3, Within
<1>6. Hs = {} <=> S = Places(t)
  BY <1>2
<1>7. ASSUME Hs = {} PROVE u = t
  <2>1. S = 1..Len(t)
    BY <1>6, <1>7, AllText
  <2> QED  BY <2>1, PickAll
<1>8. ASSUME Hs # {} PROVE Len(u) < Len(t)
  <2>1. S # 1..Len(t)
    BY <1>2, <1>6, <1>8
  <2> QED  BY <1>5, <2>1
<1> HIDE DEF u, S, Hs
<1> QED  BY <1>1, <1>3, <1>4, <1>5, <1>7, <1>8

\* Lines are counted from the start.
LEMMA LineIs ==
  ASSUME NEW t \in Seq(Characters), NEW i \in 1..Len(t)
  PROVE  /\ LineOf(t, i) \in Nat \ {0} /\ Lines(t) \in Nat /\ LineOf(t, i) <= Lines(t)
         /\ \A j \in 1..Len(t) : i <= j => LineOf(t, i) <= LineOf(t, j)
<1> DEFINE N(m) == {j \in 1..m : t[j] = "nl"}
<1>1. Len(t) \in Nat
  OBVIOUS
<1>2. ASSUME NEW m \in 0..Len(t)
      PROVE  IsFiniteSet(N(m)) /\ Cardinality(N(m)) \in Nat
  BY <1>1, Within
<1>3. ASSUME NEW l \in 0..Len(t), NEW m \in 0..Len(t), l <= m
      PROVE  Cardinality(N(l)) <= Cardinality(N(m))
  <2>1. N(l) \subseteq N(m)
    BY <1>3
  <2> HIDE DEF N
  <2> QED  BY <1>2, <2>1, FS_Subset
<1>4. \A j \in 1..Len(t) : j - 1 \in 0..Len(t) /\ LineOf(t, j) = 1 + Cardinality(N(j - 1))
  BY <1>1 DEF LineOf
<1>5. Len(t) \in 0..Len(t) /\ Lines(t) = 1 + Cardinality(N(Len(t)))
  BY <1>1 DEF Lines
<1> HIDE DEF N
<1>6. i - 1 <= Len(t) /\ \A j \in 1..Len(t) : i <= j => i - 1 <= j - 1
  BY <1>1
<1> QED  BY <1>2, <1>3, <1>4, <1>5, <1>6

-----------------------------------------------------------------------------
(* Forged turns, and hits in order                                         *)

\* One text is the beginning of another.
StartOf(p, u) == Len(p) <= Len(u) /\ \A k \in 1..Len(p) : p[k] = u[k]

LEMMA MarkerStays ==
  ASSUME NEW u \in Seq(Characters), NEW p \in Seq(Characters), StartOf(p, u), NEW i \in Markers(p)
  PROVE  i \in Markers(u)
<1>1. i \in 1..Len(p) /\ p[i] = "<"
  BY DEF Markers
<1>2. PICK j \in i..Len(p) : IsMarker(p, i, j)
  BY DEF Markers
<1>3. /\ j >= i + 4 /\ j <= Len(p) /\ i \in Nat /\ j \in Nat /\ Len(u) \in Nat /\ Len(p) <= Len(u)
      /\ \A k \in i..j : u[k] = p[k]
  BY <1>1, <1>2 DEF IsMarker, StartOf
<1>4. u[i] = "<" /\ u[i + 1] = "|" /\ u[j - 1] = "|" /\ u[j] = ">"
  <2>1. i \in i..j /\ i + 1 \in i..j /\ j - 1 \in i..j /\ j \in i..j
    BY <1>3
  <2>2. p[i] = "<" /\ p[i + 1] = "|" /\ p[j - 1] = "|" /\ p[j] = ">"
    BY <1>2 DEF IsMarker
  <2> QED  BY <1>3, <2>1, <2>2
<1>5. \E b \in (i + 2)..(j - 2) : \E e \in b..(j - 2) :
        \A k \in (i + 2)..(j - 2) : u[k] = (IF k \in b..e THEN "a" ELSE "sp")
  <2>1. PICK b \in (i + 2)..(j - 2) : \E e \in b..(j - 2) :
          \A k \in (i + 2)..(j - 2) : p[k] = (IF k \in b..e THEN "a" ELSE "sp")
    BY <1>2 DEF IsMarker
  <2>2. PICK e \in b..(j - 2) :
          \A k \in (i + 2)..(j - 2) : p[k] = (IF k \in b..e THEN "a" ELSE "sp")
    BY <2>1
  <2>3. \A k \in (i + 2)..(j - 2) : k \in i..j
    BY <1>3
  <2>4. \A k \in (i + 2)..(j - 2) : u[k] = (IF k \in b..e THEN "a" ELSE "sp")
    BY <1>3, <2>2, <2>3
  <2> QED  BY <2>4
<1>6. IsMarker(u, i, j)
  <2>1. j >= i + 4 /\ j <= Len(u)
    BY <1>3
  <2> QED  BY <1>4, <1>5, <2>1, Zenon DEF IsMarker
<1>7. i \in 1..Len(u) /\ j \in i..Len(u)
  BY <1>1, <1>3
<1> QED  BY <1>4, <1>6, <1>7 DEF Markers

\* The line of a text's first marker, and where it begins.
Forged(u) == LineOf(u, Min(Markers(u)))

Breaks(u) == {j \in 1..Len(u) : u[j] = "nl" /\ LineOf(u, j) < Forged(u)}

LEMMA TurnIs ==
  ASSUME NEW u \in Seq(Characters)
  PROVE  /\ StripForgedTurn(u).text \in Seq(Characters)
         /\ StartOf(StripForgedTurn(u).text, u)
         /\ Markers(StripForgedTurn(u).text) = {}
         /\ Markers(u) = {} => StripForgedTurn(u) = [text |-> u, hits |-> <<>>]
         /\ Markers(u) # {} =>
              /\ Len(StripForgedTurn(u).text) < Len(u)
              /\ StripForgedTurn(u).hits = <<Hit(Forged(u), Lines(u), "control_token")>>
              /\ Min(Markers(u)) \in 1..Len(u)
              /\ Len(StripForgedTurn(u).text) = IF Breaks(u) = {} THEN 0 ELSE Max(Breaks(u)) - 1
<1>1. CASE Markers(u) = {}
  <2>1. StripForgedTurn(u) = [text |-> u, hits |-> <<>>]
    BY <1>1 DEF StripForgedTurn
  <2>2. StripForgedTurn(u).text = u /\ StartOf(u, u)
    BY <2>1 DEF StartOf
  <2> QED  BY <1>1, <2>1, <2>2
<1>2. CASE Markers(u) # {}
  <2> DEFINE m == Min(Markers(u))
             B == Breaks(u)
             p == IF B = {} THEN <<>> ELSE SubSeq(u, 1, Max(B) - 1)
  <2>1. /\ StripForgedTurn(u).text = p
        /\ StripForgedTurn(u).hits = <<Hit(Forged(u), Lines(u), "control_token")>>
    BY <1>2 DEF StripForgedTurn, Forged, Breaks
  <2>2. m \in 1..Len(u) /\ \A y \in Markers(u) : m <= y
    <3>1. Markers(u) \in SUBSET (1..Len(u)) /\ Markers(u) \in SUBSET Nat
      BY DEF Markers
    <3> QED  BY <1>2, <3>1, MinIs
  <2>3. /\ p \in Seq(Characters) /\ StartOf(p, u) /\ Len(p) < Len(u)
        /\ Len(p) = IF B = {} THEN 0 ELSE Max(B) - 1
    <3>1. Len(u) \in Nat /\ Len(u) > 0
      BY <2>2
    <3>2. CASE B = {}
      BY <3>1, <3>2 DEF StartOf
    <3>3. CASE B # {}
      <4>1. B \in SUBSET (1..Len(u))
        BY DEF Breaks
      <4>2. Max(B) \in 1..Len(u)
        <5> HIDE DEF B
        <5> QED  BY <3>1, <3>3, <4>1, MaxIs
      <4> DEFINE x == Max(B)
      <4>3. p = SubSeq(u, 1, x - 1)
        BY <3>3
      <4>4. p \in Seq(Characters) /\ StartOf(p, u) /\ Len(p) < Len(u) /\ Len(p) = x - 1
        <5> HIDE DEF x, p
        <5> QED  BY <3>1, <4>2, <4>3 DEF StartOf, x
      <4> HIDE DEF p
      <4> QED  BY <3>3, <4>4
    <3> QED  BY <3>2, <3>3
  <2>4. Markers(p) = {}
    <3> SUFFICES ASSUME NEW i \in Markers(p) PROVE FALSE
      OBVIOUS
    <3> HIDE DEF p, m
    <3>1. i \in Markers(u) /\ i \in 1..Len(p)
      BY <2>3, MarkerStays DEF Markers
    <3>2. B # {} /\ i < Max(B)
      <4> HIDE DEF B
      <4>1. Len(p) \in Nat
        BY <2>3
      <4>2. B # {}
        BY <2>3, <3>1, <4>1
      <4>3. Len(p) = Max(B) - 1
        BY <2>3, <4>2
      <4>4. Max(B) \in Nat
        <5>1. B \in SUBSET (1..Len(u))
          BY DEF B, Breaks
        <5>2. Len(u) \in Nat
          OBVIOUS
        <5>3. Max(B) \in B
          BY <4>2, <5>1, <5>2, MaxIs
        <5>4. \A y \in B : y \in Nat
          BY <5>1, <5>2
        <5> QED  BY <5>3, <5>4
      <4> QED  BY <3>1, <4>2, <4>3, <4>4
    <3>3. Max(B) \in B
      <4>1. B \in SUBSET (1..Len(u)) /\ Len(u) \in Nat
        BY DEF Breaks
      <4> HIDE DEF B
      <4> QED  BY <3>2, <4>1, MaxIs
    <3>4. Max(B) \in 1..Len(u) /\ LineOf(u, Max(B)) < LineOf(u, m)
      BY <3>3 DEF Breaks, Forged, m
    <3>5. m <= Max(B)
      BY <2>2, <3>1, <3>2, <3>4
    <3>6. LineOf(u, m) <= LineOf(u, Max(B))
      BY <2>2, <3>4, <3>5, LineIs
    <3>7. LineOf(u, m) \in Nat /\ LineOf(u, Max(B)) \in Nat
      BY <2>2, <3>4, LineIs
    <3> QED  BY <3>4, <3>6, <3>7
  <2> HIDE DEF p, B
  <2> QED  BY <1>2, <2>1, <2>2, <2>3, <2>4 DEF B
<1> QED  BY <1>1, <1>2

\* The hits of a text, listed by line.
LEMMA ByLineIs ==
  ASSUME NEW H, IsFiniteSet(H), \A h \in H : h.line \in Nat
  PROVE  ByLine(H) \in Seq(H) /\ (H # {} => Len(ByLine(H)) > 0) /\ (H = {} => ByLine(H) = <<>>)
         /\ \A h \in H : \E n \in 1..Len(ByLine(H)) : ByLine(H)[n] \in H /\ Rank(ByLine(H)[n]) = Rank(h)
         /\ \A k, m \in 1..Len(ByLine(H)) : k < m => Rank(ByLine(H)[k]) < Rank(ByLine(H)[m])
<1> DEFINE R == {Rank(h) : h \in H}
           f == InOrder(R)
           n == Cardinality(R)
           Of(r) == CHOOSE h \in H : Rank(h) = r
<1>1. IsFiniteSet(R)
  <2> DEFINE g == [h \in H |-> Rank(h)]
  <2>1. g \in Surjection(H, R)
    <3> HIDE DEF Rank
    <3> QED  BY DEF Surjection
  <2> HIDE DEF g, R
  <2> QED  BY <2>1, FS_Surjection
<1>2. R \in SUBSET Nat
  <2>1. \A h \in H : Rank(h) \in Nat
    BY DEF Rank
  <2> QED  BY <2>1
<1>3. n \in Nat /\ f \in [1..n -> R] /\ \A i \in R : \E k \in 1..n : f[k] = i
  <2> HIDE DEF R
  <2> QED  BY <1>1, <1>2, InOrderIs
<1>4. \A r \in R : Of(r) \in H /\ Rank(Of(r)) = r
  OBVIOUS
<1>5. ByLine(H) = [k \in 1..n |-> Of(f[k])]
  <2>1. DOMAIN f = 1..n
    <3> HIDE DEF f, n, R
    <3> QED  BY <1>3
  <2> QED  BY <2>1 DEF ByLine
<1>6. H # {} <=> R # {}
  OBVIOUS
<1>7. R # {} => n > 0
  <2> HIDE DEF R
  <2> QED  BY <1>3
<1>8. R = {} => n = 0
  BY FS_EmptySet
<1>9. \A h \in H : Rank(h) \in R
  OBVIOUS
<1> DEFINE b == ByLine(H)
<1>a. b \in Seq(H) /\ Len(b) = n /\ \A k \in 1..n : b[k] \in H /\ Rank(b[k]) = f[k]
  <2>1. \A k \in 1..n : f[k] \in R
    <3> HIDE DEF f, n, R
    <3> QED  BY <1>3
  <2>2. \A k \in 1..n : Of(f[k]) \in H /\ Rank(Of(f[k])) = f[k]
    <3> HIDE DEF f, n, R, Of
    <3> QED  BY <1>4, <2>1
  <2> HIDE DEF f, n, Of, b
  <2> QED  BY <1>3, <1>5, <2>2 DEF b
<1>b. H = {} => b = <<>>
  <2> HIDE DEF b, n, R
  <2> QED  BY <1>6, <1>8, <1>a
<1>c. \A h \in H : \E k \in 1..Len(b) : b[k] \in H /\ Rank(b[k]) = Rank(h)
  <2> SUFFICES ASSUME NEW h \in H PROVE \E k \in 1..Len(b) : b[k] \in H /\ Rank(b[k]) = Rank(h)
    OBVIOUS
  <2>1. PICK k \in 1..n : f[k] = Rank(h)
    <3> HIDE DEF R, f, n
    <3> QED  BY <1>3, <1>9
  <2> HIDE DEF R, f, n, b
  <2> QED  BY <1>a, <2>1
<1>d. H # {} => Len(b) > 0
  <2> HIDE DEF R, f, n, b
  <2> QED  BY <1>6, <1>7, <1>a
<1>e. \A k, m \in 1..Len(b) : k < m => Rank(b[k]) < Rank(b[m])
  <2>1. \A k, m \in 1..n : k < m => f[k] < f[m]
    <3> HIDE DEF R
    <3> QED  BY <1>1, <1>2, InOrderIs
  <2> HIDE DEF R, f, n, b
  <2> QED  BY <1>a, <2>1
<1> HIDE DEF b
<1> QED  BY <1>a, <1>b, <1>c, <1>d, <1>e DEF b

\* Capping a list leaves something of something.
LEMMA CapIs ==
  ASSUME NEW X, NEW hits \in Seq(X)
  PROVE  /\ Len(CapHits(hits)) \in Nat /\ Len(CapHits(hits)) <= maxHitsPerField
         /\ CapHits(hits) = <<>> <=> hits = <<>>
         /\ CapHits(hits) # <<>> => 1 \in DOMAIN CapHits(hits)
<1> DEFINE m == maxHitsPerField
           last == [hits[m] EXCEPT !.through = Last(hits).through]
<1>1. m \in Nat \ {0} /\ Len(hits) \in Nat
  BY LimitAssumption
<1>2. CASE Len(hits) <= m
  <2>1. CapHits(hits) = hits
    BY <1>2 DEF CapHits
  <2>2. hits # <<>> => 1 \in DOMAIN hits
    <3>1. hits # <<>> => Len(hits) > 0
      OBVIOUS
    <3> QED  BY <1>1, <3>1
  <2> QED  BY <1>1, <1>2, <2>1, <2>2
<1>3. CASE ~(Len(hits) <= m)
  <2> DEFINE s == SubSeq(hits, 1, m - 1)
             Y == X \cup {last}
  <2>1. CapHits(hits) = Append(s, last)
    BY <1>3 DEF CapHits
  <2>2. s \in Seq(Y) /\ Len(s) = m - 1
    <3> HIDE DEF last
    <3>1. SubSeq(hits, 1, m - 1) \in Seq(X) /\ Len(SubSeq(hits, 1, m - 1)) = m - 1
      BY <1>1, <1>3
    <3> QED  BY <3>1
  <2>3. last \in Y
    OBVIOUS
  <2> HIDE DEF last, s, Y
  <2>4. Len(Append(s, last)) = m
    BY <1>1, <2>2, <2>3
  <2>5. hits # <<>>
    BY <1>1, <1>3
  <2>6. Append(s, last) # <<>>
    BY <1>1, <2>4
  <2>7. 1 \in DOMAIN Append(s, last)
    BY <1>1, <2>2, <2>3
  <2> QED  BY <1>1, <2>1, <2>4, <2>5, <2>6, <2>7
<1> QED  BY <1>2, <1>3

-----------------------------------------------------------------------------
(* A value is clean                                                        *)

\* The hits of a text that stand: those before the forged turn.
Before(t) ==
  LET shown == StripInvisible(t)
      turn  == StripForgedTurn(shown.text)
  IN  {h \in shown.hits : turn.hits = <<>> \/ h.line < turn.hits[1].line}

\* The hits of a text are numbered by its lines.
LEMMA HitsAre ==
  ASSUME NEW t \in Seq(Characters)
  PROVE  /\ IsFiniteSet(StripInvisible(t).hits)
         /\ \A h \in StripInvisible(t).hits :
              \E i \in Places(t) \ Written(t) : h = Hit(LineOf(t, i), LineOf(t, i), Class(t, i))
         /\ \A h \in StripInvisible(t).hits : h.line \in Nat /\ h.through = h.line
<1> DEFINE P == Places(t) \ Written(t)
           H(i) == Hit(LineOf(t, i), LineOf(t, i), Class(t, i))
           g == [i \in P |-> H(i)]
           Hs == StripInvisible(t).hits
<1>1. Hs = {H(i) : i \in P}
  BY DEF StripInvisible
<1>2. g \in Surjection(P, Hs)
  <2> HIDE DEF H, Hs, P
  <2> QED  BY <1>1 DEF Surjection
<1>3. P \in SUBSET (1..Len(t)) /\ Len(t) \in Nat
  BY PlacesIs
<1>4. IsFiniteSet(P)
  <2> HIDE DEF P
  <2> QED  BY <1>3, Within
<1>5. IsFiniteSet(Hs)
  <2> HIDE DEF g, Hs, P
  <2> QED  BY <1>2, <1>4, FS_Surjection
<1>6. \A h \in Hs : \E i \in P : h = H(i)
  <2> HIDE DEF H, Hs, P
  <2> QED  BY <1>1
<1>7. \A i \in P : H(i).line = LineOf(t, i) /\ H(i).through = LineOf(t, i)
  BY DEF Hit
<1>8. \A i \in P : LineOf(t, i) \in Nat
  <2>1. \A i \in P : i \in 1..Len(t)
    BY <1>3
  <2> HIDE DEF P
  <2> QED  BY <2>1, LineIs
<1>9. \A h \in Hs : h.line \in Nat /\ h.through = h.line
  <2> HIDE DEF H, Hs, P
  <2> QED  BY <1>6, <1>7, <1>8
<1> QED  BY <1>5, <1>6, <1>9

\* A value's text is clean, its hits are few, and it has hits just when
\* something was taken from it.
LEMMA ValueIs ==
  ASSUME NEW t \in Seq(Characters)
  PROVE  /\ Value(t).text \in Seq(Characters) /\ Clean(Value(t).text)
         /\ Len(Value(t).hits) \in Nat /\ Len(Value(t).hits) <= maxHitsPerField
         /\ Value(t).hits = <<>> <=> Value(t).text = t
         /\ Value(t).hits # <<>> => 1 \in DOMAIN Value(t).hits
<1> DEFINE shown == StripInvisible(t)
           u == shown.text
           turn == StripForgedTurn(u)
           before == {h \in shown.hits : turn.hits = <<>> \/ h.line < turn.hits[1].line}
           X == shown.hits \cup {Hit(Forged(u), Lines(u), "control_token")}
           all == ByLine(before) \o turn.hits
<1>1. Value(t).text = turn.text /\ Value(t).hits = CapHits(all)
  BY DEF Value
<1>2. u \in Seq(Characters) /\ Len(u) <= Len(t) /\ Len(t) \in Nat
  BY SeenIs
<1>3. IsFiniteSet(before) /\ \A h \in before : h.line \in Nat
  <2>1. before \subseteq shown.hits
    OBVIOUS
  <2>2. IsFiniteSet(shown.hits) /\ \A h \in shown.hits : h.line \in Nat
    BY HitsAre
  <2> HIDE DEF before, shown
  <2> QED  BY <2>1, <2>2, FS_Subset
<1>4. /\ ByLine(before) \in Seq(before) /\ (before # {} => Len(ByLine(before)) > 0)
      /\ (before = {} => ByLine(before) = <<>>)
  <2> HIDE DEF before
  <2> QED  BY <1>3, ByLineIs
<1>5. /\ turn.text \in Seq(Characters) /\ StartOf(turn.text, u) /\ Markers(turn.text) = {}
      /\ Markers(u) = {} => turn = [text |-> u, hits |-> <<>>]
      /\ Markers(u) # {} =>
           /\ Len(turn.text) < Len(u)
           /\ turn.hits = <<Hit(Forged(u), Lines(u), "control_token")>>
  <2> HIDE DEF u
  <2> QED  BY <1>2, TurnIs
<1>6. Clean(turn.text)
  <2>1. \A k \in 1..Len(u) : u[k] \notin Unseen
    BY SeenIs
  <2> HIDE DEF u, turn
  <2>2. \A k \in 1..Len(turn.text) : turn.text[k] \notin Unseen
    <3>1. Len(turn.text) \in Nat /\ Len(u) \in Nat
      BY <1>2, <1>5
    <3> QED  BY <2>1, <1>5, <3>1 DEF StartOf
  <2>3. DOMAIN turn.text = 1..Len(turn.text)
    BY <1>5
  <2> QED  BY <1>5, <2>2, <2>3 DEF Clean, Unseen
<1>7. ByLine(before) \in Seq(X) /\ turn.hits \in Seq(X)
  <2>1. before \subseteq X
    OBVIOUS
  <2>2. turn.hits \in Seq(X)
    <3>1. CASE Markers(u) = {}
      <4> HIDE DEF X, turn, u
      <4>1. turn.hits = <<>>
        BY <1>5, <3>1
      <4> QED  BY <4>1
    <3>2. CASE Markers(u) # {}
      <4>1. Hit(Forged(u), Lines(u), "control_token") \in X
        OBVIOUS
      <4>2. turn.hits = <<Hit(Forged(u), Lines(u), "control_token")>>
        <5> HIDE DEF X, turn, u
        <5> QED  BY <1>5, <3>2
      <4> HIDE DEF X, turn, u
      <4> QED  BY <4>1, <4>2
    <3> QED  BY <3>1, <3>2
  <2> HIDE DEF X, turn, before
  <2>3. Seq(before) \subseteq Seq(X)
    BY <2>1
  <2> QED  BY <1>4, <2>2, <2>3
<1>8. all \in Seq(X) /\ (all = <<>> <=> ByLine(before) = <<>> /\ turn.hits = <<>>)
  <2> DEFINE b == ByLine(before)
             h == turn.hits
  <2>1. b \in Seq(X) /\ h \in Seq(X)
    BY <1>7
  <2> HIDE DEF b, h, X
  <2>2. b \o h \in Seq(X) /\ Len(b \o h) = Len(b) + Len(h)
    BY <2>1
  <2>3. b \o h = <<>> <=> b = <<>> /\ h = <<>>
    BY <2>1, <2>2
  <2> QED  BY <2>2, <2>3 DEF b, h
<1>9. /\ Len(Value(t).hits) \in Nat /\ Len(Value(t).hits) <= maxHitsPerField
      /\ Value(t).hits = <<>> <=> all = <<>>
      /\ Value(t).hits # <<>> => 1 \in DOMAIN Value(t).hits
  <2> HIDE DEF all, X
  <2> QED  BY <1>1, <1>8, CapIs
<1>10. turn.hits = <<>> <=> Markers(u) = {}
  <2> DEFINE hs == turn.hits
             h == Hit(Forged(u), Lines(u), "control_token")
  <2>1. Markers(u) = {} => hs = <<>>
    <3> HIDE DEF turn, u
    <3> QED  BY <1>5 DEF hs
  <2>2. Markers(u) # {} => hs = <<h>>
    <3> HIDE DEF turn, u
    <3> QED  BY <1>5 DEF hs
  <2>3. <<h>> # <<>>
    <3> HIDE DEF h
    <3> QED  OBVIOUS
  <2> HIDE DEF h, hs
  <2>4. hs = <<>> <=> Markers(u) = {}
    BY <2>1, <2>2, <2>3
  <2> QED  BY <2>4 DEF hs
<1>11. ASSUME turn.hits = <<>> PROVE before = shown.hits /\ turn.text = u
  <2>1. before = shown.hits
    BY <1>11
  <2>2. Markers(u) = {}
    BY <1>10, <1>11
  <2>3. turn.text = u
    <3> HIDE DEF turn, u
    <3> QED  BY <1>5, <2>2
  <2> QED  BY <2>1, <2>3
<1>12. ASSUME all = <<>> PROVE turn.text = t
  <2>1. turn.hits = <<>> /\ ByLine(before) = <<>>
    BY <1>8, <1>12
  <2>2. before = {}
    <3> HIDE DEF before
    <3> QED  BY <1>4, <2>1
  <2>3. shown.hits = {}
    BY <1>11, <2>1, <2>2
  <2>4. u = t
    BY <2>3, SeenIs
  <2> QED  BY <1>11, <2>1, <2>4
<1>13. ASSUME turn.text = t PROVE all = <<>>
  <2>1. Len(turn.text) = Len(t)
    BY <1>13
  <2>2. Markers(u) = {}
    <3> HIDE DEF turn, u
    <3>1. Len(turn.text) \in Nat /\ Len(u) \in Nat
      BY <1>2, <1>5
    <3> QED  BY <1>2, <1>5, <2>1, <3>1
  <2>3. turn.hits = <<>>
    BY <1>10, <2>2
  <2>4. u = t /\ before = shown.hits
    BY <1>11, <1>13, <2>3
  <2>5. shown.hits = {}
    <3>1. ~(Len(t) < Len(t))
      BY <1>2
    <3> QED  BY <2>4, <3>1, SeenIs
  <2>6. ByLine(before) = <<>>
    <3> HIDE DEF before, shown
    <3> QED  BY <1>4, <2>4, <2>5
  <2> QED  BY <1>8, <2>3, <2>6
<1> HIDE DEF all, turn
<1> QED  BY <1>1, <1>5, <1>6, <1>9, <1>12, <1>13

\* Going over a clean text finds nothing.
LEMMA CleanStays ==
  ASSUME NEW t \in Seq(Characters), Clean(t)
  PROVE  Value(t) = [text |-> t, hits |-> <<>>]
<1>1. DOMAIN t = 1..Len(t) /\ Places(t) \subseteq 1..Len(t)
  BY PlacesIs
<1>2. Written(t) = Places(t)
  <2>1. \A i \in Places(t) : t[i] \notin Unseen
    BY <1>1 DEF Clean, Unseen
  <2> QED  BY <2>1, TextIsSeen DEF Written
<1>3. Places(t) \ Written(t) = {}
  BY <1>2
<1>4. StripInvisible(t).hits = {}
  BY <1>3, HitsAre
<1>5. StripInvisible(t).text = t
  BY <1>4, SeenIs
<1>6. StripForgedTurn(t) = [text |-> t, hits |-> <<>>]
  BY TurnIs DEF Clean
<1> DEFINE before(hs) == {h \in StripInvisible(t).hits : hs = <<>> \/ h.line < hs[1].line}
<1>7. Value(t) = [text |-> t, hits |-> CapHits(ByLine(before(<<>>)) \o <<>>)]
  BY <1>5, <1>6 DEF Value
<1>8. before(<<>>) = {}
  BY <1>4
<1>9. ByLine({}) = <<>>
  BY FS_EmptySet, ByLineIs
<1>10. <<>> \o <<>> = <<>>
  OBVIOUS
<1>11. CapHits(<<>>) = <<>>
  <2>1. <<>> \in Seq({})
    OBVIOUS
  <2> QED  BY <2>1, CapIs
<1> HIDE DEF before
<1> QED  BY <1>7, <1>8, <1>9, <1>10, <1>11

LEMMA TextsAreCleaned == ValueIsClean
<1> SUFFICES ASSUME NEW t \in Texts
             PROVE  Clean(Value(t).text) /\ Value(Value(t).text) = [text |-> Value(t).text, hits |-> <<>>]
  BY DEF ValueIsClean
<1>1. t \in Seq(Characters)
  BY TextsAssumption
<1> QED  BY <1>1, ValueIs, CleanStays

-----------------------------------------------------------------------------
(* Escape sequences stay on their line                                     *)

\* Where the line of place i ends, as EscapeLen reads it.
EndOfLine(t, i) ==
  IF \E j \in i..Len(t) : t[j] = "nl"
  THEN CHOOSE j \in i..Len(t) : t[j] = "nl" /\ \A k \in i..(j - 1) : t[k] # "nl"
  ELSE Len(t) + 1

LEMMA EndIs ==
  ASSUME NEW t \in Seq(Characters), NEW i \in 1..Len(t)
  PROVE  /\ EndOfLine(t, i) \in i..(Len(t) + 1)
         /\ \A k \in i..(EndOfLine(t, i) - 1) : t[k] # "nl"
         /\ t[i] # "nl" => EndOfLine(t, i) # i
<1> DEFINE S == {j \in i..Len(t) : t[j] = "nl"}
           e == EndOfLine(t, i)
<1>1. Len(t) \in Nat /\ i \in Nat
  OBVIOUS
<1>2. CASE S = {}
  <2>1. e = Len(t) + 1
    BY <1>2 DEF EndOfLine
  <2>2. \A k \in i..Len(t) : t[k] # "nl"
    BY <1>2
  <2>3. (Len(t) + 1) - 1 = Len(t) /\ Len(t) + 1 \in i..(Len(t) + 1) /\ Len(t) + 1 # i
    BY <1>1
  <2> HIDE DEF e
  <2> QED  BY <2>1, <2>2, <2>3 DEF e
<1>3. CASE S # {}
  <2>1. PICK m \in S : \A y \in S : m <= y
    <3>1. S \in SUBSET Nat
      BY <1>1
    <3> HIDE DEF S
    <3> QED  BY <1>3, <3>1, First
  <2>2. m \in i..Len(t) /\ t[m] = "nl"
    BY <2>1
  <2>3. \A k \in i..(m - 1) : t[k] # "nl"
    <3> SUFFICES ASSUME NEW k \in i..(m - 1), t[k] = "nl" PROVE FALSE
      OBVIOUS
    <3>1. k \in i..Len(t) /\ ~(m <= k)
      BY <1>1, <2>2
    <3> QED  BY <2>1, <3>1
  <2>4. e = CHOOSE j \in i..Len(t) : t[j] = "nl" /\ \A k \in i..(j - 1) : t[k] # "nl"
    BY <2>2 DEF EndOfLine
  <2>5. e \in i..Len(t) /\ t[e] = "nl" /\ \A k \in i..(e - 1) : t[k] # "nl"
    <3> HIDE DEF e
    <3> QED  BY <2>2, <2>3, <2>4
  <2> HIDE DEF e
  <2>6. e \in i..(Len(t) + 1) /\ (t[i] # "nl" => e # i)
    BY <1>1, <2>5
  <2> QED  BY <2>5, <2>6 DEF e
<1> QED  BY <1>2, <1>3

\* An escape sequence is there and stays on its line.
LEMMA EscapeIs ==
  ASSUME NEW t \in Seq(Characters), NEW i \in 1..Len(t), t[i] = "esc"
  PROVE  EscapeLen(t, i) \in Nat \ {0} /\ i + EscapeLen(t, i) <= EndOfLine(t, i)
<1> DEFINE e == EndOfLine(t, i)
           ends(S) == {j \in (i + 2)..(e - 1) : t[j] \in S}
           UpTo(S) == (IF ends(S) = {} THEN e ELSE Min(ends(S)) + 1) - i
<1>1. e \in Nat /\ i \in Nat /\ e > i
  BY EndIs
<1> DEFINE more == CASE t[i + 1] = "["  -> UpTo(Final)
                     [] t[i + 1] = "]"  -> UpTo({"bel"})
                     [] t[i + 1] = "K"  -> 1
                     [] OTHER           -> 2
<1>2. EscapeLen(t, i) = IF e < i + 2 THEN e - i ELSE more
  BY DEF EscapeLen, EndOfLine
<1>6. more \in {UpTo(Final), UpTo({"bel"}), 1, 2}
  <2> HIDE DEF UpTo
  <2> QED  OBVIOUS
<1>3. ASSUME NEW S, ~(e < i + 2) PROVE UpTo(S) \in Nat \ {0} /\ i + UpTo(S) <= e
  <2>1. CASE ends(S) = {}
    <3>1. UpTo(S) = e - i
      BY <2>1
    <3> HIDE DEF UpTo, e
    <3> QED  BY <1>1, <1>3, <3>1
  <2>2. CASE ends(S) # {}
    <3> DEFINE m == Min(ends(S))
    <3>1. ends(S) \in SUBSET Nat
      <4> HIDE DEF e
      <4> QED  BY <1>1
    <3>2. m \in ends(S)
      <4> HIDE DEF ends
      <4> QED  BY <2>2, <3>1, MinIs
    <3>3. m \in (i + 2)..(e - 1)
      <4> HIDE DEF m, e
      <4> QED  BY <3>2
    <3>4. UpTo(S) = m + 1 - i
      <4> DEFINE z == IF ends(S) = {} THEN e ELSE m + 1
      <4>1. z = m + 1
        <5> HIDE DEF ends, e, m
        <5> QED  BY <2>2
      <4>2. UpTo(S) = z - i
        OBVIOUS
      <4> HIDE DEF UpTo, z, m, e
      <4> QED  BY <1>1, <3>3, <4>1, <4>2
    <3> HIDE DEF UpTo, m, e
    <3> QED  BY <1>1, <3>3, <3>4
  <2> QED  BY <2>1, <2>2
<1> HIDE DEF UpTo, e, more
<1>4. CASE e < i + 2
  <2>1. EscapeLen(t, i) = e - i
    BY <1>2, <1>4
  <2> QED  BY <1>1, <1>4, <2>1 DEF e
<1>5. CASE ~(e < i + 2)
  <2>1. EscapeLen(t, i) \in {UpTo(Final), UpTo({"bel"}), 1, 2}
    BY <1>2, <1>5, <1>6
  <2>2. i + 1 <= e /\ i + 2 <= e
    BY <1>1, <1>5
  <2> QED  BY <1>3, <1>5, <2>1, <2>2 DEF e
<1> QED  BY <1>4, <1>5

\* What the decoder takes in one step: it lies in the text, it breaks no line,
\* and more than one byte is something unseen.
LEMMA WidthIs ==
  ASSUME NEW t \in Seq(Characters), NEW i \in 1..Len(t)
  PROVE  /\ Width(t, i) \in Nat \ {0}
         /\ \A k \in Nat : i < k /\ k < i + Width(t, i) =>
              /\ k \in 1..Len(t) /\ \A l \in i..k : t[l] # "nl"
              /\ Class(t, i) = "invisible"
<1>1. Len(t) \in Nat /\ i \in Nat
  OBVIOUS
<1>2. CASE t[i] = "esc"
  <2> DEFINE w == EscapeLen(t, i)
             e == EndOfLine(t, i)
  <2>1. Width(t, i) = w /\ Class(t, i) = "invisible"
    BY <1>2 DEF Width, Class
  <2>2. w \in Nat \ {0} /\ i + w <= e
    BY <1>2, EscapeIs
  <2>3. e \in i..(Len(t) + 1) /\ \A k \in i..(e - 1) : t[k] # "nl"
    BY EndIs
  <2> HIDE DEF w, e
  <2>4. ASSUME NEW k \in Nat, i < k, k < i + w
        PROVE  k \in 1..Len(t) /\ \A l \in i..k : t[l] # "nl"
    <3>1. k \in 1..Len(t) /\ \A l \in i..k : l \in i..(e - 1)
      BY <1>1, <2>2, <2>3, <2>4
    <3> QED  BY <2>3, <3>1
  <2> QED  BY <2>1, <2>2, <2>4
<1>3. CASE t[i] = "L" /\ At(t, i + 1) = "K"
  <2>1. Width(t, i) = 2 /\ Class(t, i) = "invisible"
    BY <1>3 DEF Width, Class
  <2>2. i + 1 \in 1..Len(t) /\ t[i + 1] = "K"
    BY <1>3 DEF At
  <2>3. ASSUME NEW k \in Nat, i < k, k < i + 2
        PROVE  k = i + 1 /\ \A l \in i..k : l = i \/ l = i + 1
    BY <1>1, <2>3
  <2>4. t[i] # "nl" /\ t[i + 1] # "nl"
    BY <1>3, <2>2
  <2>5. ASSUME NEW k \in Nat, i < k, k < i + 2
        PROVE  k \in 1..Len(t) /\ \A l \in i..k : t[l] # "nl"
    BY <2>2, <2>3, <2>4, <2>5
  <2> QED  BY <2>1, <2>5
<1>4. CASE ~(t[i] = "esc") /\ ~(t[i] = "L" /\ At(t, i + 1) = "K")
  <2>1. Width(t, i) = 1
    BY <1>4 DEF Width
  <2> QED  BY <1>1, <2>1
<1> QED  BY <1>2, <1>3, <1>4

\* What is not looked at is inside something that was.
LEMMA SkippedIs ==
  ASSUME NEW t \in Seq(Characters), NEW i \in 1..Len(t), i \notin Places(t)
  PROVE  \E j \in Places(t) : j < i /\ i < j + Width(t, j)
<1> DEFINE S == {j \in Places(t) : j < i}
<1>1. Len(t) \in Nat /\ i \in Nat /\ Places(t) \in SUBSET (1..Len(t))
  BY PlacesIs
<1>2. 1 \in S
  <2>1. 1 \in 1..Len(t)
    BY <1>1
  <2>2. 1 \in Places(t)
    BY <2>1, PlacesIs
  <2>3. i # 1
    BY <2>2
  <2> QED  BY <1>1, <2>2, <2>3
<1>3. S \in SUBSET (1..Len(t))
  BY <1>1
<1> DEFINE j == Max(S)
<1>4. j \in S /\ \A y \in S : y <= j
  <2> HIDE DEF S
  <2> QED  BY <1>1, <1>2, <1>3, MaxIs
<1> HIDE DEF j
<1>5. j \in Places(t) /\ j < i /\ j \in 1..Len(t)
  BY <1>3, <1>4
<1> DEFINE n == j + Width(t, j)
<1>6. n \in Nat /\ j < n
  BY <1>5, WidthIs
<1>7. ASSUME n <= i PROVE FALSE
  <2>1. n \in 1..Len(t) /\ j \in 1..(n - 1)
    <3> HIDE DEF n
    <3> QED  BY <1>1, <1>5, <1>6, <1>7
  <2>2. n \in Places(t)
    BY <1>5, <2>1, PlacesIs
  <2>3. CASE n = i
    <3> HIDE DEF n
    <3> QED  BY <2>2, <2>3
  <2>4. CASE n # i
    <3> HIDE DEF n
    <3>1. n < i
      BY <1>1, <1>6, <1>7, <2>4
    <3>2. n <= j
      BY <1>4, <2>2, <3>1
    <3> QED  BY <1>5, <1>6, <3>2
  <2> QED  BY <2>3, <2>4
<1>8. i < n
  <2> HIDE DEF n
  <2> QED  BY <1>1, <1>6, <1>7
<1> QED  BY <1>5, <1>8

-----------------------------------------------------------------------------
(* Lines and places                                                        *)

\* The newlines among the first m characters.
Newlines(t, m) == {j \in 1..m : t[j] = "nl"}

LEMMA NewlinesAre ==
  ASSUME NEW t \in Seq(Characters), NEW m \in 0..Len(t)
  PROVE  /\ IsFiniteSet(Newlines(t, m)) /\ Cardinality(Newlines(t, m)) \in Nat
         /\ Newlines(t, m) \in SUBSET (1..m) /\ Newlines(t, m) \in SUBSET Nat
         /\ \A l \in 0..Len(t) : l <= m =>
              /\ Newlines(t, l) \subseteq Newlines(t, m)
              /\ Cardinality(Newlines(t, l)) <= Cardinality(Newlines(t, m))
<1>1. Len(t) \in Nat /\ m \in Nat
  OBVIOUS
<1>2. \A l \in Nat : Newlines(t, l) \in SUBSET (1..l)
  BY DEF Newlines
<1>3. \A l \in Nat : IsFiniteSet(Newlines(t, l)) /\ Cardinality(Newlines(t, l)) \in Nat
  BY <1>2, Within
<1>4. ASSUME NEW l \in 0..Len(t), l <= m
      PROVE  /\ Newlines(t, l) \subseteq Newlines(t, m)
             /\ Cardinality(Newlines(t, l)) <= Cardinality(Newlines(t, m))
  <2>1. Newlines(t, l) \subseteq Newlines(t, m)
    BY <1>1, <1>4 DEF Newlines
  <2> QED  BY <1>1, <1>3, <2>1, FS_Subset
<1>5. Newlines(t, m) \in SUBSET Nat
  BY <1>1, <1>2
<1> QED  BY <1>1, <1>2, <1>3, <1>4, <1>5

LEMMA LineCounts ==
  ASSUME NEW t
  PROVE  /\ \A i \in Nat : LineOf(t, i) = 1 + Cardinality(Newlines(t, i - 1))
         /\ Lines(t) = 1 + Cardinality(Newlines(t, Len(t)))
BY DEF LineOf, Lines, Newlines

\* Places with no newline from one up to the other are on one line.
LEMMA SameLine ==
  ASSUME NEW t \in Seq(Characters), NEW i \in 1..Len(t), NEW j \in 1..Len(t), j <= i,
         \A l \in j..(i - 1) : t[l] # "nl"
  PROVE  LineOf(t, j) = LineOf(t, i)
<1>1. Newlines(t, j - 1) = Newlines(t, i - 1)
  <2>1. \A l \in 1..(i - 1) : l \in 1..(j - 1) \/ l \in j..(i - 1)
    OBVIOUS
  <2>2. \A l \in 1..(j - 1) : l \in 1..(i - 1)
    OBVIOUS
  <2> QED  BY <2>1, <2>2 DEF Newlines
<1> QED  BY <1>1, LineCounts

\* Past a newline the line is a later one.
LEMMA NextLine ==
  ASSUME NEW t \in Seq(Characters), NEW j \in 1..Len(t), t[j] = "nl"
  PROVE  /\ \A i \in 1..Len(t) : j < i => LineOf(t, j) < LineOf(t, i)
         /\ LineOf(t, j) < Lines(t)
<1> DEFINE N(m) == Newlines(t, m)
<1>1. Len(t) \in Nat /\ j \in Nat /\ j - 1 \in 0..Len(t)
  OBVIOUS
<1>2. ASSUME NEW m \in 0..Len(t), j <= m PROVE Cardinality(N(j - 1)) < Cardinality(N(m))
  <2>1. N(j - 1) \cup {j} \subseteq N(m) /\ j \notin N(j - 1)
    BY <1>1, <1>2 DEF Newlines
  <2>2. IsFiniteSet(N(m)) /\ Cardinality(N(m)) \in Nat
    BY NewlinesAre
  <2>3. IsFiniteSet(N(j - 1)) /\ Cardinality(N(j - 1)) \in Nat
    BY <1>1, NewlinesAre
  <2> HIDE DEF N
  <2>4. Cardinality(N(j - 1) \cup {j}) = Cardinality(N(j - 1)) + 1
    BY <2>1, <2>3, FS_AddElement
  <2>5. Cardinality(N(j - 1) \cup {j}) <= Cardinality(N(m))
    BY <2>1, <2>2, FS_Subset
  <2> QED  BY <2>2, <2>3, <2>4, <2>5
<1>3. \A m \in 0..Len(t) : Cardinality(N(m)) \in Nat
  BY NewlinesAre
<1>4. LineOf(t, j) = 1 + Cardinality(N(j - 1)) /\ Lines(t) = 1 + Cardinality(N(Len(t)))
  BY <1>1, LineCounts
<1>5. Len(t) \in 0..Len(t) /\ j <= Len(t)
  BY <1>1
<1>6. LineOf(t, j) < Lines(t)
  <2> HIDE DEF N
  <2> QED  BY <1>1, <1>2, <1>3, <1>4, <1>5
<1>7. ASSUME NEW i \in 1..Len(t), j < i PROVE LineOf(t, j) < LineOf(t, i)
  <2>1. i - 1 \in 0..Len(t) /\ j <= i - 1 /\ i \in Nat
    BY <1>1, <1>7
  <2>2. LineOf(t, i) = 1 + Cardinality(N(i - 1))
    BY <2>1, LineCounts
  <2> HIDE DEF N
  <2> QED  BY <1>1, <1>2, <1>3, <1>4, <2>1, <2>2
<1> QED  BY <1>6, <1>7

\* Each line before that of m ends in a newline before m.
LEMMA LineEnds ==
  ASSUME NEW t \in Seq(Characters), NEW m \in 1..Len(t), NEW l \in Nat \ {0}, l < LineOf(t, m)
  PROVE  \E y \in 1..Len(t) : y < m /\ t[y] = "nl" /\ LineOf(t, y) = l
<1> DEFINE S == Newlines(t, m - 1)
<1>1. m - 1 \in 0..Len(t) /\ m \in Nat /\ Len(t) \in Nat
  OBVIOUS
<1>2. IsFiniteSet(S) /\ S \in SUBSET Nat /\ Cardinality(S) \in Nat /\ S \in SUBSET (1..(m - 1))
  BY <1>1, NewlinesAre
<1>3. LineOf(t, m) = 1 + Cardinality(S)
  BY <1>1, LineCounts
<1>4. l \in 1..Cardinality(S)
  <2> HIDE DEF S
  <2> QED  BY <1>2, <1>3
<1>5. PICK y \in S : Cardinality(Below(S, y)) = l - 1
  <2> HIDE DEF S
  <2> QED  BY <1>2, <1>4, NthExists
<1>6. y \in 1..(m - 1) /\ t[y] = "nl"
  BY <1>5 DEF Newlines
<1>7. y \in 1..Len(t) /\ y < m /\ y \in Nat
  BY <1>1, <1>6
<1>8. Below(S, y) = Newlines(t, y - 1)
  <2>1. \A j \in 1..(y - 1) : j \in 1..(m - 1) /\ j < y
    BY <1>1, <1>6
  <2>2. \A j \in 1..(m - 1) : j < y => j \in 1..(y - 1)
    BY <1>1, <1>6
  <2> QED  BY <2>1, <2>2 DEF Below, Newlines
<1>9. LineOf(t, y) = 1 + (l - 1)
  <2> HIDE DEF S
  <2> QED  BY <1>5, <1>7, <1>8, LineCounts
<1>10. 1 + (l - 1) = l
  OBVIOUS
<1> QED  BY <1>6, <1>7, <1>9, <1>10

\* A place that is not kept is no newline, and a hit names its line.
LEMMA DroppedIs ==
  ASSUME NEW t \in Seq(Characters), NEW i \in 1..Len(t), i \notin Written(t)
  PROVE  /\ t[i] # "nl"
         /\ \E h \in StripInvisible(t).hits : h.line = LineOf(t, i) /\ h.through = LineOf(t, i)
<1>1. \A j \in Places(t) \ Written(t) :
        \E h \in StripInvisible(t).hits : h.line = LineOf(t, j) /\ h.through = LineOf(t, j)
  <2> DEFINE H(j) == Hit(LineOf(t, j), LineOf(t, j), Class(t, j))
  <2>1. \A j \in Places(t) \ Written(t) : H(j) \in StripInvisible(t).hits
    BY DEF StripInvisible
  <2>2. \A j : H(j).line = LineOf(t, j) /\ H(j).through = LineOf(t, j)
    BY DEF Hit
  <2> HIDE DEF H
  <2> QED  BY <2>1, <2>2
<1>2. CASE i \in Places(t)
  <2>1. Class(t, i) # "text"
    BY <1>2 DEF Written
  <2>2. t[i] # "nl"
    BY <2>1 DEF Class
  <2> QED  BY <1>1, <1>2, <2>2
<1>3. CASE i \notin Places(t)
  <2>1. PICK j \in Places(t) : j < i /\ i < j + Width(t, j)
    BY <1>3, SkippedIs
  <2>2. j \in 1..Len(t)
    BY PlacesIs
  <2>3. i \in Nat /\ j \in Nat
    BY <2>2
  <2>4. (\A l \in j..i : t[l] # "nl") /\ Class(t, j) = "invisible"
    BY <2>1, <2>2, <2>3, WidthIs
  <2>5. j \notin Written(t)
    BY <2>4 DEF Written
  <2>6. i \in j..i /\ j <= i /\ \A l \in j..(i - 1) : l \in j..i
    BY <2>1, <2>3
  <2>7. LineOf(t, j) = LineOf(t, i)
    BY <2>2, <2>4, <2>6, SameLine
  <2> QED  BY <1>1, <2>1, <2>4, <2>5, <2>6, <2>7
<1> QED  BY <1>2, <1>3

\* As many elements as their images under an increasing function.
LEMMA ImageCount ==
  ASSUME NEW n \in Nat, NEW W \in SUBSET Nat, NEW f \in [1..n -> W],
         \A k, m \in 1..n : k < m => f[k] < f[m], NEW S \in SUBSET (1..n)
  PROVE  Cardinality({f[k] : k \in S}) = Cardinality(S)
<1> DEFINE T == {f[k] : k \in S}
           g == [k \in S |-> f[k]]
<1>1. ASSUME NEW k \in S, NEW m \in S, g[k] = g[m] PROVE k = m
  <2>1. k \in 1..n /\ m \in 1..n /\ f[k] = f[m] /\ f[k] \in Nat
    BY <1>1
  <2>2. ~(f[k] < f[m]) /\ ~(f[m] < f[k])
    BY <2>1
  <2> QED  BY <2>1, <2>2
<1>2. g \in Surjection(S, T)
  BY DEF Surjection
<1>3. g \in Injection(S, T)
  <2>1. g \in [S -> T]
    OBVIOUS
  <2> HIDE DEF g, T
  <2> QED  BY <1>1, <2>1 DEF Injection, IsInjective
<1>4. IsFiniteSet(S)
  BY Within
<1> HIDE DEF g, T
<1> QED  BY <1>2, <1>3, <1>4, FS_Surjection DEF T

\* Taking newlines along keeps the numbering of lines.
LEMMA LinesKept ==
  ASSUME NEW t \in Seq(Characters), NEW W \in SUBSET (1..Len(t)), Newlines(t, Len(t)) \subseteq W
  PROVE  /\ Lines(Pick(t, W)) = Lines(t)
         /\ \A k \in 1..Len(Pick(t, W)) : LineOf(Pick(t, W), k) = LineOf(t, InOrder(W)[k])
<1> DEFINE f == InOrder(W)
           n == Cardinality(W)
           u == Pick(t, W)
<1>1. IsFiniteSet(W) /\ W \in SUBSET Nat /\ Len(t) \in Nat
  BY Within
<1>2. /\ n \in Nat /\ f \in [1..n -> W]
      /\ \A k, m \in 1..n : k < m => f[k] < f[m]
      /\ \A i \in W : \E k \in 1..n : f[k] = i
  BY <1>1, InOrderIs
<1>3. u \in Seq(Characters) /\ Len(u) = n /\ \A k \in 1..n : f[k] \in W /\ u[k] = t[f[k]]
  BY PickIs
<1> HIDE DEF f, n, u
<1>4. \A k, m \in 1..n : f[k] < f[m] => k < m
  <2> SUFFICES ASSUME NEW k \in 1..n, NEW m \in 1..n, f[k] < f[m] PROVE k < m
    OBVIOUS
  <2>1. f[k] \in Nat /\ f[m] \in Nat
    BY <1>1, <1>3
  <2>2. ~(m < k) /\ m # k
    BY <1>2, <2>1
  <2> QED  BY <1>2, <2>2
<1>5. ASSUME NEW k \in 1..n PROVE LineOf(u, k) = LineOf(t, f[k])
  <2>1. f[k] \in 1..Len(t) /\ k \in Nat
    <3>1. f[k] \in W
      BY <1>3
    <3>2. k \in Nat
      BY <1>2
    <3> QED  BY <3>1, <3>2
  <2> DEFINE S == Newlines(u, k - 1)
             T == Newlines(t, f[k] - 1)
  <2>2. \A j \in 1..(k - 1) : j \in 1..n /\ j < k
    BY <1>2
  <2>3. \A i \in 1..(f[k] - 1) : i \in 1..Len(t) /\ i < f[k]
    BY <1>1, <2>1
  <2>4. {f[j] : j \in S} = T
    <3>1. ASSUME NEW j \in S PROVE f[j] \in T
      <4>1. j \in 1..n /\ j < k /\ u[j] = "nl"
        BY <2>2, <3>1 DEF Newlines
      <4>2. f[j] \in 1..Len(t) /\ f[j] < f[k] /\ t[f[j]] = "nl"
        BY <1>2, <1>3, <4>1
      <4> QED  BY <2>1, <4>2 DEF Newlines
    <3>2. ASSUME NEW i \in T PROVE \E j \in S : f[j] = i
      <4>1. i \in 1..Len(t) /\ i < f[k] /\ t[i] = "nl"
        BY <2>3, <3>2 DEF Newlines
      <4>2. i \in W
        BY <4>1 DEF Newlines
      <4>3. PICK j \in 1..n : f[j] = i
        BY <1>2, <4>2
      <4>4. j < k /\ u[j] = "nl"
        BY <1>3, <1>4, <4>1, <4>3
      <4>5. j \in 1..(k - 1)
        BY <1>2, <4>3, <4>4
      <4> QED  BY <4>3, <4>4, <4>5 DEF Newlines
    <3> HIDE DEF S, T
    <3> QED  BY <3>1, <3>2
  <2>5. S \in SUBSET (1..n)
    BY <2>2 DEF Newlines
  <2>6. Cardinality(T) = Cardinality(S)
    <3> HIDE DEF S, T
    <3> QED  BY <1>1, <1>2, <2>4, <2>5, ImageCount
  <2>7. LineOf(u, k) = 1 + Cardinality(S)
    BY <2>1, LineCounts
  <2>8. LineOf(t, f[k]) = 1 + Cardinality(T)
    BY <2>1, LineCounts
  <2> QED  BY <2>6, <2>7, <2>8
<1>6. Lines(u) = Lines(t)
  <2> DEFINE S == Newlines(u, n)
             T == Newlines(t, Len(t))
  <2>1. {f[j] : j \in S} = T
    <3>1. ASSUME NEW j \in S PROVE f[j] \in T
      <4>1. j \in 1..n /\ u[j] = "nl"
        BY <3>1 DEF Newlines
      <4>2. f[j] \in 1..Len(t) /\ t[f[j]] = "nl"
        BY <1>3, <4>1
      <4> QED  BY <4>2 DEF Newlines
    <3>2. ASSUME NEW i \in T PROVE \E j \in S : f[j] = i
      <4>1. i \in W /\ t[i] = "nl"
        BY <3>2 DEF Newlines
      <4>2. PICK j \in 1..n : f[j] = i
        BY <1>2, <4>1
      <4>3. u[j] = "nl"
        BY <1>3, <4>1, <4>2
      <4> QED  BY <4>2, <4>3 DEF Newlines
    <3> HIDE DEF S, T
    <3> QED  BY <3>1, <3>2
  <2>2. S \in SUBSET (1..n)
    BY DEF Newlines
  <2>3. Cardinality(T) = Cardinality(S)
    <3> HIDE DEF S, T
    <3> QED  BY <1>1, <1>2, <2>1, <2>2, ImageCount
  <2> QED  BY <1>3, <2>3, LineCounts
<1>7. \A k \in 1..Len(u) : LineOf(u, k) = LineOf(t, f[k])
  BY <1>3, <1>5
<1> QED  BY <1>6, <1>7 DEF f, u

\* What is picked from what was picked.
LEMMA PickPick ==
  ASSUME NEW t \in Seq(Characters), NEW W \in SUBSET (1..Len(t)), NEW S \in SUBSET (1..Len(Pick(t, W)))
  PROVE  Pick(Pick(t, W), S) = Pick(t, {InOrder(W)[k] : k \in S})
<1> DEFINE f == InOrder(W)
           n == Cardinality(W)
           u == Pick(t, W)
           g == InOrder(S)
           c == Cardinality(S)
           T == {f[k] : k \in S}
           h == [k \in 1..c |-> f[g[k]]]
<1>1. IsFiniteSet(W) /\ W \in SUBSET Nat /\ Len(t) \in Nat
  BY Within
<1>2. n \in Nat /\ f \in [1..n -> W] /\ \A k, m \in 1..n : k < m => f[k] < f[m]
  BY <1>1, InOrderIs
<1>3. u \in Seq(Characters) /\ Len(u) = n /\ \A k \in 1..n : f[k] \in W /\ u[k] = t[f[k]]
  BY PickIs
<1>4. S \in SUBSET (1..n)
  BY <1>3
<1>5. IsFiniteSet(S) /\ S \in SUBSET Nat
  <2> HIDE DEF n
  <2> QED  BY <1>2, <1>4, Within
<1>6. /\ c \in Nat /\ g \in [1..c -> S]
      /\ \A k, m \in 1..c : k < m => g[k] < g[m]
      /\ \A i \in S : \E k \in 1..c : g[k] = i
  BY <1>5, InOrderIs
<1> HIDE DEF f, n, u, g, c
<1>7. T \in SUBSET Nat
  BY <1>1, <1>2, <1>4
<1>8. h \in [1..c -> T]
  BY <1>6
<1>9. \A k, m \in 1..c : k < m => h[k] < h[m]
  BY <1>2, <1>4, <1>6
<1>10. \A i \in T : \E k \in 1..c : h[k] = i
  <2> SUFFICES ASSUME NEW j \in S PROVE \E k \in 1..c : h[k] = f[j]
    OBVIOUS
  <2>1. PICK k \in 1..c : g[k] = j
    BY <1>6
  <2> QED  BY <2>1
<1>11. Cardinality(T) = c /\ InOrder(T) = h
  <2> HIDE DEF T, h
  <2> QED  BY <1>6, <1>7, <1>8, <1>9, <1>10, InOrderOnly
<1>12. Pick(t, T) = [k \in 1..c |-> t[h[k]]]
  <2> HIDE DEF T, h
  <2> QED  BY <1>11 DEF Pick
<1>13. Pick(u, S) = [k \in 1..c |-> u[g[k]]]
  BY DEF Pick, c, g
<1>14. \A k \in 1..c : u[g[k]] = t[h[k]]
  <2>1. \A k \in 1..c : g[k] \in 1..n
    BY <1>4, <1>6
  <2> QED  BY <1>3, <2>1
<1>15. Pick(t, T) = Pick(u, S)
  <2> HIDE DEF T, h
  <2> QED  BY <1>12, <1>13, <1>14
<1> QED  BY <1>15 DEF u, T, f

\* Picking the same places of a text and of its beginning.
LEMMA PickStart ==
  ASSUME NEW u \in Seq(Characters), NEW p \in Seq(Characters), StartOf(p, u), NEW S \in SUBSET (1..Len(p))
  PROVE  Pick(p, S) = Pick(u, S)
<1> DEFINE n == Cardinality(S)
           f == InOrder(S)
<1>1. IsFiniteSet(S) /\ S \in SUBSET Nat
  BY Within
<1>2. f \in [1..n -> S]
  BY <1>1, InOrderIs
<1>3. Pick(p, S) = [k \in 1..n |-> p[f[k]]] /\ Pick(u, S) = [k \in 1..n |-> u[f[k]]]
  BY DEF Pick
<1>4. \A k \in 1..n : p[f[k]] = u[f[k]]
  <2> HIDE DEF n, f
  <2>1. \A k \in 1..n : f[k] \in 1..Len(p)
    BY <1>2
  <2> QED  BY <2>1 DEF StartOf
<1> HIDE DEF n, f
<1> QED  BY <1>3, <1>4

-----------------------------------------------------------------------------
(* Lines that are kept                                                     *)

\* A line on which nothing is dropped is picked as it is.
LEMMA LineKept ==
  ASSUME NEW t \in Seq(Characters), NEW l \in Nat,
         \A i \in 1..Len(t) : LineOf(t, i) = l => i \in Written(t)
  PROVE  Shown(StripInvisible(t).text, l) = Shown(t, l)
<1> DEFINE W == Written(t)
           f == InOrder(W)
           n == Cardinality(W)
           u == Pick(t, W)
           S == {k \in 1..Len(u) : u[k] # "nl" /\ LineOf(u, k) = l}
           T == {i \in 1..Len(t) : t[i] # "nl" /\ LineOf(t, i) = l}
<1>1. W \in SUBSET (1..Len(t)) /\ Newlines(t, Len(t)) \subseteq W
  <2>1. W \in SUBSET (1..Len(t))
    BY PlacesIs DEF Written
  <2>2. \A i \in 1..Len(t) : t[i] = "nl" => i \in W
    BY DroppedIs
  <2> QED  BY <2>1, <2>2 DEF Newlines
<1> HIDE DEF W
<1>2. W \in SUBSET Nat /\ IsFiniteSet(W)
  BY <1>1, Within
<1>3. \A i \in W : \E k \in 1..n : f[k] = i
  BY <1>2, InOrderIs
<1>4. u \in Seq(Characters) /\ Len(u) = n /\ \A k \in 1..n : f[k] \in W /\ u[k] = t[f[k]]
  BY <1>1, PickIs
<1>5. \A k \in 1..Len(u) : LineOf(u, k) = LineOf(t, f[k])
  BY <1>1, LinesKept
<1> HIDE DEF f, n, u
<1>6. {f[k] : k \in S} = T
  <2>1. ASSUME NEW k \in S PROVE f[k] \in T
    <3>1. k \in 1..n /\ u[k] # "nl" /\ LineOf(u, k) = l
      BY <1>4, <2>1
    <3>2. f[k] \in 1..Len(t) /\ t[f[k]] # "nl" /\ LineOf(t, f[k]) = l
      BY <1>1, <1>4, <1>5, <3>1
    <3> QED  BY <3>2
  <2>2. ASSUME NEW i \in T PROVE \E k \in S : f[k] = i
    <3>1. i \in W /\ t[i] # "nl" /\ LineOf(t, i) = l
      BY DEF W
    <3>2. PICK k \in 1..n : f[k] = i
      BY <1>3, <3>1
    <3>3. k \in S
      BY <1>4, <1>5, <3>1, <3>2
    <3> QED  BY <3>2, <3>3
  <2> HIDE DEF S, T
  <2> QED  BY <2>1, <2>2
<1>7. S \in SUBSET (1..Len(u))
  OBVIOUS
<1>8. Pick(u, S) = Pick(t, T)
  <2> HIDE DEF S, T
  <2> QED  BY <1>1, <1>6, <1>7, PickPick DEF f, u
<1>9. StripInvisible(t).text = u
  BY DEF StripInvisible, u, W
<1>10. Shown(u, l) = Pick(u, S) /\ Shown(t, l) = Pick(t, T)
  BY DEF Shown
<1> QED  BY <1>8, <1>9, <1>10

\* So are the lines before a forged turn.
LEMMA LineBefore ==
  ASSUME NEW u \in Seq(Characters), Markers(u) # {}, NEW l \in Nat \ {0}, l < Forged(u)
  PROVE  /\ l <= Lines(StripForgedTurn(u).text)
         /\ Shown(StripForgedTurn(u).text, l) = Shown(u, l)
<1> DEFINE p == StripForgedTurn(u).text
           m == Min(Markers(u))
           B == Breaks(u)
           x == Max(B)
<1>1. /\ p \in Seq(Characters) /\ StartOf(p, u) /\ Len(p) < Len(u) /\ m \in 1..Len(u)
      /\ Len(p) = IF B = {} THEN 0 ELSE x - 1
  BY TurnIs
<1>2. LineOf(u, m) = Forged(u)
  BY DEF Forged
<1> HIDE DEF p, m
<1>3. PICK y \in 1..Len(u) : y < m /\ u[y] = "nl" /\ LineOf(u, y) = l
  BY <1>1, <1>2, LineEnds
<1>4. y \in B
  BY <1>3 DEF Breaks
<1>5. x \in 1..Len(u) /\ y <= x /\ u[x] = "nl"
  <2>1. B \in SUBSET (1..Len(u)) /\ Len(u) \in Nat
    BY DEF Breaks
  <2>2. x \in B /\ y <= x
    <3> HIDE DEF B
    <3> QED  BY <1>4, <2>1, MaxIs
  <2> HIDE DEF x
  <2> QED  BY <2>2 DEF Breaks
<1>6. Len(p) = x - 1
  <2> HIDE DEF x, B
  <2> QED  BY <1>1, <1>4
<1> HIDE DEF x, B
<1>7. Len(u) \in Nat /\ x \in Nat /\ y \in Nat /\ Len(p) \in Nat
  BY <1>1, <1>5
<1>8. \A k \in 0..Len(p) : Newlines(p, k) = Newlines(u, k)
  <2>1. \A k \in 0..Len(p) : \A j \in 1..k : j \in 1..Len(p)
    BY <1>7
  <2>2. \A j \in 1..Len(p) : p[j] = u[j]
    BY <1>1 DEF StartOf
  <2> QED  BY <2>1, <2>2 DEF Newlines
<1>9. l <= Lines(p)
  <2>1. Lines(p) = 1 + Cardinality(Newlines(u, x - 1))
    <3>1. Len(p) \in 0..Len(p)
      BY <1>7
    <3> QED  BY <1>6, <1>8, <3>1, LineCounts
  <2>2. LineOf(u, x) = 1 + Cardinality(Newlines(u, x - 1))
    BY <1>7, LineCounts
  <2>3. LineOf(u, y) <= LineOf(u, x)
    BY <1>3, <1>5, LineIs
  <2> QED  BY <1>3, <2>1, <2>2, <2>3
<1> DEFINE S == {i \in 1..Len(p) : p[i] # "nl" /\ LineOf(p, i) = l}
           T == {i \in 1..Len(u) : u[i] # "nl" /\ LineOf(u, i) = l}
<1>10. \A i \in 1..Len(p) : LineOf(p, i) = LineOf(u, i) /\ p[i] = u[i] /\ i \in 1..Len(u)
  <2> SUFFICES ASSUME NEW i \in 1..Len(p)
               PROVE  LineOf(p, i) = LineOf(u, i) /\ p[i] = u[i] /\ i \in 1..Len(u)
    OBVIOUS
  <2>1. i \in Nat /\ i - 1 \in 0..Len(p) /\ i \in 1..Len(u)
    BY <1>1, <1>7
  <2>2. p[i] = u[i]
    BY <1>1 DEF StartOf
  <2>3. Newlines(p, i - 1) = Newlines(u, i - 1)
    BY <1>8, <2>1
  <2> QED  BY <2>1, <2>2, <2>3, LineCounts
<1>11. ASSUME NEW i \in T PROVE i \in 1..Len(p)
  <2>1. i \in 1..Len(u) /\ u[i] # "nl" /\ LineOf(u, i) = l
    OBVIOUS
  <2>2. ASSUME ~(i < y) PROVE FALSE
    <3>1. i # y
      BY <1>3, <2>1
    <3>2. y < i
      BY <1>7, <2>1, <2>2, <3>1
    <3>3. LineOf(u, y) < LineOf(u, i)
      BY <1>3, <2>1, <3>2, NextLine
    <3> QED  BY <1>3, <2>1, <3>3
  <2> QED  BY <1>5, <1>6, <1>7, <2>1, <2>2
<1>12. S = T
  <2>1. ASSUME NEW i \in S PROVE i \in T
    BY <1>10
  <2>2. ASSUME NEW i \in T PROVE i \in S
    BY <1>10, <1>11
  <2> HIDE DEF S, T
  <2> QED  BY <2>1, <2>2
<1>13. S \in SUBSET (1..Len(p))
  OBVIOUS
<1>14. Shown(p, l) = Pick(p, S) /\ Shown(u, l) = Pick(u, T)
  BY DEF Shown
<1>15. Pick(p, S) = Pick(u, S)
  <2> HIDE DEF S
  <2> QED  BY <1>1, <1>13, PickStart
<1>16. Shown(p, l) = Shown(u, l)
  <2> HIDE DEF S, T
  <2> QED  BY <1>12, <1>14, <1>15
<1> QED  BY <1>9, <1>16 DEF p

-----------------------------------------------------------------------------
(* The report covers what was lost                                         *)

Reasons == {"invisible", "malformed", "control_token", "text"}

HitType == [line : Nat, through : Nat, reason : Reasons, inName : BOOLEAN]

\* Hits in order: their lines do not decrease, none reaches past the last.
Sorted(hits) ==
  \A j, k \in 1..Len(hits) : j <= k =>
    hits[j].line <= hits[k].line /\ hits[j].through <= hits[Len(hits)].through

\* The hit that stands for the rest covers what the rest covers.
LEMMA CapCovers ==
  ASSUME NEW hits \in Seq(HitType), Sorted(hits), NEW k \in 1..Len(hits), NEW l \in Nat,
         Covers(hits[k], l)
  PROVE  \E n \in DOMAIN CapHits(hits) : Covers(CapHits(hits)[n], l)
<1> DEFINE m == maxHitsPerField
           last == [hits[m] EXCEPT !.through = Last(hits).through]
           s == SubSeq(hits, 1, m - 1)
<1>1. m \in Nat \ {0} /\ Len(hits) \in Nat
  BY LimitAssumption
<1>2. CASE Len(hits) <= m
  <2>1. CapHits(hits) = hits
    BY <1>2 DEF CapHits
  <2>2. k \in DOMAIN hits
    OBVIOUS
  <2> QED  BY <2>1, <2>2
<1>3. CASE ~(Len(hits) <= m)
  <2>1. CapHits(hits) = Append(s, last)
    BY <1>3 DEF CapHits
  <2>2. m \in 1..Len(hits) /\ Len(hits) \in 1..Len(hits)
    BY <1>1, <1>3
  <2>3. hits[m] \in HitType /\ hits[Len(hits)] \in HitType /\ hits[k] \in HitType
    BY <2>2
  <2>4. Last(hits) = hits[Len(hits)]
    BY DEF Last
  <2>5. last \in HitType /\ last.line = hits[m].line /\ last.through = hits[Len(hits)].through
    BY <2>3, <2>4 DEF HitType
  <2> HIDE DEF last
  <2>6. s \in Seq(HitType) /\ Len(s) = m - 1 /\ \A n \in 1..(m - 1) : s[n] = hits[n]
    BY <1>1, <1>3
  <2> HIDE DEF s
  <2>7. /\ DOMAIN Append(s, last) = 1..m
        /\ \A n \in 1..(m - 1) : Append(s, last)[n] = hits[n]
        /\ Append(s, last)[m] = last
    BY <1>1, <2>5, <2>6
  <2>8. CASE k <= m - 1
    <3>1. k \in 1..(m - 1) /\ k \in 1..m
      BY <1>1, <2>8
    <3> QED  BY <2>1, <2>7, <3>1
  <2>9. CASE ~(k <= m - 1)
    <3>1. m <= k /\ m \in 1..m
      BY <1>1, <2>9
    <3>2. hits[m].line <= hits[k].line /\ hits[k].through <= hits[Len(hits)].through
      BY <2>2, <3>1 DEF Sorted
    <3>3. hits[k].line <= l /\ l <= hits[k].through
      BY DEF Covers
    <3>4. last.line <= l /\ l <= last.through
      <4>1. /\ hits[m].line \in Nat /\ hits[k].line \in Nat
            /\ hits[k].through \in Nat /\ hits[Len(hits)].through \in Nat
        BY <2>3 DEF HitType
      <4> QED  BY <2>5, <3>2, <3>3, <4>1
    <3> QED  BY <2>1, <2>7, <3>1, <3>4 DEF Covers
  <2> QED  BY <2>8, <2>9
<1> QED  BY <1>2, <1>3

LEMMA HitIs ==
  ASSUME NEW f \in Nat, NEW l \in Nat, NEW r \in Reasons
  PROVE  /\ Hit(f, l, r) \in HitType
         /\ Hit(f, l, r).line = f /\ Hit(f, l, r).through = l
BY DEF Hit, HitType

LEMMA HitsTyped ==
  ASSUME NEW t \in Seq(Characters)
  PROVE  StripInvisible(t).hits \subseteq HitType
<1> SUFFICES ASSUME NEW h \in StripInvisible(t).hits PROVE h \in HitType
  OBVIOUS
<1>1. PICK i \in Places(t) \ Written(t) : h = Hit(LineOf(t, i), LineOf(t, i), Class(t, i))
  BY HitsAre
<1>2. LineOf(t, i) \in Nat /\ Class(t, i) \in Reasons
  <2>1. i \in 1..Len(t)
    BY PlacesIs
  <2>2. Class(t, i) \in {"text", "invisible", "malformed"}
    BY TextIsSeen
  <2> QED  BY <2>1, <2>2, LineIs DEF Reasons
<1>3. Hit(LineOf(t, i), LineOf(t, i), Class(t, i)) \in HitType
  BY <1>2, HitIs
<1> QED  BY <1>1, <1>3

\* Ranks order lines.
LEMMA RankIs ==
  ASSUME NEW g, NEW h, g.line \in Nat, h.line \in Nat
  PROVE  /\ Rank(g) = Rank(h) => g.line = h.line
         /\ Rank(g) < Rank(h) => g.line <= h.line
<1> DEFINE a == IF g.reason = "invisible" THEN 0 ELSE 1
           b == IF h.reason = "invisible" THEN 0 ELSE 1
<1>1. Rank(g) = 2 * g.line + a /\ Rank(h) = 2 * h.line + b
  BY DEF Rank
<1>2. a \in 0..1 /\ b \in 0..1
  OBVIOUS
<1> HIDE DEF a, b
<1> QED  BY <1>1, <1>2

\* The whole report, before it is capped.
AllHits(t) == ByLine(Before(t)) \o StripForgedTurn(StripInvisible(t).text).hits

LEMMA AllHitsAre ==
  ASSUME NEW t \in Seq(Characters)
  PROVE  /\ AllHits(t) \in Seq(HitType) /\ Sorted(AllHits(t))
         /\ \A h \in Before(t) : \E n \in 1..Len(AllHits(t)) :
              AllHits(t)[n].line = h.line /\ AllHits(t)[n].through = h.line
         /\ Markers(StripInvisible(t).text) # {} =>
              \E n \in 1..Len(AllHits(t)) :
                /\ AllHits(t)[n].line = Forged(StripInvisible(t).text)
                /\ AllHits(t)[n].through = Lines(StripInvisible(t).text)
<1> DEFINE shown == StripInvisible(t)
           u == shown.text
           turn == StripForgedTurn(u)
           B == Before(t)
           b == ByLine(B)
           x == Hit(Forged(u), Lines(u), "control_token")
           all == AllHits(t)
<1>1. u \in Seq(Characters)
  BY SeenIs
<1>2. B \subseteq shown.hits /\ (turn.hits # <<>> => \A h \in B : h.line < turn.hits[1].line)
  BY DEF Before
<1>3. /\ IsFiniteSet(B) /\ B \subseteq HitType
      /\ \A h \in B : h.line \in Nat /\ h.through = h.line
  <2>1. IsFiniteSet(shown.hits) /\ \A h \in shown.hits : h.line \in Nat /\ h.through = h.line
    BY HitsAre
  <2>2. shown.hits \subseteq HitType
    BY HitsTyped
  <2> HIDE DEF B, shown
  <2> QED  BY <1>2, <2>1, <2>2, FS_Subset
<1>4. /\ b \in Seq(B)
      /\ \A h \in B : \E n \in 1..Len(b) : b[n] \in B /\ Rank(b[n]) = Rank(h)
      /\ \A k, m \in 1..Len(b) : k < m => Rank(b[k]) < Rank(b[m])
  <2> HIDE DEF B
  <2> QED  BY <1>3, ByLineIs
<1>5. Len(b) \in Nat /\ \A k \in 1..Len(b) : b[k] \in B
  <2> HIDE DEF b, B
  <2> QED  BY <1>4
<1>6. \A k \in 1..Len(b) : b[k].line \in Nat /\ b[k].through = b[k].line
  <2> HIDE DEF b, B
  <2> QED  BY <1>3, <1>5
<1>7. \A k, m \in 1..Len(b) : k <= m => b[k].line <= b[m].line
  <2> HIDE DEF b, B
  <2> SUFFICES ASSUME NEW k \in 1..Len(b), NEW m \in 1..Len(b), k <= m
               PROVE  b[k].line <= b[m].line
    OBVIOUS
  <2>1. CASE k = m
    BY <1>6, <2>1
  <2>2. CASE k # m
    <3>1. k < m
      BY <1>5, <2>2
    <3>2. Rank(b[k]) < Rank(b[m])
      BY <1>4, <3>1
    <3> QED  BY <1>6, <3>2, RankIs
  <2> QED  BY <2>1, <2>2
<1>8. b \in Seq(HitType)
  <2> HIDE DEF b, B
  <2> QED  BY <1>3, <1>4
<1>9. \A h \in B : \E n \in 1..Len(b) : b[n].line = h.line /\ b[n].through = h.line
  <2> HIDE DEF b, B
  <2> SUFFICES ASSUME NEW h \in B PROVE \E n \in 1..Len(b) : b[n].line = h.line /\ b[n].through = h.line
    OBVIOUS
  <2>1. PICK n \in 1..Len(b) : Rank(b[n]) = Rank(h)
    BY <1>4
  <2>2. b[n].line = h.line
    BY <1>3, <1>6, <2>1, RankIs
  <2> QED  BY <1>6, <2>2
<1>10. all = b \o turn.hits
  BY DEF AllHits
<1>11. CASE Markers(u) = {}
  <2>1. turn.hits = <<>>
    <3>1. turn = [text |-> u, hits |-> <<>>]
      <4> HIDE DEF u
      <4> QED  BY <1>1, <1>11, TurnIs
    <3> QED  BY <3>1
  <2>2. all = b
    <3> HIDE DEF b, turn, all
    <3> QED  BY <1>8, <1>10, <2>1
  <2>3. Sorted(b)
    <3> HIDE DEF b, B
    <3> QED  BY <1>5, <1>6, <1>7 DEF Sorted
  <2> HIDE DEF b, B, all, u
  <2>4. \A h \in B : \E n \in 1..Len(all) : all[n].line = h.line /\ all[n].through = h.line
    BY <1>9, <2>2
  <2> QED  BY <1>8, <1>11, <2>2, <2>3, <2>4 DEF all, B, u
<1>12. CASE Markers(u) # {}
  <2>1. turn.hits = <<x>> /\ Min(Markers(u)) \in 1..Len(u)
    <3> HIDE DEF u
    <3> QED  BY <1>1, <1>12, TurnIs
  <2>2. Forged(u) \in Nat /\ Lines(u) \in Nat /\ Forged(u) <= Lines(u)
    <3> HIDE DEF u
    <3> QED  BY <1>1, <2>1, LineIs DEF Forged
  <2>3. x \in HitType /\ x.line = Forged(u) /\ x.through = Lines(u)
    <3> HIDE DEF u
    <3> QED  BY <2>2, HitIs DEF Reasons
  <2>4. \A k \in 1..Len(b) : b[k].line < x.line
    <3> HIDE DEF x, turn, b, B
    <3>1. turn.hits # <<>> /\ turn.hits[1] = x
      BY <2>1
    <3> QED  BY <1>2, <1>5, <3>1
  <2> DEFINE n == Len(b) + 1
  <2>5. /\ all \in Seq(HitType) /\ Len(all) = n /\ n \in 1..n
        /\ \A k \in 1..Len(b) : k \in 1..n /\ all[k] = b[k]
        /\ all[n] = x
        /\ \A k \in 1..n : k \in 1..Len(b) \/ k = n
    <3> HIDE DEF x, turn, b, all
    <3> QED  BY <1>5, <1>8, <1>10, <2>1, <2>3
  <2> HIDE DEF x, turn, b, all, n, B, u
  <2>6. \A k \in 1..Len(b) : all[k].line \in Nat /\ all[k].through = all[k].line /\ all[k].line < all[n].line
    BY <1>6, <2>4, <2>5
  <2>7. all[n].line \in Nat /\ all[n].through \in Nat /\ all[n].line <= all[n].through
    BY <2>2, <2>3, <2>5
  <2>8. Sorted(all)
    <3> SUFFICES ASSUME NEW j \in 1..n, NEW k \in 1..n, j <= k
                 PROVE  all[j].line <= all[k].line /\ all[j].through <= all[n].through
      BY <2>5 DEF Sorted
    <3>1. all[j].through <= all[n].through
      <4>1. CASE j = n
        BY <2>7, <4>1
      <4>2. CASE j \in 1..Len(b)
        BY <2>6, <2>7, <4>2
      <4> QED  BY <2>5, <4>1, <4>2
    <3>2. CASE k = n
      <4>1. CASE j = n
        BY <2>7, <3>2, <4>1
      <4>2. CASE j \in 1..Len(b)
        BY <2>6, <2>7, <3>2, <4>2
      <4> QED  BY <2>5, <3>1, <4>1, <4>2
    <3>3. CASE k \in 1..Len(b)
      <4>1. j \in 1..Len(b)
        BY <1>5, <3>3
      <4>2. b[j].line <= b[k].line
        BY <1>7, <3>3, <4>1
      <4>3. all[j] = b[j] /\ all[k] = b[k]
        BY <2>5, <3>3, <4>1
      <4> QED  BY <3>1, <4>2, <4>3
    <3> QED  BY <2>5, <3>2, <3>3
  <2>9. \A h \in B : \E k \in 1..Len(all) : all[k].line = h.line /\ all[k].through = h.line
    <3> SUFFICES ASSUME NEW h \in B
                 PROVE  \E k \in 1..Len(all) : all[k].line = h.line /\ all[k].through = h.line
      OBVIOUS
    <3>1. PICK k \in 1..Len(b) : b[k].line = h.line /\ b[k].through = h.line
      BY <1>9
    <3> QED  BY <2>5, <3>1
  <2>10. \E k \in 1..Len(all) : all[k].line = Forged(u) /\ all[k].through = Lines(u)
    BY <2>3, <2>5
  <2> QED  BY <2>5, <2>8, <2>9, <2>10 DEF all, B, u
<1> QED  BY <1>11, <1>12

\* A line is covered by a hit, or shown as it was written at its own place.
LEMMA LinesAccounted ==
  ASSUME NEW t \in Seq(Characters), NEW l \in 1..Lines(t)
  PROVE  \/ \E n \in DOMAIN Value(t).hits : Covers(Value(t).hits[n], l)
         \/ l <= Lines(Value(t).text) /\ Shown(Value(t).text, l) = Shown(t, l)
<1> DEFINE shown == StripInvisible(t)
           u == shown.text
           turn == StripForgedTurn(u)
           B == Before(t)
           all == AllHits(t)
<1>1. u \in Seq(Characters)
  BY SeenIs
<1>2. Value(t).text = turn.text /\ Value(t).hits = CapHits(all)
  BY DEF Value, AllHits, Before
<1>3. all \in Seq(HitType) /\ Sorted(all)
  BY AllHitsAre
<1>4. l \in Nat \ {0} /\ Lines(t) \in Nat /\ l <= Lines(t)
  <2>1. Len(t) \in 0..Len(t)
    OBVIOUS
  <2>2. Lines(t) \in Nat
    <3>1. Cardinality(Newlines(t, Len(t))) \in Nat
      BY <2>1, NewlinesAre
    <3> QED  BY <3>1, LineCounts
  <2> QED  BY <2>2
<1>5. Lines(u) = Lines(t)
  <2>1. Written(t) \in SUBSET (1..Len(t))
    BY PlacesIs DEF Written
  <2>2. Newlines(t, Len(t)) \subseteq Written(t)
    <3>1. \A i \in 1..Len(t) : t[i] = "nl" => i \in Written(t)
      BY DroppedIs
    <3> QED  BY <3>1 DEF Newlines
  <2>3. u = Pick(t, Written(t))
    BY DEF StripInvisible
  <2> QED  BY <2>1, <2>2, <2>3, LinesKept
<1>6. CASE \E h \in B : h.line = l
  <2>1. PICK h \in B : h.line = l
    BY <1>6
  <2>2. PICK n \in 1..Len(all) : all[n].line = h.line /\ all[n].through = h.line
    BY AllHitsAre
  <2>3. Covers(all[n], l)
    BY <1>4, <2>1, <2>2 DEF Covers
  <2> HIDE DEF all
  <2> QED  BY <1>2, <1>3, <1>4, <2>3, CapCovers
<1>7. CASE Markers(u) # {} /\ ~(l < Forged(u))
  <2>1. PICK n \in 1..Len(all) : all[n].line = Forged(u) /\ all[n].through = Lines(u)
    BY <1>7, AllHitsAre
  <2>2. Forged(u) \in Nat
    <3>1. Min(Markers(u)) \in 1..Len(u)
      <4> HIDE DEF u
      <4> QED  BY <1>1, <1>7, TurnIs
    <3> HIDE DEF u
    <3> QED  BY <1>1, <3>1, LineIs DEF Forged
  <2> HIDE DEF all, u
  <2>3. Covers(all[n], l)
    BY <1>4, <1>5, <1>7, <2>1, <2>2 DEF Covers
  <2> QED  BY <1>2, <1>3, <1>4, <2>3, CapCovers
<1>8. CASE (~\E h \in B : h.line = l) /\ (Markers(u) = {} \/ l < Forged(u))
  <2>1. ASSUME NEW h \in shown.hits, h.line = l PROVE FALSE
    <3>1. turn.hits = <<>> \/ h.line < turn.hits[1].line
      <4>1. CASE Markers(u) = {}
        <5>1. turn = [text |-> u, hits |-> <<>>]
          <6> HIDE DEF u
          <6> QED  BY <1>1, <4>1, TurnIs
        <5> QED  BY <5>1
      <4>2. CASE Markers(u) # {}
        <5> DEFINE x == Hit(Forged(u), Lines(u), "control_token")
        <5>1. turn.hits = <<x>>
          <6> HIDE DEF u
          <6> QED  BY <1>1, <4>2, TurnIs
        <5>2. x.line = Forged(u)
          BY DEF Hit
        <5> HIDE DEF x, turn
        <5>3. turn.hits[1] = x
          BY <5>1
        <5> QED  BY <1>8, <2>1, <4>2, <5>2, <5>3
      <4> QED  BY <4>1, <4>2
    <3>2. h \in B
      BY <3>1 DEF Before
    <3> QED  BY <1>8, <2>1, <3>2
  <2>2. \A i \in 1..Len(t) : LineOf(t, i) = l => i \in Written(t)
    <3> SUFFICES ASSUME NEW i \in 1..Len(t), LineOf(t, i) = l, i \notin Written(t) PROVE FALSE
      OBVIOUS
    <3>1. \E h \in shown.hits : h.line = l
      BY DroppedIs
    <3> QED  BY <2>1, <3>1
  <2>3. Shown(u, l) = Shown(t, l)
    BY <1>4, <2>2, LineKept
  <2>4. CASE Markers(u) = {}
    <3>1. turn.text = u
      <4>1. turn = [text |-> u, hits |-> <<>>]
        <5> HIDE DEF u
        <5> QED  BY <1>1, <2>4, TurnIs
      <4> QED  BY <4>1
    <3> HIDE DEF turn, u
    <3> QED  BY <1>2, <1>4, <1>5, <2>3, <3>1
  <2>5. CASE Markers(u) # {}
    <3>1. l < Forged(u)
      BY <1>8, <2>5
    <3>2. l <= Lines(turn.text) /\ Shown(turn.text, l) = Shown(u, l)
      <4> HIDE DEF u
      <4> QED  BY <1>1, <1>4, <2>5, <3>1, LineBefore
    <3> HIDE DEF turn, u
    <3> QED  BY <1>2, <2>3, <3>2
  <2> QED  BY <2>4, <2>5
<1> QED  BY <1>6, <1>7, <1>8

LEMMA OneIsClean ==
  ASSUME NEW c \in Characters, c \notin Unseen
  PROVE  <<c>> \in Seq(Characters) /\ Clean(<<c>>)
<1>1. <<c>> \in Seq(Characters) /\ Len(<<c>>) = 1 /\ DOMAIN <<c>> = 1..1 /\ <<c>>[1] = c
  OBVIOUS
<1>2. Markers(<<c>>) = {}
  <2> SUFFICES ASSUME NEW i \in 1..1, NEW j \in i..1, IsMarker(<<c>>, i, j) PROVE FALSE
    BY <1>1 DEF Markers
  <2>1. j >= i + 4
    BY DEF IsMarker
  <2> QED  BY <2>1
<1>3. \A k \in 1..1 : <<c>>[k] \notin {"esc", "bel", "L", "K"}
  BY <1>1 DEF Unseen
<1> QED  BY <1>1, <1>2, <1>3 DEF Clean

LEMMA ReportsAreTrue == HitsSayWhat
<1> SUFFICES ASSUME NEW t \in Texts, NEW v \in {Value(t)}
             PROVE  /\ \A l \in 1..Lines(t) :
                         \/ \E n \in DOMAIN v.hits : Covers(v.hits[n], l)
                         \/ l <= Lines(v.text) /\ Shown(v.text, l) = Shown(t, l)
                    /\ v.hits = <<>> <=> v.text = t
                    /\ Len(v.hits) <= maxHitsPerField
                    /\ \A posted \in {[k \in {<<"a">>} |-> t]} : SomethingRemoved(posted) <=> v.text # t
  BY DEF HitsSayWhat
<1>1. t \in Seq(Characters) /\ v = Value(t)
  BY TextsAssumption
<1>2. \A l \in 1..Lines(t) :
        \/ \E n \in DOMAIN v.hits : Covers(v.hits[n], l)
        \/ l <= Lines(v.text) /\ Shown(v.text, l) = Shown(t, l)
  BY <1>1, LinesAccounted
<1>3. (v.hits = <<>> <=> v.text = t) /\ Len(v.hits) <= maxHitsPerField
  BY <1>1, ValueIs
<1>4. SomethingRemoved([k \in {<<"a">>} |-> t]) <=> v.text # t
  <2> DEFINE a == <<"a">>
             posted == [k \in {a} |-> t]
  <2>1. Value(a).hits = <<>>
    <3>1. a \in Seq(Characters) /\ Clean(a)
      BY OneIsClean DEF Unseen, Characters
    <3>2. Value(a) = [text |-> a, hits |-> <<>>]
      <4> HIDE DEF a
      <4> QED  BY <3>1, CleanStays
    <3> QED  BY <3>2
  <2> HIDE DEF a
  <2>2. DOMAIN posted = {a} /\ posted[a] = t
    OBVIOUS
  <2> HIDE DEF posted
  <2>3. SomethingRemoved(posted) <=> Value(t).hits # <<>>
    BY <2>1, <2>2 DEF SomethingRemoved
  <2>4. SomethingRemoved(posted) <=> v.text # t
    BY <1>1, <1>3, <2>3
  <2> QED  BY <2>4 DEF posted, a
<1> QED  BY <1>2, <1>3, <1>4

-----------------------------------------------------------------------------
(* Answers                                                                 *)

\* What is shown of a submission is clean, and it lost something just when a
\* hit says so.
LEMMA FieldsAre ==
  ASSUME NEW D, D \subseteq Seq(Characters), NEW data \in [D -> Seq(Characters)]
  PROVE  /\ \A k \in DOMAIN Fields(data).fields : Clean(k) /\ Clean(Fields(data).fields[k])
         /\ Fields(data).fields # data <=> Fields(data).hits # {}
<1> DEFINE shown == {k \in D : Value(k).hits = <<>>}
           out == [k \in shown |-> Value(data[k]).text]
           Of(k) == IF k \in shown THEN Value(data[k]).hits ELSE InName(Value(k).hits)
           hits == UNION {ToSet(Of(k)) : k \in D}
<1>1. Fields(data).fields = out /\ Fields(data).hits = hits
  BY DEF Fields
<1>2. ASSUME NEW k \in D
      PROVE  /\ Clean(Value(data[k]).text) /\ Clean(Value(k).text)
             /\ (Value(data[k]).hits = <<>> <=> Value(data[k]).text = data[k])
             /\ (Value(k).hits = <<>> => Value(k).text = k)
             /\ Value(k).hits # <<>> => 1 \in DOMAIN Value(k).hits
             /\ Value(data[k]).hits # <<>> => 1 \in DOMAIN Value(data[k]).hits
  <2>1. k \in Seq(Characters) /\ data[k] \in Seq(Characters)
    OBVIOUS
  <2> QED  BY <2>1, ValueIs
<1>3. \A k \in shown : Clean(k) /\ Clean(out[k])
  BY <1>2
<1>4. ASSUME NEW k \in D, ~(k \in shown /\ Value(data[k]).hits = <<>>) PROVE hits # {}
  <2> DEFINE h == Of(k)
  <2>1. 1 \in DOMAIN h
    <3>1. CASE k \in shown
      <4>1. h = Value(data[k]).hits
        BY <3>1
      <4> QED  BY <1>2, <1>4, <3>1, <4>1
    <3>2. CASE k \notin shown
      <4>1. h = InName(Value(k).hits)
        BY <3>2
      <4>2. 1 \in DOMAIN Value(k).hits
        BY <1>2, <3>2
      <4>3. DOMAIN InName(Value(k).hits) = DOMAIN Value(k).hits
        BY DEF InName
      <4> HIDE DEF h
      <4> QED  BY <4>1, <4>2, <4>3
    <3> QED  BY <3>1, <3>2
  <2>2. h[1] \in ToSet(h)
    <3> HIDE DEF h
    <3> QED  BY <2>1 DEF ToSet
  <2>3. h[1] \in hits
    <3> HIDE DEF shown
    <3> QED  BY <2>2
  <2> HIDE DEF hits
  <2> QED  BY <2>3
<1>5. ASSUME \A k \in D : k \in shown /\ Value(data[k]).hits = <<>> PROVE hits = {} /\ out = data
  <2>1. \A k \in D : Of(k) = <<>>
    BY <1>5
  <2>2. hits = {}
    <3>1. ToSet(<<>>) = {}
      BY DEF ToSet
    <3> HIDE DEF Of
    <3> QED  BY <2>1, <3>1
  <2>3. shown = D
    BY <1>5
  <2>4. \A k \in D : Value(data[k]).text = data[k]
    BY <1>2, <1>5
  <2>5. data = [k \in D |-> data[k]]
    OBVIOUS
  <2>6. out = [k \in D |-> data[k]]
    <3> HIDE DEF shown
    <3> QED  BY <2>3, <2>4
  <2> QED  BY <2>2, <2>5, <2>6
<1>6. ASSUME out = data PROVE \A k \in D : k \in shown /\ Value(data[k]).hits = <<>>
  <2>1. shown = D
    <3>1. DOMAIN out = shown /\ DOMAIN data = D
      OBVIOUS
    <3> HIDE DEF shown, out
    <3> QED  BY <1>6, <3>1
  <2>2. \A k \in shown : Value(data[k]).text = data[k]
    <3>1. \A k \in shown : out[k] = Value(data[k]).text
      OBVIOUS
    <3> HIDE DEF shown, out
    <3> QED  BY <1>6, <3>1
  <2> HIDE DEF shown, out
  <2> QED  BY <1>2, <2>1, <2>2
<1>7. out # data <=> hits # {}
  <2> HIDE DEF out, hits, shown
  <2> QED  BY <1>4, <1>5, <1>6
<1>8. DOMAIN out = shown
  OBVIOUS
<1> HIDE DEF out, hits, shown
<1> QED  BY <1>1, <1>3, <1>7, <1>8

LEMMA AddressesAre ==
  /\ Clean(<<>>) /\ Clean(Address)
  /\ Address # <<>> /\ AddressPort # <<>> /\ Network # <<>>
<1>1. Clean(<<>>)
  BY DEF Clean, Markers
<1>2. Clean(Address)
  BY OneIsClean DEF Address, Unseen, Characters
<1> QED  BY <1>1, <1>2 DEF Address, AddressPort, Network

LEMMA IpIs ==
  ASSUME NEW stored
  PROVE  /\ SanitiseIP(stored).ip \in {<<>>, Address}
         /\ SanitiseIP(stored).withheld <=> stored # <<>> /\ SanitiseIP(stored).ip = <<>>
<1>1. CASE stored = <<>>
  <2>1. stored \notin {Address, AddressPort}
    BY <1>1, AddressesAre
  <2>2. SanitiseIP(stored) = [ip |-> <<>>, withheld |-> FALSE]
    BY <1>1, <2>1 DEF SanitiseIP
  <2> QED  BY <1>1, <2>2
<1>2. CASE stored \in {Address, AddressPort}
  <2>1. stored # <<>>
    BY <1>2, AddressesAre
  <2>2. SanitiseIP(stored) = [ip |-> Address, withheld |-> FALSE]
    BY <1>2, <2>1 DEF SanitiseIP
  <2> QED  BY <2>2, AddressesAre
<1>3. CASE stored # <<>> /\ stored \notin {Address, AddressPort}
  <2>1. SanitiseIP(stored) = [ip |-> <<>>, withheld |-> TRUE]
    BY <1>3 DEF SanitiseIP
  <2> QED  BY <1>3, <2>1
<1> QED  BY <1>1, <1>2, <1>3

LEMMA SubmissionFiltered ==
  ASSUME NEW IncludeIPs \in BOOLEAN, NEW s \in Subs
  PROVE  SubmissionIsFiltered(IncludeIPs, Typed[s], ToSubmission(IncludeIPs, s))
<1> DEFINE typed == Typed[s]
           out == ToSubmission(IncludeIPs, s)
<1>1. /\ out.shown = Fields(typed.fields)
      /\ out.ip = IF IncludeIPs THEN SanitiseIP(typed.ip) ELSE [ip |-> <<>>, withheld |-> typed.ip # <<>>]
  BY DEF ToSubmission
<1>2. typed.fields \in [DOMAIN typed.fields -> Seq(Characters)] /\ DOMAIN typed.fields \subseteq Seq(Characters)
  BY TypedAssumption
<1> HIDE DEF out, typed
<1>3. /\ \A k \in DOMAIN out.shown.fields : Clean(k) /\ Clean(out.shown.fields[k])
      /\ out.shown.fields # typed.fields <=> out.shown.hits # {}
  BY <1>1, <1>2, FieldsAre
<1>4. /\ AddressIsOne(IncludeIPs, out.ip.ip)
      /\ out.ip.withheld <=> typed.ip # <<>> /\ out.ip.ip = <<>>
  <2>1. CASE IncludeIPs
    <3>1. out.ip = SanitiseIP(typed.ip)
      BY <1>1, <2>1
    <3> QED  BY <2>1, <3>1, IpIs DEF AddressIsOne
  <2>2. CASE ~IncludeIPs
    <3>1. out.ip = [ip |-> <<>>, withheld |-> typed.ip # <<>>]
      BY <1>1, <2>2
    <3> DEFINE w == typed.ip # <<>>
    <3>2. out.ip.ip = <<>> /\ out.ip.withheld = w
      <4>1. out.ip = [ip |-> <<>>, withheld |-> w]
        BY <3>1, Zenon
      <4> HIDE DEF w
      <4> QED  BY <4>1
    <3>3. AddressIsOne(IncludeIPs, out.ip.ip)
      BY <3>2 DEF AddressIsOne
    <3>4. out.ip.withheld <=> typed.ip # <<>> /\ out.ip.ip = <<>>
      BY <3>2, Zenon
    <3> QED  BY <3>3, <3>4
  <2> QED  BY <2>1, <2>2
<1>5. SubmissionIsFiltered(IncludeIPs, typed, out)
  BY <1>3, <1>4 DEF SubmissionIsFiltered
<1> QED  BY <1>5 DEF typed, out

LEMMA SignalFiltered ==
  ASSUME NEW IncludeIPs \in BOOLEAN, NEW sig,
         sig.field \in Seq(Characters), sig.match \in Seq(Characters)
  PROVE  SignalIsFiltered(IncludeIPs, sig, ToSignal(IncludeIPs, sig))
<1> DEFINE field == IF Value(sig.field).text = sig.field THEN sig.field ELSE <<>>
           clean == Value(sig.match).text
           match == CASE sig.check = "repeat_ip" ->
                           IF IncludeIPs THEN SanitiseIP(sig.match).ip ELSE <<>>
                      [] sig.check # "repeat_ip" /\ ~IncludeIPs /\ LooksLikeAddress(clean) -> <<>>
                      [] OTHER -> clean
           out == ToSignal(IncludeIPs, sig)
<1>1. out.field = field /\ out.match = match
  BY DEF ToSignal
<1>2. Clean(Value(sig.field).text) /\ Clean(clean)
  BY ValueIs
<1>3. Clean(field) /\ field \in {<<>>, sig.field}
  BY <1>2, AddressesAre
<1>4. /\ Clean(match)
      /\ IF sig.check = "repeat_ip" THEN AddressIsOne(IncludeIPs, match)
         ELSE LooksLikeAddress(match) => IncludeIPs
  <2> HIDE DEF clean
  <2>1. CASE sig.check = "repeat_ip"
    <3>1. match = IF IncludeIPs THEN SanitiseIP(sig.match).ip ELSE <<>>
      BY <2>1
    <3> HIDE DEF match
    <3> QED  BY <2>1, <3>1, IpIs, AddressesAre DEF AddressIsOne
  <2>2. CASE sig.check # "repeat_ip" /\ ~IncludeIPs /\ LooksLikeAddress(clean)
    <3>1. match = <<>>
      BY <2>2
    <3>2. ~LooksLikeAddress(<<>>)
      BY AddressesAre DEF LooksLikeAddress
    <3> HIDE DEF match
    <3> QED  BY <2>2, <3>1, <3>2, AddressesAre
  <2>3. CASE sig.check # "repeat_ip" /\ (IncludeIPs \/ ~LooksLikeAddress(clean))
    <3>1. match = clean
      BY <2>3
    <3> HIDE DEF match
    <3> QED  BY <1>2, <2>3, <3>1
  <2> QED  BY <2>1, <2>2, <2>3
<1> HIDE DEF out, field, match
<1>5. SignalIsFiltered(IncludeIPs, sig, out)
  BY <1>1, <1>3, <1>4 DEF SignalIsFiltered
<1> QED  BY <1>5 DEF out

\* Whatever was posted and however it is asked for, an answer shows no marker,
\* nothing unseen, no address it must not, and says so when it withholds; it
\* shows rows of the token's forms only; and no reason a row was held for tells
\* the value of a rule that a listing of the rules withholds.
THEOREM AnswersFiltered == Spec => []AnswersAreFiltered
<1>1. IInv => AnswersAreFiltered
  <2> SUFFICES ASSUME IInv, NEW IncludeIPs \in BOOLEAN
               PROVE  /\ \A s \in call.rows : Allows(call.reach, FormOf[s])
                      /\ \A s \in call.rows : \A out \in {ToSubmission(IncludeIPs, s)} :
                           SubmissionIsFiltered(IncludeIPs, Typed[s], out)
                      /\ \A sig \in UNION {Typed[s].signals : s \in call.rows} :
                           \A out \in {ToSignal(IncludeIPs, sig)} : SignalIsFiltered(IncludeIPs, sig, out)
                      /\ \A r \in rules : \A sig \in UNION {Typed[s].signals : s \in call.rows} :
                           ToRule(IncludeIPs, FALSE, r) # r.value =>
                             ToSignal(IncludeIPs, sig).match # r.value
    BY DEF AnswersAreFiltered
  <2>1. call.rows \subseteq Subs
    BY DEF IInv, TypeOK, Call
  <2>2. \A s \in call.rows : Allows(call.reach, FormOf[s])
    BY DEF IInv, CallInv
  <2>3. \A s \in call.rows : \A out \in {ToSubmission(IncludeIPs, s)} :
          SubmissionIsFiltered(IncludeIPs, Typed[s], out)
    BY <2>1, SubmissionFiltered
  <2>4. ASSUME NEW s \in call.rows, NEW sig \in Typed[s].signals
        PROVE  SignalIsFiltered(IncludeIPs, sig, ToSignal(IncludeIPs, sig))
    <3>1. sig.field \in Seq(Characters) /\ sig.match \in Seq(Characters)
      BY <2>1, TypedAssumption
    <3> QED  BY <3>1, SignalFiltered
  <2>5. ASSUME NEW r \in rules, NEW s \in call.rows, NEW sig \in Typed[s].signals,
               ToRule(IncludeIPs, FALSE, r) # r.value
        PROVE  ToSignal(IncludeIPs, sig).match # r.value
    <3>1. r \in Rules /\ r.type \in AddressRules /\ ~IncludeIPs
      BY <2>5 DEF ToRule, IInv, TypeOK
    <3>2. LooksLikeAddress(r.value) /\ r.value # <<>>
      BY <3>1, RulesAssumption, AddressesAre DEF LooksLikeAddress
    <3>3. SignalIsFiltered(IncludeIPs, sig, ToSignal(IncludeIPs, sig))
      BY <2>4
    <3>4. CASE sig.check = "repeat_ip"
      BY <3>1, <3>2, <3>3, <3>4 DEF SignalIsFiltered, AddressIsOne
    <3>5. CASE sig.check # "repeat_ip"
      BY <3>1, <3>2, <3>3, <3>5 DEF SignalIsFiltered
    <3> QED  BY <3>4, <3>5
  <2> QED  BY <2>2, <2>3, <2>4, <2>5
<1> QED  BY <1>1, Invariance, PTL

\* Whatever the text, redaction leaves no marker and nothing unseen, and going
\* over its result finds nothing.
THEOREM Redacted == Spec => []RedactionIsClean
<1>1. RedactionIsClean
  BY TextsAreCleaned DEF RedactionIsClean
<1> QED  BY <1>1, PTL

\* Whatever the text, a line that no hit covers is shown as it was written, at
\* its own place, and nothing is lost without a hit and the admin's notice.
THEOREM Reported == Spec => []RedactionSaysWhat
<1>1. RedactionSaysWhat
  BY ReportsAreTrue DEF RedactionSaysWhat
<1> QED  BY <1>1, PTL
=============================================================================
