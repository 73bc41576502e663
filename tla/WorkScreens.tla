----------------------------- MODULE WorkScreens -----------------------------
(* The pages of the work itself: records, documents, tools.                 *)
EXTENDS ScreenShapes

(***************************************************************************)
(* Pages on TanStack Query.  Their mutations return the promise of the     *)
(* invalidation, so a mutation is pending until its listing is back.       *)
(***************************************************************************)
Invalidating(kind) == Op(kind, "invalidate")
Pending(lock, kind) == Locked(lock, Invalidating(kind))

\* The search waits for the typing to pause and is part of the query's key.
SearchList(ops) == Filtered("keyed", Paged(Card(ops)))

\* What removes a row from a list has no flag.
DeleteFromList == Invalidating("remove")

\* The bar over the list tags the chosen rows, one or all.  It does not wait
\* for the listing, is put away once that is done, and can be before.
BulkTag ==
  {[Locked("applying", Op(kind, "refresh")) EXCEPT !.slot = "away"] :
     kind \in {"change", "all"}}

LeadRows == BulkTag \union {DeleteFromList}
LeadsPage == SearchList(LeadRows)
CustomerRows == BulkTag \union {DeleteFromList}
CustomersPage == SearchList(CustomerRows)
CompanyRows == BulkTag \union {DeleteFromList}
CompaniesPage == SearchList(CompanyRows)
ProductRows == {DeleteFromList}
ProductsPage == SearchList(ProductRows)
QuotesPage == Paged(View)
ContractsPage == Paged(View)

\* The buttons of a rule are disabled while the latest toggle or the latest
\* deletion is of that rule.
RuleLocks == {"saving", "deleting"}
ToggleRule == Needing(RuleLocks, PerLatest("saving", Invalidating("change")))
DeleteRule == Needing(RuleLocks, PerLatest("deleting", Invalidating("remove")))
CreateRule == Pending("creating", "create")
RuleActions == {ToggleRule, DeleteRule}
AutomationsPage == Card(RuleActions \union {CreateRule})

ToggleForm == Needing(RuleLocks, PerLatest("saving", Invalidating("change")))
DeleteForm == Needing(RuleLocks, PerLatest("deleting", Invalidating("remove")))
CreateForm == Pending("creating", "create")
FormRows == {ToggleForm, DeleteForm}
FormsPage == Card(FormRows \union {CreateForm})

\* Only creating a team has a flag.
CreateTeam == Pending("creating", "create")
TeamRows == {Invalidating("remove"), Invalidating("change")}
TeamsPage == Card(TeamRows \union {CreateTeam})

GoalsTab ==
  Card({Pending("creating", "create"), PerLatest("deleting", Invalidating("remove"))})
PerformanceSummary == Filtered("keyed", View)

RestoreRow == Invalidating("change")
TrashRows == {RestoreRow, Invalidating("remove"), Pending("deleting", "remove")}
TrashPage == Paged(Card(TrashRows))

MergeGroup == PerLatest("saving", Invalidating("change"))
DuplicatesPage == Filtered("keyed", Card({MergeGroup}))

\* The summary is put in the cache; the record's own deletion leaves the page.
Summarize == Locked("generating", Op("change", "splice"))
CustomerActions == {Summarize, Op("remove", "leave")}
CustomerDetailPage == Card(CustomerActions)
CompanyDetailPage == Card({Op("remove", "leave")})

\* A lead's score and stage put the answer in the cache; a converted lead
\* leaves for its deal.
Score == Locked("generating", Op("change", "splice"))
ChangeStage == Locked("applying", Op("change", "splice"))
Convert == Submit("change")
LeadActions == {Score, ChangeStage, Convert, Op("remove", "leave")}
LeadDetailPage == Card(LeadActions)

\* A task's next status has no flag and replaces the task; one that someone
\* else changed is listed again.
CycleStatus == {[Op("change", "splice") EXCEPT !.error = e] :
                  e \in {"say", "invalidate"}}
CreateTask == Pending("creating", "create")
TaskRows == CycleStatus \union {Invalidating("remove")}
TaskList == Paged(Card(TaskRows \union {CreateTask}))

AuditPage == Filtered("keyed", View)
DocumentsPage == View
DashboardPage == View

(***************************************************************************)
(* Quotes and contracts.  The flag of the page is that of its steps; what  *)
(* makes a new document leaves for it.  The files of the document are a    *)
(* list of their own beside it, loaded once: the PDF is ordered under a    *)
(* flag, and its file looked for until a listing has it or too many had    *)
(* not.                                                                    *)
(***************************************************************************)
Step == Locked("saving", Op("change", "splice"))
MakeAnother == SubmitOnce("create")
DeleteDocument == Needing({"saving"}, Op("remove", "leave"))
GeneratePdf == [Locked("generating", Op("order", "await")) EXCEPT !.frees = "listed"]
DownloadPdf == Op("ask", "none")

QuoteSteps == {Step, MakeAnother, DeleteDocument}
QuotePage == Card(QuoteSteps)
QuoteFiles == Card({GeneratePdf, DownloadPdf})

\* A contract's template text is applied under a flag of its own.
ApplyTemplate == Locked("applying", Op("change", "splice"))
ContractSteps == {Step, MakeAnother, DeleteDocument, ApplyTemplate}
ContractPage == Card(ContractSteps)
ContractFiles == Card({GeneratePdf, DownloadPdf})

\* The editor of a quote loads the products to choose from.
SaveQuote == SubmitOnce("create")
QuoteForm == Card({SaveQuote})
NewQuotePage == QuoteForm
SaveContract == SubmitOnce("create")
ContractForm == Form({SaveContract})
NewContractPage == ContractForm
QuoteEditPage == Card({SubmitOnce("change")})
ContractEditPage == Card({SubmitOnce("change")})

(***************************************************************************)
(* Forms of new records clear their flag on every path, also while the     *)
(* page of the new record is on its way.                                   *)
(***************************************************************************)
NewDeal == Submit("create")
NewDealPage == Form({NewDeal})
NewLead == Submit("create")
NewLeadPage == Form({NewLead})
NewCustomerPage == Form({Submit("create")})
NewCompanyPage == Form({Submit("create")})
NewProductPage == Form({Submit("create")})

\* A second file is not sent while one is; a timer lists while one is worked
\* on.
ImportFile == Locked("creating", Op("create", "await"))
ImportActions == {ImportFile, Op("ask", "none")}
ImportsPage == Polling(Card(ImportActions))

\* One template is applied at a time, and marked.
OnboardingPage == Card({Locked("applying", Op("change", "splice"))})

WorkPages ==
  {LeadsPage, CustomersPage, CompaniesPage, ProductsPage, QuotesPage,
   ContractsPage, AutomationsPage, FormsPage, TeamsPage, GoalsTab,
   PerformanceSummary, TrashPage, DuplicatesPage, CustomerDetailPage,
   CompanyDetailPage, LeadDetailPage, TaskList, AuditPage, DocumentsPage,
   DashboardPage, QuotePage, QuoteFiles, ContractPage, ContractFiles,
   NewQuotePage, NewContractPage, QuoteEditPage, ContractEditPage,
   NewDealPage, NewLeadPage, NewCustomerPage, NewCompanyPage, NewProductPage,
   ImportsPage, OnboardingPage}
=============================================================================
