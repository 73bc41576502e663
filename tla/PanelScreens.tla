---------------------------- MODULE PanelScreens ----------------------------
(* The panels on a record's page, those of the shell, and the inbox.        *)
EXTENDS ScreenShapes

(***************************************************************************)
(* Panels of a record.  They list by a prop of theirs, without a clean-up. *)
(***************************************************************************)
OfRecord(page) == Filtered("free", page)
Downloading == Op("ask", "none")

AttachmentUpload == Locked("creating", Op("create", "await"))
AttachmentActions == {AttachmentUpload, PerRow("deleting", Op("remove", "await"))}
AttachmentsPanel == OfRecord(Card(AttachmentActions \union {Downloading}))

NoteActions ==
  {Locked("creating", Op("create", "await")),
   PerRow("saving", Op("change", "await")), Op("remove", "reload")}
NotesPanel == OfRecord(Card(NoteActions))

\* Creating, sending and cancelling a request share one flag, and copying the
\* signer's link needs it.
SignatureActions ==
  {Locked("saving", Op(kind, "await")) : kind \in {"create", "change"}} \union
  {Needing({"saving"}, Op("ask", "none"))}
SignaturePanel == OfRecord(Card(SignatureActions))

\* A tag is put on or taken off at once, and the tags are loaded again when
\* that fails.
EntityTags ==
  OfRecord(Card({[Locked("saving", Op("change", "splice")) EXCEPT
                    !.early = TRUE, !.error = "reload"]}))

ActivityTimeline == Filtered("flag", View)

CustomFieldsInput == Emptied(OfRecord(View))
CustomFieldsDisplay == Emptied(OfRecord(View))

FormsQueue == Emptied(View)
TasksMonthView == Emptied(View)
ReportsView == Emptied(View)

\* The bar itself lists the tags to choose from, and is gone once it applied
\* one (what becomes of the rows is in the pages that show it).
BulkTagBar ==
  Emptied(Card({[Locked("applying", Op("ask", "leave")) EXCEPT !.frees = "failure"]}))

SegmentBar == Emptied(Card({Op("create", "await"), Op("remove", "await")}))

(***************************************************************************)
(* The shell.                                                              *)
(***************************************************************************)
\* Marking all is kept from a second click, marking and dismissing one are not.
MarkAll == Locked("applying", Op("all", "splice"))
NotificationActions == {MarkAll, Op("change", "splice"), Op("remove", "splice")}

\* The bell lists when it is opened, until a list or an error has come, and
\* never again.  (Its timer asks for the unread count only.)
NotificationsBell == Opened(Emptied(Card(NotificationActions)))

\* The page shows all or the unread ones, and its effect has a clean-up.
NotificationsPage == Filtered("flag", Emptied(Card(NotificationActions)))

GlobalSearch == Filtered("flag", Emptied(View))
OnboardingChecklist == View
CurrencyProvider == Card({Op("ask", "none")})

\* The question is kept from being asked twice until the answer has streamed.
AskAssistant == Locked("sending", Op("ask", "none"))
AssistantPanel == Form({AskAssistant})
AskChatbot == Locked("sending", Op("ask", "none"))
LandingChatbot == Form({AskChatbot})

(***************************************************************************)
(* The inbox: conversations and the open thread, each with a timer; the    *)
(* thread's is cleared with it, its requests are not.                      *)
(***************************************************************************)
\* Opening a conversation marks it read; linking it to a record has a flag.
MarkRead == Op("change", "splice")
LinkRecord == Locked("applying", Op("change", "splice"))
Conversations == Polling(Card({MarkRead, LinkRecord}))

Thread ==
  Filtered("free", Polling(Card({Locked("sending", Op("create", "splice"))})))

\* The accounts are loaded again once a number is connected, and this form is
\* gone when they are.
ConnectEmptyState == Emptied(Card({Locked("saving", Op("create", "reload"))}))

\* The search of the record to link waits for the typing to pause.
LinkSearch == Filtered("free", Emptied(View))

PanelPages ==
  {AttachmentsPanel, NotesPanel, SignaturePanel, EntityTags, ActivityTimeline,
   CustomFieldsInput, CustomFieldsDisplay, FormsQueue, TasksMonthView,
   ReportsView, BulkTagBar, SegmentBar, NotificationsBell, NotificationsPage,
   GlobalSearch, OnboardingChecklist, CurrencyProvider, AssistantPanel,
   LandingChatbot, Conversations, Thread, ConnectEmptyState, LinkSearch}
=============================================================================
