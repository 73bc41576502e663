-------------------------- MODULE SettingsScreens --------------------------
(* The cards of the settings, and the pages of the account's own data.      *)
EXTENDS ScreenShapes

\* What most cards do: create under a flag and list again before it is
\* cleared; other buttons list again too, and have no flag.
Creating == Locked("creating", Op("create", "await"))
Changing == Op("change", "reload")
Removing == Op("remove", "reload")

TagActions == {Creating, Changing, Removing}
TagsCard == Card(TagActions)

\* The entity is chosen by a button; its effect has no clean-up.
CustomFieldActions == {Creating, Removing}
CustomFieldsCard == Filtered("free", Card(CustomFieldActions))

\* Stages are edited as a draft and saved together.
PipelineStages == Locked("saving", Op("change", "await"))
PipelineActions == {PipelineStages, Creating, Changing, Removing}
PipelinesCard == Refusable(Card(PipelineActions))

\* The delete button of a team is disabled by the team's id.  The list is
\* emptied for a user without the role, and kept on any other error.
TeamActions == {Creating, PerRow("deleting", Op("remove", "await")), Changing}
TeamsCard == Refusable(Card(TeamActions))

\* An invitation's link is shown once, and stays when it is revoked.
InviteActions == {Revealing(Creating), Ending(Removing)}
TeamCard == Refusable(Card(InviteActions))

\* One flag for a new template and an edited one.
TemplateDraft ==
  {Locked("saving", Op("create", "await")), Locked("saving", Op("change", "await"))}
DocumentTemplatesCard == Card(TemplateDraft \union {Removing})

\* A revoked key stays in the list, and in the banner if it is there.
ApiKeyForm == Revealing(Creating)
RevokeKey == Ending(Changing)
ApiKeysCard == Card({ApiKeyForm, RevokeKey})

\* Test and rotation share the id of one endpoint; the new secret goes to the
\* banner that shows a created endpoint's.  A deleted one's stays there.
WebhookForm == Revealing(Creating)
WebhookActions ==
  {PerRow("sending", Op("ask", "await")),
   Revealing(PerRow("sending", Op("change", "await"))), Changing,
   Ending(Removing)}
WebhooksCard == Card(WebhookActions \union {WebhookForm})

\* The setup's key, and the backup codes, are shown once; the setup button has
\* no flag.  Disabling takes the codes off the screen.
MfaSetup == Revealing(Op("ask", "none"))
MfaSections ==
  {Revealing(Locked("saving", Op("change", "await"))),
   [Locked("deleting", Op("change", "await")) EXCEPT !.ends = "hidden"]}
MfaCard == Card(MfaSections \union {MfaSetup})

SessionsCard ==
  Card({PerRow("deleting", Op("remove", "await")),
        Locked("sending", Op("remove", "await"))})

GdprCard == Card({Locked("saving", Op("change", "splice"))})

\* Profile and password have a flag each; the profile shown is the answer.
SaveProfile == Locked("saving", Op("change", "splice"))
ChangePassword == Locked("sending", Op("ask", "none"))
SettingsPage == Card({SaveProfile, ChangePassword})

\* The buttons go to Stripe and set the flag to the id of what they open (that
\* of the header is disabled by every id); the one below the invoices sets it
\* too, and is never disabled.
ToStripe == [PerRow("sending", Op("ask", "leave")) EXCEPT !.frees = "failure"]
BillingActions == {ToStripe, [ToStripe EXCEPT !.needs = {}]}
BillingPage == Emptied(Card(BillingActions))

ExportsPage == Form({PerRow("sending", Op("ask", "none"))})

AvatarUpload == Filtered("flag", Card({Locked("saving", Op("change", "splice"))}))

OrgActions == {SubmitOnce("ask"), SubmitOnce("create")}
OrgSwitcher == Emptied(Card(OrgActions))

SupportDialog == Form({SubmitOnce("create")})

SettingsPages ==
  {TagsCard, CustomFieldsCard, PipelinesCard, TeamsCard, TeamCard,
   DocumentTemplatesCard, ApiKeysCard, WebhooksCard, MfaCard, SessionsCard,
   GdprCard, SettingsPage, BillingPage, ExportsPage, AvatarUpload, OrgSwitcher,
   SupportDialog}
=============================================================================
