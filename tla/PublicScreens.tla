---------------------------- MODULE PublicScreens ----------------------------
(* The pages outside the application: accounts, invitations, signing.       *)
EXTENDS ScreenShapes

\* Logging in may ask for a code first, and the code is sent under its flag.
\* Registering leaves for the dashboard, or for the mail to be confirmed, which
\* can be sent again.
ResendVerification == Locked("sending", Op("ask", "none"))
LoginForms == {Submit("ask"), ResendVerification}
LoginPage == Form(LoginForms)
RegisterForms == {Submit("create"), ResendVerification}
RegisterPage == Form(RegisterForms)

\* The preview of the invitation is loaded first.
InviteAcceptPage == Card({SubmitOnce("create")})

ResetPasswordPage == Form({Submit("ask")})
ForgotPasswordPage == Form({Locked("saving", Op("ask", "none"))})

\* Signing and declining share a flag, and either ends the page.
SignActions == {SubmitOnce("change")}
SignPage == Card(SignActions)

PublicPages ==
  {LoginPage, RegisterPage, InviteAcceptPage, ResetPasswordPage,
   ForgotPasswordPage, SignPage}
=============================================================================
