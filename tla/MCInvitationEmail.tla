-------------------------- MODULE MCInvitationEmail --------------------------
(* Two jobs for two slots; the constants are in MCInvitationEmail.cfg.     *)
EXTENDS InvitationEmail
=============================================================================
