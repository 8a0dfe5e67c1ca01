------------------------- MODULE MCRegistrationForm -------------------------
(* Two hidden fields and one that is editable stand for the five.          *)
EXTENDS RegistrationForm

MCHiddenFields == {"gorilla.csrf.Token", "authRequestID"}
MCEditableFields == {"firstname"}
=============================================================================
