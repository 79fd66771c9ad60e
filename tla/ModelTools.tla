----------------------------- MODULE ModelTools -----------------------------
(***************************************************************************)
(* agent/tools.py: whether a tool may ask the model at all, decided from   *)
(* the environment of the process, and what it makes of the answer.        *)
(***************************************************************************)

\* A mode variable is not set, set to true or 1 in whatever case, or set to
\* anything else.
ModeValues == {"unset", "true", "other"}

CredentialEnv == [enterprise : ModeValues, vertexai : ModeValues,
                  project : BOOLEAN,    \* GOOGLE_CLOUD_PROJECT
                  api_key : BOOLEAN]    \* GOOGLE_API_KEY or GEMINI_API_KEY

\* Fault: the older variable is looked at first.
vertex_mode_requested_swapped(e) ==
    "true" = IF e.vertexai # "unset" THEN e.vertexai ELSE e.enterprise

\* The first variable that is set decides.
vertex_mode_requested(e) ==
    "true" = IF e.enterprise # "unset" THEN e.enterprise ELSE e.vertexai

\* require_credentials raises MissingModelCredentials when this is false.
require_credentials(e) ==
    IF vertex_mode_requested(e) THEN e.project ELSE e.api_key

\* What the google-genai client makes of the same environment (external):
\* the mode variables in its precedence, and the credential of that mode.
ClientUsesVertex(e) == \/ e.enterprise = "true"
                       \/ e.enterprise = "unset" /\ e.vertexai = "true"

ClientHasCredential(e) == \/ ClientUsesVertex(e) /\ e.project
                          \/ ~ ClientUsesVertex(e) /\ e.api_key

\* What the model answers: text, or nothing but white space.
Answers == {"text", "empty"}

\* Fault: whatever comes back is taken for a summary.
generate_returns_any(answer) == TRUE

\* generate returns the text; on an empty answer it raises.
generate_returns(answer) == answer # "empty"
=============================================================================
