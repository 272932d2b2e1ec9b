----------------------------- MODULE HttpAnswers -----------------------------
(***************************************************************************)
(* What mdtpy/http_client.py raises for an answer of the instance manager  *)
(* that is not 2xx: the class depends on the shape of the body.            *)
(***************************************************************************)

\* The shapes of such a body: text, or JSON that it cannot read or does not know; the
\* messages of the manager, or an empty list of them; one of the three codes of
\* _CODE_TO_EXCEPTION with its message; another code; a code without the message, or the
\* text, that goes with it.
ErrorBody == {"text", "messages", "no messages", "not found", "already exists",
              "invalid status", "other code", "code alone"}

\* The last two are not raised on purpose: to_exception() means to return an exception
\* for every body.
ToException(b) ==
    CASE b = "not found" -> "ResourceNotFoundError"
      [] b = "already exists" -> "ResourceAlreadyExistsError"
      [] b = "invalid status" -> "InvalidResourceStateError"
      [] b = "code alone" -> "KeyError"
      [] b = "no messages" -> "IndexError"
      [] OTHER -> "RemoteError"

\* What a request that is refused may end with.
Refusal == {ToException(b) : b \in ErrorBody}
===============================================================================
