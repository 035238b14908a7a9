--------------------------- MODULE MCWebhookOutbox ---------------------------
(* Small instances of WebhookOutbox. *)
EXTENDS WebhookOutbox

\* Two hooks and two changes; the template of one hook has no value in the
\* only change it wants, so that change fails while the hook is registered.
MixedHooks == {"hookA", "hookB"}
MixedMutations == {"issue", "link"}
MixedGroups == [h \in MixedHooks |-> h]
MixedWants == [h \in MixedHooks |-> IF h = "hookA" THEN MixedMutations ELSE {"link"}]
MixedUnavailable == [h \in MixedHooks |-> IF h = "hookA" THEN {} ELSE {"link"}]

\* Two hooks of two owners and one change.
TwoHooks == {"hookA", "hookB"}
OneMutation == {"issue"}
TwoGroups == [h \in TwoHooks |-> h]
TwoWants == [h \in TwoHooks |-> OneMutation]
TwoUnavailable == [h \in TwoHooks |-> {}]
=============================================================================
