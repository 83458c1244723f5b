----------------------------- MODULE MCService -----------------------------
EXTENDS Service, TLC

\* svc:ai delivers drafts and reviews and may name an editor; the app acts for a reader.
MCCaps == [x \in Svc \cup App |-> {"news.story.revise", "news.story.retract", "news.review.ai_editor"}]
MCOnBehalfOf == [x \in App |-> CHOOSE p \in Person : p \notin Editors]
Once == [b \in Budget |-> 1]
=============================================================================
