---------------------------- MODULE MCChatThread -----------------------------
EXTENDS ChatThread
=============================================================================
