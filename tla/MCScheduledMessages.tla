------------------------ MODULE MCScheduledMessages ------------------------
EXTENDS ScheduledMessages
=============================================================================
