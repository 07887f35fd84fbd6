------------------------ MODULE MCWorkflowLifecycle ------------------------
EXTENDS WorkflowLifecycle
=============================================================================
