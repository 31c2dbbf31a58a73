\* A helper that does not publish a pid within containerPIDPublicationWait.
SPECIFICATION ProcessSpec
CONSTANTS
    Sites = {"container"}
    Prompt = FALSE
    MaxProcessFaults = 0
PROPERTY LateHelperStartsNothing
