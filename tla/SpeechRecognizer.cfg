SPECIFICATION Spec
PROPERTIES
    ReadyUnlessOverslept
    CallsEnd
