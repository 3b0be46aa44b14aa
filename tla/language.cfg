SPECIFICATION Spec
CHECK_DEADLOCK FALSE
CONSTANT MaxLines = 3
INVARIANT LanguageTypeOK
 
PROPERTY CallsKeepToThemselves
