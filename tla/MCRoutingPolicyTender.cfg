SPECIFICATION Spec
CONSTANTS
    Email <- MCEmail
    Text <- MCText
    None = None
PROPERTY
    TendersStayWithAarti
