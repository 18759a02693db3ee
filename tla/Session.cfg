SPECIFICATION Spec
INVARIANTS OwnersOutlive OnlyKnownLeaks PasswordStaysHome
PROPERTY Ends
