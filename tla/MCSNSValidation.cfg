SPECIFICATION Spec
CONSTANTS
    Validators = {v1, v2}
    Messages <- MCMessages
    URLs <- MCURLs
    Serves <- MCServes
    Nil = Nil
INVARIANT TypeOK
INVARIANT ValidOnlyIfSigned
INVARIANT RefusalHasAReason
