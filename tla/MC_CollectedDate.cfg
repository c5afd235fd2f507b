CONSTANTS
    NoDate = NoDate
    Years = {1999, 2000, 2023, 2024, 2100}
    Months = {0, 1, 2, 4, 12, 13, 20}
    Days = {0, 1, 28, 29, 30, 31, 32}
    HourValues = {0, 19, 20, 23, 24, 30}
    MinuteValues = {0, 59, 60, 70}
    SecondValues = {0, 59, 60}
SPECIFICATION Spec
INVARIANT ExtractAgreesWithCalendar
